-------------------------- MODULE NeuralBlocksProofs --------------------------
(***************************************************************************)
(* Proofs about the blocks of the neural compiler, for any tasks, tokens   *)
(* and words: what the grammar believes, and what is rewarded.             *)
(***************************************************************************)
EXTENDS NeuralBlocks, WellFoundedInduction, SequenceTheorems, FiniteSetTheorems, TLAPS

-----------------------------------------------------------------------------
(* The price of a block is a number, whatever the block.                   *)

Below == {pair \in Nat \X Nat : pair[1] < pair[2]}

\* A set of numbers has a least one.
LEMMA Least ==
    ASSUME NEW T \in SUBSET Nat, T # {}
    PROVE  \E n \in T : \A m \in T : n <= m
<1>1. OpToRel(<, Nat) = Below
  BY Zenon DEF OpToRel, Below
<1>2. IsWellFoundedOn(Below, Nat)
  BY <1>1, NatLessThanWellFounded, Zenon
<1>3. PICK x \in T : \A y \in T : ~ (<<y, x>> \in Below)
  BY <1>2, WFMin
<1>4. ASSUME NEW y \in Nat, y < x PROVE <<y, x>> \in Below
  <2>1. <<y, x>> \in Nat \X Nat /\ <<y, x>>[1] = y /\ <<y, x>>[2] = x
    OBVIOUS
  <2> QED
    BY <1>4, <2>1 DEF Below
<1>5. \A y \in T : ~(y < x)
  BY <1>3, <1>4
<1> QED
  BY <1>5

LEMMA MinIs ==
    ASSUME NEW T \in SUBSET Nat, T # {}
    PROVE  Min(T) \in T /\ \A m \in T : Min(T) <= m
  BY Least DEF Min

LEMMA CostIs == ASSUME NEW block PROVE Cost(block) \in Int
<1> DEFINE logs == {MaxLog} \cup {e \in 0 .. MaxLog : MaxHeight(ProfileTasm(block)) <= 2 ^ e}
<1>1. logs \in SUBSET Nat /\ logs # {}
  BY BlockVerifierAssumption
<1> HIDE DEF logs
<1>2. Min(logs) \in Nat
  BY <1>1, MinIs
<1>3. Cost(block) = 2 ^ Min(logs)
  BY DEF Cost, PaddedHeight, logs
<1> QED
  BY <1>2, <1>3

-----------------------------------------------------------------------------
(* Rewards.                                                                *)

\* An outcome comes with the verdict and the candidate that it is about.
OutcomeInv ==
    /\ task \in DOMAIN Tasks
    /\ Kind = "walk" => outcome = <<>>
    /\ verdict = "open" => outcome = <<>>
    /\ RewardsAreEarned

\* The lesser of two costs.
LEMMA LesserIs ==
    ASSUME NEW a \in Int, NEW b \in Int
    PROVE  Min({a, b}) = IF a <= b THEN a ELSE b
<1>1. \E x \in {a, b} : \A y \in {a, b} : x <= y
  OBVIOUS
<1>2. Min({a, b}) \in {a, b} /\ \A m \in {a, b} : Min({a, b}) <= m
  BY <1>1 DEF Min
<1> QED
  BY <1>2

\* What is judged is not open any more, and is accepted only if there is a
\* candidate.
LEMMA JudgedIs ==
    ASSUME NEW candidate
    PROVE  /\ Judged(candidate) # "open"
           /\ Judged(candidate) = "accepted" => candidate # <<>>
  BY DEF Judged

\* A gain is the difference between the prices of two blocks of which the
\* cheaper was accepted.
LEMMA GainIs ==
    ASSUME NEW codes, NEW base \in Int, NEW judged,
           ScoreNeuralImprovement(codes, base, judged) > 0
    PROVE  /\ judged = "accepted"
           /\ Cost(DecodeOutput(codes)) + ScoreNeuralImprovement(codes, base, judged) = base
<1> DEFINE price == Cost(DecodeOutput(codes))
           least == Min({price, base})
           gain == ScoreNeuralImprovement(codes, base, judged)
<1>1. price \in Int
  BY CostIs
<1>2. gain = LET c == IF judged = "accepted" THEN least ELSE base
             IN IF c > base THEN 0 ELSE base - c
  BY DEF ScoreNeuralImprovement, ScoreNeuralOutput
<1>3. gain > 0
  OBVIOUS
<1> HIDE DEF price, gain
<1>4. least = IF price <= base THEN price ELSE base
  BY <1>1, LesserIs
<1> HIDE DEF least
<1>5. judged = "accepted" /\ price + gain = base
  BY <1>1, <1>2, <1>3, <1>4
<1> QED
  BY <1>5 DEF price, gain

LEMMA ReportIs ==
    ASSUME NEW candidate, NEW base
    PROVE  LET report == InjectNeuralCandidate(candidate, base)
               wins == candidate # <<>> /\ Cost(candidate) < base
           IN /\ report.winner = IF wins THEN "neural" ELSE "classical"
              /\ report.winner_cost = IF wins THEN Cost(candidate) ELSE base
  BY DEF InjectNeuralCandidate

LEMMA OutcomeInit == Init => OutcomeInv
  BY DEF Init, OutcomeInv, RewardsAreEarned, Kind

LEMMA JudgeOutcome ==
    ASSUME OutcomeInv, Judge PROVE OutcomeInv'
<1>1. PICK candidate, judged, cost :
         /\ candidate = IF Kind = "v1" THEN DecodeOutput(said) ELSE DecodeSequence(said)
         /\ judged = Judged(candidate) /\ cost = Cost(Block)
         /\ lines' = candidate /\ verdict' = judged
         /\ Kind = "v1" =>
              outcome' = [gain |-> ScoreNeuralImprovement(said, cost, judged),
                          score |-> ScoreCandidate(Block, candidate, Seed),
                          because |-> DiagnoseFailure(Block, candidate, Seed)]
         /\ Kind = "v2" =>
              outcome' = InjectNeuralCandidate(IF judged = "accepted" THEN candidate ELSE <<>>,
                                               cost)
  BY Zenon DEF Judge
<1>2. Kind \in {"v1", "v2"} /\ Kind' = Kind /\ Block' = Block /\ task' = task
  BY DEF Judge, Kind, Block
<1>3. judged # "open" /\ (judged = "accepted" => candidate # <<>>)
  BY <1>1, JudgedIs
<1>4. cost \in Int /\ Cost(candidate) \in Int /\ Cost(Block') = cost
  BY <1>1, <1>2, CostIs
<1>5. RewardsAreEarned'
  <2>1. CASE Kind = "v2"
    <3> DEFINE wins == judged = "accepted" /\ Cost(candidate) < cost
               real == IF judged = "accepted" THEN candidate ELSE <<>>
    <3>1. (real # <<>> /\ Cost(real) < cost) <=> wins
      BY <1>3
    <3>2. /\ outcome'.winner = IF wins THEN "neural" ELSE "classical"
          /\ outcome'.winner_cost = IF wins THEN Cost(candidate) ELSE cost
      <4>1. outcome' = InjectNeuralCandidate(real, cost)
        BY <1>1, <2>1
      <4>2. wins => Cost(real) = Cost(candidate)
        OBVIOUS
      <4> HIDE DEF real, wins
      <4> QED
        BY <3>1, <4>1, <4>2, ReportIs
    <3>3. (outcome'.winner = "neural") <=> wins
      BY <3>2
    <3> HIDE DEF wins
    <3>4. /\ (outcome'.winner = "neural") <=> (verdict' = "accepted" /\ Cost(lines') < Cost(Block'))
          /\ outcome'.winner_cost =
               IF outcome'.winner = "neural" THEN Cost(lines') ELSE Cost(Block')
      BY <1>1, <1>4, <3>2, <3>3 DEF wins
    <3> QED
      BY <1>2, <2>1, <3>4, Zenon DEF RewardsAreEarned
  <2>2. CASE Kind = "v1"
    <3>1. outcome'.gain = ScoreNeuralImprovement(said, cost, judged)
      BY <1>1, <2>2
    <3>2. candidate = DecodeOutput(said)
      BY <1>1, <2>2
    <3>3. outcome'.gain > 0 =>
            verdict' = "accepted" /\ Cost(lines') + outcome'.gain = Cost(Block')
      BY <1>1, <1>4, <3>1, <3>2, GainIs
    <3> QED
      BY <1>2, <2>2, <3>3 DEF RewardsAreEarned
  <2> QED
    BY <1>2, <2>1, <2>2
<1> QED
  BY <1>1, <1>2, <1>3, <1>5 DEF OutcomeInv

LEMMA OutcomeStep ==
    ASSUME OutcomeInv, [Next]_vars PROVE OutcomeInv'
<1>1. ASSUME NEW token \in Tasks[task].tokens, Say(token) PROVE OutcomeInv'
  BY <1>1 DEF Say, OutcomeInv, RewardsAreEarned, Kind
<1>2. CASE Judge
  BY <1>2, JudgeOutcome
<1>3. ASSUME NEW i \in DOMAIN Block, Walk(i) \/ Substitute(i) PROVE OutcomeInv'
  BY <1>3 DEF Walk, Substitute, OutcomeInv, RewardsAreEarned, Kind
<1>4. CASE UNCHANGED vars
  BY <1>4 DEF vars, OutcomeInv, RewardsAreEarned, Kind, Block
<1> QED
  BY <1>1, <1>2, <1>3, <1>4 DEF Next

\* A block is reported as the winner exactly if it was verified and costs
\* less, and no candidate that was not verified is rewarded in training.
THEOREM RewardsAreTrue == Spec => []RewardsAreEarned
<1>1. OutcomeInv => RewardsAreEarned
  BY DEF OutcomeInv
<1> QED
  BY <1>1, OutcomeInit, OutcomeStep, PTL DEF Spec

-----------------------------------------------------------------------------
(* Stacks are sequences of any words.                                      *)

IsSeq(s) == \E S : s \in Seq(S)

LEMMA SeqIs ==
    ASSUME NEW s, IsSeq(s)
    PROVE  Len(s) \in Nat /\ DOMAIN s = 1 .. Len(s)
  BY DEF IsSeq

LEMMA OneIs == ASSUME NEW x PROVE IsSeq(<<x>>) /\ Len(<<x>>) = 1
<1>1. <<x>> \in Seq({x}) /\ Len(<<x>>) = 1
  OBVIOUS
<1> QED
  BY <1>1, Zenon DEF IsSeq

LEMMA TwoIs == ASSUME NEW x, NEW y PROVE IsSeq(<<x, y>>) /\ Len(<<x, y>>) = 2
<1>1. <<x, y>> \in Seq({x, y}) /\ Len(<<x, y>>) = 2
  OBVIOUS
<1> QED
  BY <1>1, Zenon DEF IsSeq

LEMMA JoinIs ==
    ASSUME NEW s, NEW t, IsSeq(s), IsSeq(t)
    PROVE  IsSeq(s \o t) /\ Len(s \o t) = Len(s) + Len(t)
<1>1. PICK S, T : s \in Seq(S) /\ t \in Seq(T)
  BY DEF IsSeq
<1>2. s \in Seq(S \cup T) /\ t \in Seq(S \cup T)
  BY <1>1
<1>3. s \o t \in Seq(S \cup T) /\ Len(s \o t) = Len(s) + Len(t)
  BY <1>2
<1> QED
  BY <1>3, Zenon DEF IsSeq

\* A part of anything is a sequence.
LEMMA PartIs ==
    ASSUME NEW s, NEW m \in Int, NEW n \in Int
    PROVE  IsSeq(SubSeq(s, m, n)) /\ Len(SubSeq(s, m, n)) = IF m <= n THEN n - m + 1 ELSE 0
<1> DEFINE S == {s[i] : i \in m .. n}
<1>1. SubSeq(s, m, n) \in Seq(S) /\ Len(SubSeq(s, m, n)) = IF m <= n THEN n - m + 1 ELSE 0
  BY SubSeqProperties
<1> HIDE DEF S
<1> QED
  BY <1>1, Zenon DEF IsSeq

LEMMA SwappedIs ==
    ASSUME NEW s, IsSeq(s), NEW n \in Nat
    PROVE  /\ IsSeq([s EXCEPT ![1] = s[n + 1], ![n + 1] = s[1]])
           /\ Len([s EXCEPT ![1] = s[n + 1], ![n + 1] = s[1]]) = Len(s)
<1>1. PICK S : s \in Seq(S)
  BY DEF IsSeq
<1> DEFINE t == [s EXCEPT ![1] = s[n + 1], ![n + 1] = s[1]]
           T == S \cup {s[n + 1], s[1]}
<1>2. DOMAIN s = 1 .. Len(s) /\ Len(s) \in Nat /\ \A k \in 1 .. Len(s) : s[k] \in S
  BY <1>1
<1>3. t = [k \in 1 .. Len(s) |-> IF k = n + 1 THEN s[1] ELSE IF k = 1 THEN s[n + 1] ELSE s[k]]
  BY <1>2
<1>4. t \in [1 .. Len(s) -> T]
  BY <1>2, <1>3
<1> HIDE DEF t, T
<1>5. t \in Seq(T) /\ Len(t) = Len(s)
  BY <1>2, <1>4
<1>6. IsSeq(t) /\ Len(t) = Len(s)
  BY <1>5, Zenon DEF IsSeq
<1> QED
  BY <1>6 DEF t

LEMMA ZerosIs == ASSUME NEW n \in Nat PROVE IsSeq(Zeros(n)) /\ Len(Zeros(n)) = n
<1>1. Zeros(n) \in Seq({0}) /\ Len(Zeros(n)) = n
  BY DEF Zeros
<1> QED
  BY <1>1, Zenon DEF IsSeq

-----------------------------------------------------------------------------
(* What an instruction makes of the stack.                                 *)

LEMMA LineIs ==
    ASSUME NEW i, IsLine(i)
    PROVE  /\ i[2] \in Int
           /\ i[1] # "push" => i[2] \in Nat
  BY DEF IsLine

\* What is computed is one word, or two.
LEMMA ComputedIs ==
    ASSUME NEW op \in Unary \cup Binary, op # "assert", NEW a, NEW b
    PROVE  /\ IsSeq(Computed(op, a, b))
           /\ Len(Computed(op, a, b)) = IF op \in {"split", "div_mod"} THEN 2 ELSE 1
<1>1. CASE op \in {"split", "div_mod"}
  <2>1. Computed(op, a, b) \in {<<b % Limb, b \div Limb>>, <<a % b, a \div b>>}
    BY <1>1 DEF Computed
  <2> QED
    BY <1>1, <2>1, TwoIs, Zenon
<1>2. CASE op \notin {"split", "div_mod"}
  <2>1. \E x : Computed(op, a, b) = <<x>>
    BY <1>2 DEF Computed, Unary, Binary
  <2> QED
    BY <1>2, <2>1, OneIs, Zenon
<1> QED
  BY <1>1, <1>2

\* The words taken off the stack and put on it again.
Off(i) ==
    CASE i[1] \in {"pop", "write_io"} -> i[2]
      [] i[1] = "write_mem" -> i[2] + 1
      [] i[1] \in Unary \cup {"read_mem"} -> 1
      [] i[1] \in Binary -> 2
      [] i[1] = "assert_vector" -> 5
      [] i[1] \in {"hash", "sponge_absorb"} -> 10
      [] OTHER -> 0

On(i) ==
    CASE i[1] \in {"push", "dup", "write_mem"} -> 1
      [] i[1] \in {"read_io", "divine"} -> i[2]
      [] i[1] = "read_mem" -> i[2] + 1
      [] i[1] \in {"split", "div_mod"} -> 2
      [] i[1] \in (Unary \cup Binary) \ {"assert", "split", "div_mod"} -> 1
      [] i[1] = "hash" -> 5
      [] i[1] = "sponge_squeeze" -> 10
      [] OTHER -> 0

LEMMA RestackedIs ==
    ASSUME NEW i, IsLine(i), NEW stack, IsSeq(stack), Reach(i) <= Len(stack)
    PROVE  /\ IsSeq(Restacked(i, stack))
           /\ Len(Restacked(i, stack)) = Len(stack) - Off(i) + On(i)
<1> DEFINE n == i[2]
           op == i[1]
           new == Restacked(i, stack)
           under(k) == SubSeq(stack, k + 1, Len(stack))
           Goal == IsSeq(new) /\ Len(new) = Len(stack) - Off(i) + On(i)
<1>1. Len(stack) \in Nat /\ n \in Int /\ (op # "push" => n \in Nat)
  BY LineIs, SeqIs
<1>2. ASSUME NEW k \in Nat, k <= Len(stack)
      PROVE  IsSeq(under(k)) /\ Len(under(k)) = Len(stack) - k
  BY <1>1, <1>2, PartIs
<1>3. CASE op = "push"
  <2>1. new = <<n % Modulus>> \o stack /\ Off(i) = 0 /\ On(i) = 1
    BY <1>3 DEF Restacked, Off, On, Unary, Binary
  <2> QED
    BY <1>1, <2>1, OneIs, JoinIs
<1>4. CASE op \in {"pop", "write_io"}
  <2>1. new = under(n) /\ Off(i) = n /\ On(i) = 0 /\ Reach(i) = n
    BY <1>4 DEF Restacked, Off, On, Reach, Unary, Binary
  <2> HIDE DEF under
  <2> QED
    BY <1>1, <1>2, <1>4, <2>1
<1>5. CASE op = "dup"
  <2>1. new = <<stack[n + 1]>> \o stack /\ Off(i) = 0 /\ On(i) = 1
    BY <1>5 DEF Restacked, Off, On, Unary, Binary
  <2> QED
    BY <1>1, <2>1, OneIs, JoinIs
<1>6. CASE op = "swap"
  <2>1. /\ new = [stack EXCEPT ![1] = stack[n + 1], ![n + 1] = stack[1]]
        /\ Off(i) = 0 /\ On(i) = 0
    BY <1>6 DEF Restacked, Off, On, Unary, Binary
  <2>2. IsSeq(new) /\ Len(new) = Len(stack)
    BY <1>1, <1>6, <2>1, SwappedIs
  <2> QED
    BY <1>1, <2>1, <2>2
<1>7. CASE op = "pick"
  <2>1. /\ new = <<stack[n + 1]>> \o SubSeq(stack, 1, n) \o under(n + 1)
        /\ Off(i) = 0 /\ On(i) = 0 /\ Reach(i) = n + 1
    BY <1>7 DEF Restacked, Off, On, Reach, Unary, Binary
  <2>2. IsSeq(SubSeq(stack, 1, n)) /\ Len(SubSeq(stack, 1, n)) = n
    BY <1>1, <1>7, PartIs
  <2>3. IsSeq(under(n + 1)) /\ Len(under(n + 1)) = Len(stack) - (n + 1)
    BY <1>1, <1>2, <1>7, <2>1
  <2> HIDE DEF under
  <2>4. IsSeq(<<stack[n + 1]>> \o SubSeq(stack, 1, n))
        /\ Len(<<stack[n + 1]>> \o SubSeq(stack, 1, n)) = 1 + n
    BY <2>2, OneIs, JoinIs
  <2>5. Len(new) = n + 1 + Len(stack) - (n + 1) /\ IsSeq(new)
    BY <1>1, <1>7, <2>1, <2>3, <2>4, JoinIs
  <2> QED
    BY <1>1, <1>7, <2>1, <2>5
<1>8. CASE op = "place"
  <2>1. /\ new = SubSeq(stack, 2, n + 1) \o <<stack[1]>> \o under(n + 1)
        /\ Off(i) = 0 /\ On(i) = 0 /\ Reach(i) = n + 1
    BY <1>8 DEF Restacked, Off, On, Reach, Unary, Binary
  <2>2. IsSeq(SubSeq(stack, 2, n + 1)) /\ Len(SubSeq(stack, 2, n + 1)) = n
    BY <1>1, <1>8, PartIs
  <2>3. IsSeq(under(n + 1)) /\ Len(under(n + 1)) = Len(stack) - (n + 1)
    <3>1. n + 1 \in Nat /\ n + 1 <= Len(stack)
      BY <1>1, <1>8, <2>1
    <3> QED
      BY <1>2, <3>1
  <2> HIDE DEF under
  <2>4. IsSeq(SubSeq(stack, 2, n + 1) \o <<stack[1]>>)
        /\ Len(SubSeq(stack, 2, n + 1) \o <<stack[1]>>) = n + 1
    BY <2>2, OneIs, JoinIs
  <2>5. Len(new) = n + 1 + Len(stack) - (n + 1) /\ IsSeq(new)
    BY <1>1, <1>8, <2>1, <2>3, <2>4, JoinIs
  <2>6. Off(i) = 0 /\ On(i) = 0
    BY <2>1
  <2> HIDE DEF new
  <2> QED
    BY <1>1, <1>8, <2>5, <2>6 DEF new
<1>9. CASE op \in Binary
  <2>1. /\ new = Computed(op, stack[2], stack[1]) \o under(2)
        /\ Off(i) = 2 /\ Reach(i) = 2
        /\ On(i) = IF op \in {"split", "div_mod"} THEN 2 ELSE 1
    BY <1>9 DEF Restacked, Off, On, Reach, Unary, Binary
  <2>2. IsSeq(under(2)) /\ Len(under(2)) = Len(stack) - 2
    BY <1>1, <1>2, <2>1
  <2>3. op # "assert"
    BY <1>9 DEF Binary
  <2>4. IsSeq(Computed(op, stack[2], stack[1]))
        /\ Len(Computed(op, stack[2], stack[1])) = On(i)
    BY <1>9, <2>1, <2>3, ComputedIs
  <2>5. On(i) \in Nat
    BY <2>1
  <2> HIDE DEF under
  <2> QED
    BY <1>1, <2>1, <2>2, <2>4, <2>5, JoinIs
<1>10. CASE op = "assert"
  <2>1. new = under(1) /\ Off(i) = 1 /\ On(i) = 0 /\ Reach(i) = 1
    BY <1>10 DEF Restacked, Off, On, Reach, Unary, Binary
  <2> HIDE DEF under
  <2> QED
    BY <1>1, <1>2, <2>1
<1>11. CASE op \in Unary \ {"assert"}
  <2>1. /\ new = Computed(op, 0, stack[1]) \o under(1)
        /\ Off(i) = 1 /\ Reach(i) = 1
        /\ On(i) = IF op \in {"split", "div_mod"} THEN 2 ELSE 1
    BY <1>11 DEF Restacked, Off, On, Reach, Unary, Binary
  <2>2. IsSeq(under(1)) /\ Len(under(1)) = Len(stack) - 1
    BY <1>1, <1>2, <2>1
  <2>3. IsSeq(Computed(op, 0, stack[1])) /\ Len(Computed(op, 0, stack[1])) = On(i)
    BY <1>11, <2>1, ComputedIs
  <2>4. On(i) \in Nat
    BY <2>1
  <2> HIDE DEF under
  <2> QED
    BY <1>1, <2>1, <2>2, <2>3, <2>4, JoinIs
<1>12. CASE op \in {"assert_vector", "sponge_absorb"}
  <2>1. /\ new = IF op = "assert_vector" THEN under(5) ELSE under(10)
        /\ Off(i) = (IF op = "assert_vector" THEN 5 ELSE 10) /\ On(i) = 0 /\ Reach(i) = 10
    BY <1>12 DEF Restacked, Off, On, Reach, Unary, Binary
  <2> HIDE DEF under
  <2> QED
    BY <1>1, <1>2, <2>1
<1>13. CASE op \in {"read_io", "divine"}
  <2>1. new = Zeros(n) \o stack /\ Off(i) = 0 /\ On(i) = n
    BY <1>13 DEF Restacked, Off, On, Unary, Binary
  <2> QED
    BY <1>1, <1>13, <2>1, ZerosIs, JoinIs
<1>14. CASE op = "read_mem"
  <2>1. new = Zeros(n + 1) \o under(1) /\ Off(i) = 1 /\ On(i) = n + 1 /\ Reach(i) = 1
    BY <1>14 DEF Restacked, Off, On, Reach, Unary, Binary
  <2>2. IsSeq(under(1)) /\ Len(under(1)) = Len(stack) - 1
    BY <1>1, <1>2, <2>1
  <2>3. IsSeq(Zeros(n + 1)) /\ Len(Zeros(n + 1)) = n + 1
    BY <1>1, <1>14, ZerosIs
  <2> HIDE DEF under
  <2> QED
    BY <1>1, <1>14, <2>1, <2>2, <2>3, JoinIs
<1>15. CASE op = "write_mem"
  <2>1. new = <<0>> \o under(n + 1) /\ Off(i) = n + 1 /\ On(i) = 1 /\ Reach(i) = n + 1
    BY <1>15 DEF Restacked, Off, On, Reach, Unary, Binary
  <2>2. IsSeq(under(n + 1)) /\ Len(under(n + 1)) = Len(stack) - (n + 1)
    BY <1>1, <1>2, <1>15, <2>1
  <2> HIDE DEF under
  <2> QED
    BY <1>1, <2>1, <2>2, OneIs, JoinIs
<1>16. CASE op = "hash"
  <2>1. new = Zeros(5) \o under(10) /\ Off(i) = 10 /\ On(i) = 5 /\ Reach(i) = 10
    BY <1>16 DEF Restacked, Off, On, Reach, Unary, Binary
  <2>2. IsSeq(under(10)) /\ Len(under(10)) = Len(stack) - 10
    BY <1>1, <1>2, <2>1
  <2> HIDE DEF under
  <2> QED
    BY <1>1, <2>1, <2>2, ZerosIs, JoinIs
<1>17. CASE op = "sponge_squeeze"
  <2>1. new = Zeros(10) \o stack /\ Off(i) = 0 /\ On(i) = 10
    BY <1>17 DEF Restacked, Off, On, Unary, Binary
  <2> QED
    BY <1>1, <2>1, ZerosIs, JoinIs
<1>18. CASE op \notin Unary \cup Binary
                     \cup {"push", "pop", "write_io", "dup", "swap", "pick", "place",
                           "assert_vector", "sponge_absorb", "read_io", "divine", "read_mem",
                           "write_mem", "hash", "sponge_squeeze"}
  <2>1. new = stack /\ Off(i) = 0 /\ On(i) = 0
    BY <1>18 DEF Restacked, Off, On, Unary, Binary
  <2> QED
    BY <1>1, <2>1
<1> QED
  BY <1>3, <1>4, <1>5, <1>6, <1>7, <1>8, <1>9, <1>10, <1>11, <1>12, <1>13, <1>14, <1>15,
     <1>16, <1>17, <1>18

-----------------------------------------------------------------------------
(* What the verifier makes of a line.                                      *)

IsState(s) ==
    /\ s = [stack |-> s.stack, error |-> s.error, halted |-> s.halted,
            io_output |-> s.io_output, divine_log |-> s.divine_log,
            assert_log |-> s.assert_log, assert_vector_log |-> s.assert_vector_log]
    /\ IsSeq(s.stack)

LEMMA FreshIs == ASSUME NEW stack, IsSeq(stack) PROVE IsState(Fresh(stack)) /\ Fresh(stack).stack = stack
  BY DEF IsState, Fresh

LEMMA LoggedIs ==
    ASSUME NEW s, IsState(s), NEW i
    PROVE  IsState(Logged(s, i)) /\ Logged(s, i).stack = s.stack
  BY DEF IsState, Logged

\* A line that can be simulated takes what it needs of a stack that holds it.
LEMMA ExecutedIs ==
    ASSUME NEW s, IsState(s), NEW i, IsLine(i)
    PROVE  LET t == ExecuteLine(s, i) IN
           /\ IsState(t)
           /\ ~t.error /\ ~t.halted =>
                /\ ~s.error /\ ~s.halted
                /\ i[1] # "skiz"
                /\ Len(t.stack) = Len(s.stack) - Off(i) + On(i)
<1> DEFINE t == ExecuteLine(s, i)
<1>1. CASE s.error \/ s.halted
  BY <1>1 DEF ExecuteLine
<1>2. CASE ~s.error /\ ~s.halted /\ i[1] \in Silent
  <2>1. t = s
    BY <1>2 DEF ExecuteLine
  <2>2. Off(i) = 0 /\ On(i) = 0 /\ i[1] # "skiz"
    BY <1>2 DEF Silent, Off, On, Unary, Binary
  <2>3. Len(s.stack) \in Nat
    BY SeqIs DEF IsState
  <2> QED
    BY <1>2, <2>1, <2>2, <2>3
<1>3. CASE /\ ~s.error /\ ~s.halted /\ i[1] \notin Silent
           /\ Len(s.stack) < Reach(i) \/ Unsimulable(i, s.stack)
  <2>1. t = [s EXCEPT !.error = TRUE]
    BY <1>3 DEF ExecuteLine
  <2> HIDE DEF t
  <2>2. IsState(t) /\ t.error
    BY <2>1 DEF IsState
  <2> QED
    BY <2>2 DEF t
<1>4. CASE /\ ~s.error /\ ~s.halted /\ i[1] \notin Silent
           /\ ~(Len(s.stack) < Reach(i)) /\ ~Unsimulable(i, s.stack)
  <2>1. t = [Logged(s, i) EXCEPT !.stack = Restacked(i, @)]
    BY <1>4 DEF ExecuteLine
  <2>2. Len(s.stack) \in Nat /\ IsSeq(s.stack)
    BY SeqIs DEF IsState
  <2>3. Reach(i) <= Len(s.stack)
    <3>1. Reach(i) \in Int
      BY LineIs DEF Reach, Unary, Binary
    <3> QED
      BY <1>4, <2>2, <3>1
  <2>4. /\ IsSeq(Restacked(i, s.stack))
        /\ Len(Restacked(i, s.stack)) = Len(s.stack) - Off(i) + On(i)
    BY <2>2, <2>3, RestackedIs
  <2>5. PICK l : l = Logged(s, i)
    OBVIOUS
  <2>6. IsState(l) /\ l.stack = s.stack
    BY <2>5, LoggedIs
  <2>7. t = [l EXCEPT !.stack = Restacked(i, s.stack)]
    BY <2>1, <2>5, <2>6
  <2>8. i[1] # "skiz"
    BY <1>4 DEF Unsimulable
  <2> HIDE DEF t
  <2>9. IsState(t) /\ t.stack = Restacked(i, s.stack)
    BY <2>4, <2>6, <2>7 DEF IsState
  <2> QED
    BY <1>4, <2>4, <2>8, <2>9 DEF t
<1> QED
  BY <1>1, <1>2, <1>3, <1>4

-----------------------------------------------------------------------------
(* What the grammar knows of a token.                                      *)

LEMMA EffectIs ==
    ASSUME NEW i, IsLine(i)
    PROVE  /\ StackEffect(i)[1] \in Nat /\ StackEffect(i)[2] \in Nat
           /\ i[1] # "skiz" => StackEffect(i)[2] - StackEffect(i)[1] <= On(i) - Off(i)
           /\ MinStackDepth(i) \in Nat
           /\ StackEffect(i)[1] <= MinStackDepth(i) /\ Reach(i) <= MinStackDepth(i)
<1>1. i[2] \in Int /\ (i[1] # "push" => i[2] \in Nat)
  BY LineIs
<1>2. CASE i[1] \in {"push", "dup", "pop", "write_io", "read_io", "divine", "read_mem", "write_mem"}
  <2>1. i[1] \notin DOMAIN Exchanged
    BY <1>2 DEF Exchanged
  <2> QED
    BY <1>1, <1>2, <2>1 DEF StackEffect, MinStackDepth, Reach, On, Off, Unary, Binary
<1>3. CASE i[1] \in DOMAIN Exchanged
  BY <1>1, <1>3 DEF StackEffect, MinStackDepth, Reach, On, Off, Unary, Binary, Exchanged
<1>4. CASE i[1] \notin DOMAIN Exchanged \cup {"push", "dup", "pop", "write_io", "read_io",
                                              "divine", "read_mem", "write_mem"}
  BY <1>1, <1>4 DEF StackEffect, MinStackDepth, Reach, On, Off, Unary, Binary, Exchanged
<1> QED
  BY <1>2, <1>3, <1>4

AreLines(s) == IsSeq(s) /\ Len(s) \in Nat /\ \A k \in 1 .. Len(s) : IsLine(s[k])

LEMMA NumberedAre ==
    ASSUME NEW op, NEW first \in Int, NEW last \in Int, op = "push" \/ first \in Nat
    PROVE  AreLines(Numbered(op, first, last))
<1> DEFINE n == IF first <= last THEN last - first + 1 ELSE 0
           s == Numbered(op, first, last)
<1>1. n \in Nat /\ 1 .. last - first + 1 = 1 .. n
  OBVIOUS
<1>2. s = [k \in 1 .. n |-> <<op, first + k - 1>>]
  BY <1>1 DEF Numbered
<1>3. \A k \in 1 .. n : IsLine(<<op, first + k - 1>>)
  BY <1>1 DEF IsLine
<1> HIDE DEF n, s
<1>4. s \in Seq({s[k] : k \in 1 .. n}) /\ Len(s) = n
  <2>1. n \in Nat /\ DOMAIN s = 1 .. n /\ s = [k \in 1 .. n |-> s[k]]
    BY <1>1, <1>2
  <2> QED
    BY <2>1
<1>5. IsSeq(s)
  BY <1>4, Zenon DEF IsSeq
<1>6. AreLines(s)
  BY <1>1, <1>2, <1>3, <1>4, <1>5 DEF AreLines
<1> QED
  BY <1>6 DEF s

LEMMA PlainAre ==
    ASSUME NEW ops, IsSeq(ops)
    PROVE  AreLines(Plain(ops)) /\ Len(Plain(ops)) = Len(ops)
<1>1. Len(ops) \in Nat /\ DOMAIN ops = 1 .. Len(ops)
  BY SeqIs
<1> DEFINE s == Plain(ops)
<1>2. s = [k \in 1 .. Len(ops) |-> <<ops[k], 0>>]
  BY <1>1 DEF Plain
<1>3. \A k \in 1 .. Len(ops) : IsLine(<<ops[k], 0>>)
  BY DEF IsLine
<1> HIDE DEF s
<1>4. s \in Seq({s[k] : k \in 1 .. Len(ops)}) /\ Len(s) = Len(ops)
  BY <1>1, <1>2
<1>5. IsSeq(s)
  BY <1>4, Zenon DEF IsSeq
<1>6. AreLines(s) /\ Len(s) = Len(ops)
  BY <1>1, <1>2, <1>3, <1>4, <1>5 DEF AreLines
<1> QED
  BY <1>6 DEF s

LEMMA JoinedAre ==
    ASSUME NEW s, NEW t, AreLines(s), AreLines(t)
    PROVE  /\ AreLines(s \o t) /\ Len(s \o t) = Len(s) + Len(t)
           /\ Len(s) > 0 => (s \o t)[1] = s[1]
<1>1. PICK S, T : s \in Seq(S) /\ t \in Seq(T)
  BY DEF AreLines, IsSeq
<1>2. s \in Seq(S \cup T) /\ t \in Seq(S \cup T) /\ Len(s) \in Nat /\ Len(t) \in Nat
  BY <1>1
<1>3. /\ s \o t \in Seq(S \cup T)
      /\ Len(s \o t) = Len(s) + Len(t)
      /\ \A i \in 1 .. Len(s) + Len(t) :
            (s \o t)[i] = IF i <= Len(s) THEN s[i] ELSE t[i - Len(s)]
  BY <1>2, ConcatProperties
<1>4. IsSeq(s \o t)
  BY <1>3, Zenon DEF IsSeq
<1>5. ASSUME NEW i \in 1 .. Len(s) + Len(t) PROVE IsLine((s \o t)[i])
  <2>1. CASE i <= Len(s)
    BY <1>2, <1>3, <2>1 DEF AreLines
  <2>2. CASE ~(i <= Len(s))
    <3>1. i - Len(s) \in 1 .. Len(t)
      BY <1>2, <2>2
    <3> QED
      BY <1>3, <2>2, <3>1 DEF AreLines
  <2> QED
    BY <2>1, <2>2
<1> QED
  BY <1>2, <1>3, <1>4, <1>5 DEF AreLines

HasNoEffect(i) == StackEffect(i)[1] = 0 /\ StackEffect(i)[2] = 0 /\ Reach(i) = 0

\* The vocabulary begins with the end of a sequence.
Begins(tokens) == AreLines(tokens) /\ Len(tokens) > 0 /\ HasNoEffect(tokens[1])

LEMMA BeginsOn ==
    ASSUME NEW s, Begins(s), NEW t, AreLines(t) PROVE Begins(s \o t)
<1>1. AreLines(s) /\ Len(s) > 0 /\ HasNoEffect(s[1])
  BY Zenon DEF Begins
<1>2. AreLines(s \o t) /\ Len(s \o t) = Len(s) + Len(t) /\ (s \o t)[1] = s[1]
  BY <1>1, JoinedAre
<1>3. Len(s) + Len(t) > 0
  <2>1. Len(s) \in Nat /\ Len(t) \in Nat
    BY Zenon DEF Begins, AreLines
  <2> QED
    BY <1>1, <2>1
<1> QED
  BY <1>1, <1>2, <1>3, Zenon DEF Begins

LEMMA TokensAre == Begins(Tokens)
<1> DEFINE arithmetic == <<"add", "mul", "invert", "split", "div_mod", "pow", "log_2_floor",
                           "pop_count", "eq", "lt", "and", "xor", "or", "nop", "halt", "assert",
                           "assert_vector", "skiz", "return", "recurse", "recurse_or_return">>
           hashes == <<"hash", "sponge_init", "sponge_absorb", "sponge_squeeze",
                       "sponge_absorb_mem", "merkle_step", "merkle_step_mem", "x_invert",
                       "xb_mul", "xx_dot_step", "xb_dot_step">>
           pushes == <<<<"push", 16>>, <<"push", 32>>>>
           n(op, first, last) == Numbered(op, first, last)
           a1 == Plain(<<"">>) \o n("push", -1, 10) \o pushes
           a2 == a1 \o n("pop", 1, 5) \o n("dup", 0, 15) \o n("swap", 1, 15)
           a3 == a2 \o n("pick", 0, 15) \o n("place", 0, 15)
           a4 == a3 \o Plain(arithmetic)
           a5 == a4 \o n("read_io", 1, 5) \o n("write_io", 1, 5) \o n("divine", 1, 5)
           a6 == a5 \o n("read_mem", 1, 5) \o n("write_mem", 1, 5) \o Plain(hashes)
<1>1. Tokens = a6
  BY DEF Tokens
<1>2. IsSeq(arithmetic)
  <2>1. arithmetic \in Seq({arithmetic[k] : k \in 1 .. 21})
    OBVIOUS
  <2> QED
    BY <2>1, Zenon DEF IsSeq
<1>3. IsSeq(hashes)
  <2>1. hashes \in Seq({hashes[k] : k \in 1 .. 11})
    OBVIOUS
  <2> QED
    BY <2>1, Zenon DEF IsSeq
<1>4. AreLines(Plain(arithmetic)) /\ AreLines(Plain(hashes))
  BY <1>2, <1>3, PlainAre
<1> HIDE DEF arithmetic, hashes
<1>5. AreLines(pushes)
  <2>1. IsSeq(pushes) /\ Len(pushes) = 2 /\ pushes[1] = <<"push", 16>> /\ pushes[2] = <<"push", 32>>
    BY TwoIs
  <2>2. IsLine(<<"push", 16>>) /\ IsLine(<<"push", 32>>)
    BY DEF IsLine
  <2> HIDE DEF pushes
  <2> QED
    BY <2>1, <2>2 DEF AreLines
<1> HIDE DEF pushes
<1>6. \A op : \A last \in Int : AreLines(n(op, 0, last)) /\ AreLines(n(op, 1, last))
  <2>1. 0 \in Int /\ 0 \in Nat /\ 1 \in Int /\ 1 \in Nat
    OBVIOUS
  <2> QED
    BY <2>1, NumberedAre, Zenon
<1>7. AreLines(n("push", -1, 10))
  <2>1. -1 \in Int /\ 10 \in Int
    OBVIOUS
  <2> QED
    BY <2>1, NumberedAre, Zenon
<1>8. 5 \in Int /\ 15 \in Int
  OBVIOUS
<1> HIDE DEF n
<1>9. Begins(Plain(<<"">>))
  <2>1. AreLines(Plain(<<"">>)) /\ Len(Plain(<<"">>)) = 1
    BY OneIs, PlainAre
  <2>2. DOMAIN <<"">> = 1 .. 1 /\ 1 \in 1 .. 1 /\ <<"">>[1] = ""
    OBVIOUS
  <2>3. HasNoEffect(Plain(<<"">>)[1])
    <3>1. Plain(<<"">>)[1][1] = ""
      BY <2>2 DEF Plain
    <3>2. PICK i : i = Plain(<<"">>)[1] /\ i[1] = ""
      BY <3>1
    <3>3. HasNoEffect(i)
      BY <3>2 DEF HasNoEffect, StackEffect, Reach, Unary, Binary, Exchanged
    <3> QED
      BY <3>2, <3>3
  <2>4. 1 > 0
    OBVIOUS
  <2> QED
    BY <2>1, <2>3, <2>4, Zenon DEF Begins
<1>10. Begins(a1)
  BY <1>5, <1>7, <1>9, BeginsOn
<1> HIDE DEF a1
<1>11. Begins(a2)
  BY <1>6, <1>8, <1>10, BeginsOn
<1> HIDE DEF a2
<1>12. Begins(a3)
  BY <1>6, <1>8, <1>11, BeginsOn
<1> HIDE DEF a3
<1>13. Begins(a4)
  BY <1>4, <1>12, BeginsOn
<1> HIDE DEF a4
<1>14. Begins(a5)
  BY <1>6, <1>8, <1>13, BeginsOn
<1> HIDE DEF a5
<1>15. Begins(a6)
  BY <1>4, <1>6, <1>8, <1>14, BeginsOn
<1> QED
  BY <1>1, <1>15

-----------------------------------------------------------------------------
(* The stack as the grammar has it.                                        *)

IsGrammar(g) ==
    /\ g.depth \in Nat /\ IsSeq(g.types)
    /\ Len(g.types) <= g.depth

LEMMA NewGrammarIs == ASSUME NEW depth \in Nat PROVE IsGrammar(NewGrammar(depth)) /\ NewGrammar(depth).depth = depth
<1> DEFINE types == [k \in 1 .. depth |-> "Unknown"]
<1>1. types \in Seq({"Unknown"}) /\ Len(types) = depth
  OBVIOUS
<1>2. IsSeq(types)
  BY <1>1, Zenon DEF IsSeq
<1>3. NewGrammar(depth) = [depth |-> depth, types |-> types]
  BY DEF NewGrammar
<1> HIDE DEF types
<1> QED
  BY <1>1, <1>2, <1>3 DEF IsGrammar

\* The types that are known change, not their number.
LEMMA TypedIs ==
    ASSUME NEW types, IsSeq(types), NEW i
    PROVE  IsSeq(Typed(types, i)) /\ Len(Typed(types, i)) = Len(types)
<1> DEFINE len == Len(types)
           top(n, type) == [k \in 1 .. len |-> IF k > len - n THEN type ELSE types[k]]
           swap == [types EXCEPT ![len] = types[len - 1 - i[2]]]
<1>1. len \in Nat /\ DOMAIN types = 1 .. len
  BY SeqIs
<1>2. ASSUME NEW n, NEW type PROVE IsSeq(top(n, type)) /\ Len(top(n, type)) = len
  <2> DEFINE t == top(n, type)
  <2>1. DOMAIN t = 1 .. len /\ t = [k \in 1 .. len |-> t[k]]
    OBVIOUS
  <2> HIDE DEF t, len
  <2>2. t \in Seq({t[k] : k \in 1 .. len}) /\ Len(t) = len
    BY <1>1, <2>1
  <2>3. IsSeq(t) /\ Len(t) = len
    BY <2>2, Zenon DEF IsSeq
  <2> QED
    BY <2>3 DEF t
<1>3. IsSeq(swap) /\ Len(swap) = len
  <2>1. DOMAIN swap = 1 .. len /\ swap = [k \in 1 .. len |-> swap[k]]
    BY <1>1
  <2> HIDE DEF swap, len
  <2>2. swap \in Seq({swap[k] : k \in 1 .. len}) /\ Len(swap) = len
    BY <1>1, <2>1
  <2> QED
    BY <2>2, Zenon DEF IsSeq
<1>4. Typed(types, i) \in {types, swap, top(1, "BFE"), top(3, "XFE")}
  BY DEF Typed
<1> HIDE DEF top, swap
<1> QED
  BY <1>2, <1>3, <1>4

\* The depth after a token that is admitted.
LEMMA TokenIs ==
    ASSUME NEW g, NEW token \in ValidMask(g)
    PROVE  /\ token \in Nat /\ token < VocabSize /\ IsLine(Tokens[token + 1])
           /\ Effects[token] = StackEffect(Tokens[token + 1])
           /\ MinDepths[token] = MinStackDepth(Tokens[token + 1])
           /\ token = 0 => HasNoEffect(Tokens[token + 1])
           /\ token # 0 => g.depth >= MinDepths[token]
<1>1. VocabSize \in Nat /\ HasNoEffect(Tokens[1]) /\ \A k \in 1 .. VocabSize : IsLine(Tokens[k])
  BY TokensAre DEF Begins, AreLines, VocabSize
<1>2. DOMAIN MinDepths = 0 .. VocabSize - 1
  BY DEF MinDepths
<1>3. token \in 0 .. VocabSize - 1 /\ (token # 0 => g.depth >= MinDepths[token])
  BY <1>2 DEF ValidMask
<1>4. token \in Nat /\ token < VocabSize /\ token + 1 \in 1 .. VocabSize
  BY <1>1, <1>3
<1>5. IsLine(Tokens[token + 1])
  BY <1>1, <1>4
<1>6. /\ Effects[token] = StackEffect(Tokens[token + 1])
      /\ MinDepths[token] = MinStackDepth(Tokens[token + 1])
  BY <1>3 DEF Effects, MinDepths
<1>7. ASSUME token = 0 PROVE HasNoEffect(Tokens[token + 1])
  <2>1. token + 1 = 1
    BY <1>7
  <2> QED
    BY <1>1, <2>1
<1> QED
  BY <1>3, <1>4, <1>5, <1>6, <1>7

\* The depth after a token that is admitted.
LEMMA GrammarStepIs ==
    ASSUME NEW g, IsGrammar(g), NEW token \in ValidMask(g)
    PROVE  /\ IsLine(Tokens[token + 1]) /\ IsGrammar(GrammarStep(g, token))
           /\ Reach(Tokens[token + 1]) <= g.depth
           /\ GrammarStep(g, token).depth =
                g.depth + StackEffect(Tokens[token + 1])[2] - StackEffect(Tokens[token + 1])[1]
<1>1. PICK i, e, h : i = Tokens[token + 1] /\ e = StackEffect(i) /\ h = GrammarStep(g, token)
  OBVIOUS
<1> SUFFICES /\ IsLine(i) /\ IsGrammar(h) /\ Reach(i) <= g.depth
             /\ h.depth = g.depth + e[2] - e[1]
  BY <1>1
<1>2. /\ token \in Nat /\ token < VocabSize /\ IsLine(i)
      /\ Effects[token] = e /\ MinDepths[token] = MinStackDepth(i)
      /\ (token = 0 => HasNoEffect(i)) /\ (token # 0 => g.depth >= MinDepths[token])
  BY <1>1, TokenIs
<1>3. g.depth \in Nat /\ Len(g.types) \in Nat /\ Len(g.types) <= g.depth
  BY SeqIs DEF IsGrammar
<1>4. CASE token = 0
  <2>1. HasNoEffect(i)
    BY <1>2, <1>4
  <2>2. e[1] = 0 /\ e[2] = 0 /\ Reach(i) = 0
    BY <1>1, <2>1 DEF HasNoEffect
  <2>3. h = g
    BY <1>1, <1>4 DEF GrammarStep
  <2> QED
    BY <1>2, <1>3, <2>2, <2>3
<1>5. CASE token # 0
  <2>1. e[1] \in Nat /\ e[2] \in Nat /\ e[1] <= g.depth
    <3>1. /\ e[1] \in Nat /\ e[2] \in Nat /\ MinStackDepth(i) \in Nat
          /\ e[1] <= MinStackDepth(i)
      BY <1>1, <1>2, EffectIs
    <3> QED
      BY <1>2, <1>3, <1>5, <3>1
  <2>2. Reach(i) <= g.depth
    <3>1. Reach(i) \in Int /\ MinStackDepth(i) \in Nat /\ Reach(i) <= MinStackDepth(i)
      BY <1>2, EffectIs, LineIs DEF Reach, Unary, Binary
    <3> QED
      BY <1>2, <1>3, <1>5, <3>1
  <2> DEFINE kept == SubSeq(g.types, 1, Len(g.types) - e[1])
             fresh == [k \in 1 .. e[2] |-> "Unknown"]
             pushed == kept \o fresh
             typed == Typed(pushed, i)
             last == IF Len(typed) < MaxTrackedDepth THEN Len(typed) ELSE MaxTrackedDepth
  <2>3. PICK net : net = g.depth + e[2] - e[1]
    OBVIOUS
  <2>4. net \in Nat
    BY <1>3, <2>1, <2>3
  <2>5. h = [depth |-> IF net < 0 THEN 0 ELSE net, types |-> SubSeq(typed, 1, last)]
    <3>1. ~(token = 0 \/ token >= VocabSize)
      <4>1. VocabSize \in Nat
        BY TokensAre DEF Begins, AreLines, VocabSize
      <4> QED
        BY <1>2, <1>5, <4>1
    <3> QED
      BY <1>1, <1>2, <2>3, <3>1 DEF GrammarStep
  <2>6. IsSeq(kept) /\ Len(kept) = IF e[1] < Len(g.types) THEN Len(g.types) - e[1] ELSE 0
    BY <1>3, <2>1, PartIs
  <2>7. IsSeq(fresh) /\ Len(fresh) = e[2]
    <3>1. fresh \in Seq({"Unknown"}) /\ Len(fresh) = e[2]
      BY <2>1
    <3> QED
      BY <3>1, Zenon DEF IsSeq
  <2> HIDE DEF kept, fresh
  <2>8. IsSeq(pushed) /\ Len(pushed) = Len(kept) + e[2]
    BY <2>6, <2>7, JoinIs
  <2> HIDE DEF pushed
  <2>9. IsSeq(typed) /\ Len(typed) = Len(pushed)
    BY <2>8, TypedIs
  <2> HIDE DEF typed
  <2>10. Len(typed) \in Nat /\ Len(typed) <= net
    BY <1>3, <2>1, <2>3, <2>6, <2>8, <2>9
  <2>11. last \in Nat /\ last <= Len(typed)
    BY <2>10 DEF MaxTrackedDepth
  <2> HIDE DEF last
  <2>12. IsSeq(SubSeq(typed, 1, last)) /\ Len(SubSeq(typed, 1, last)) = last
    BY <2>11, PartIs
  <2>13. h.depth = net /\ h.types = SubSeq(typed, 1, last)
    <3>1. (IF net < 0 THEN 0 ELSE net) = net
      BY <2>4
    <3>2. h = [depth |-> net, types |-> SubSeq(typed, 1, last)]
      BY <2>5, <3>1, Zenon
    <3> QED
      BY <3>2
  <2>14. IsGrammar(h)
    BY <2>4, <2>10, <2>11, <2>12, <2>13 DEF IsGrammar
  <2> QED
    BY <1>2, <2>2, <2>3, <2>13, <2>14
<1> QED
  BY <1>4, <1>5

-----------------------------------------------------------------------------
(* The mask.                                                               *)

\* As long as the stack is known the grammar has no more words than it.
StackInv ==
    /\ task \in DOMAIN Tasks
    /\ IsGrammar(grammar) /\ IsState(state)
    /\ ~state.error /\ ~state.halted => grammar.depth <= Len(state.stack)

LEMMA StackInit == Init => StackInv
<1> SUFFICES ASSUME Init PROVE StackInv
  OBVIOUS
<1>1. PICK depth : depth = Tasks[task].depth /\ depth \in Nat
  BY NeuralBlocksAssumption DEF Init
<1> DEFINE stack == [k \in 1 .. depth |-> 1]
<1>2. stack \in Seq({1}) /\ Len(stack) = depth
  BY <1>1
<1>3. IsSeq(stack)
  BY <1>2, Zenon DEF IsSeq
<1>4. state = Fresh(stack) /\ grammar = NewGrammar(depth) /\ task \in DOMAIN Tasks
  BY <1>1 DEF Init
<1> HIDE DEF stack
<1>5. IsState(state) /\ state.stack = stack
  BY <1>3, <1>4, FreshIs
<1>6. IsGrammar(grammar) /\ grammar.depth = depth
  BY <1>1, <1>4, NewGrammarIs
<1> QED
  BY <1>1, <1>2, <1>4, <1>5, <1>6 DEF StackInv

LEMMA StaysBelow ==
    ASSUME NEW depth \in Nat, NEW len \in Nat, depth <= len,
           NEW takes \in Nat, NEW gives \in Nat, NEW off \in Int, NEW on \in Int,
           gives - takes <= on - off
    PROVE  depth + gives - takes <= len - off + on
  OBVIOUS

LEMMA StackStep ==
    ASSUME StackInv, [Next]_vars PROVE StackInv'
<1>1. CASE UNCHANGED <<task, grammar, state>>
  BY <1>1 DEF StackInv
<1>2. ASSUME NEW token, SayToken(token), UNCHANGED task PROVE StackInv'
  <2>1. PICK i, e : i = Tokens[token + 1] /\ e = StackEffect(i)
    OBVIOUS
  <2>2. /\ IsLine(i) /\ IsGrammar(grammar')
        /\ grammar'.depth = grammar.depth + e[2] - e[1]
    BY <1>2, <2>1, GrammarStepIs DEF SayToken, StackInv
  <2>3. PICK t : t = ExecuteLine(state, i)
    OBVIOUS
  <2>4. state' = t
    BY <1>2, <2>1, <2>3 DEF SayToken
  <2>5. /\ IsState(t)
        /\ ~t.error /\ ~t.halted =>
             /\ ~state.error /\ ~state.halted /\ i[1] # "skiz"
             /\ Len(t.stack) = Len(state.stack) - Off(i) + On(i)
    BY <2>2, <2>3, ExecutedIs DEF StackInv
  <2>6. ASSUME ~t.error, ~t.halted PROVE grammar'.depth <= Len(t.stack)
    <3>1. grammar.depth <= Len(state.stack) /\ Len(t.stack) = Len(state.stack) - Off(i) + On(i)
      BY <2>5, <2>6 DEF StackInv
    <3>2. e[1] \in Nat /\ e[2] \in Nat /\ e[2] - e[1] <= On(i) - Off(i)
      BY <2>1, <2>2, <2>5, <2>6, EffectIs
    <3>3. Len(state.stack) \in Nat /\ grammar.depth \in Nat
      BY SeqIs DEF StackInv, IsState, IsGrammar
    <3>4. Off(i) \in Int /\ On(i) \in Int
      BY <2>2, LineIs DEF Off, On, Unary, Binary
    <3>5. grammar.depth + e[2] - e[1] <= Len(state.stack) - Off(i) + On(i)
      BY <3>1, <3>2, <3>3, <3>4, StaysBelow
    <3> QED
      BY <2>2, <3>1, <3>5
  <2> QED
    BY <1>2, <2>2, <2>4, <2>5, <2>6 DEF StackInv
<1>3. ASSUME NEW token, Say(token) PROVE StackInv'
  BY <1>1, <1>2, <1>3 DEF Say
<1>4. CASE Judge
  BY <1>1, <1>4 DEF Judge
<1>5. ASSUME NEW i, Walk(i) \/ Substitute(i) PROVE StackInv'
  BY <1>1, <1>5 DEF Walk, Substitute
<1> QED
  BY <1>1, <1>3, <1>4, <1>5 DEF Next, vars

LEMMA StackImpliesMask == StackInv => MaskIsSound
<1> SUFFICES ASSUME StackInv, ~state.error, ~state.halted
             PROVE  /\ Len(grammar.types) <= grammar.depth
                    /\ grammar.depth <= Len(state.stack)
                    /\ \A token \in ValidMask(grammar) : Len(state.stack) >= Reaches[token]
  BY DEF MaskIsSound
<1>1. /\ Len(grammar.types) <= grammar.depth
      /\ grammar.depth <= Len(state.stack)
  BY DEF StackInv, IsGrammar
<1>2. Len(state.stack) \in Nat /\ grammar.depth \in Nat
  BY SeqIs DEF StackInv, IsState, IsGrammar
<1>3. ASSUME NEW token \in ValidMask(grammar) PROVE Len(state.stack) >= Reaches[token]
  <2>1. PICK i : i = Tokens[token + 1]
    OBVIOUS
  <2>2. IsLine(i) /\ Reach(i) <= grammar.depth
    BY <2>1, GrammarStepIs DEF StackInv
  <2>3. Reaches[token] = Reach(i)
    BY <2>1 DEF Reaches, ValidMask
  <2>4. Reach(i) \in Int
    BY <2>2, LineIs DEF Reach, Unary, Binary
  <2> QED
    BY <1>1, <1>2, <2>2, <2>3, <2>4
<1> QED
  BY <1>1, <1>3

\* A token that the grammar admits finds every word that it reaches for, after
\* any tokens on a stack of any depth, and the types that the grammar follows
\* are of words that are there.
THEOREM MaskIsRight == Spec => []MaskIsSound
  BY StackInit, StackStep, StackImpliesMask, PTL DEF Spec

-----------------------------------------------------------------------------
(* Simulating a block, line by line.                                       *)

\* f has the states after the first m lines.
States(f, m, stack, lns) ==
    f = [k \in 0 .. m |-> IF k = 0 THEN Fresh(stack) ELSE ExecuteLine(f[k - 1], lns[k])]

LEMMA StatesExist ==
    ASSUME NEW stack, NEW lns, NEW n \in Nat PROVE \E f : States(f, n, stack, lns)
<1> DEFINE T == {m \in Nat : ~ \E f : States(f, m, stack, lns)}
<1> SUFFICES ASSUME T # {} PROVE FALSE
  OBVIOUS
<1>1. PICK m \in T : \A k \in T : m <= k
  BY Least
<1>2. m \in Nat /\ ~ \E f : States(f, m, stack, lns)
  OBVIOUS
<1>3. CASE m = 0
  <2> DEFINE f == [k \in 0 .. 0 |-> Fresh(stack)]
  <2>1. States(f, 0, stack, lns)
    BY DEF States
  <2> QED
    BY <1>2, <1>3, <2>1
<1>4. CASE m # 0
  <2>1. m - 1 \in Nat /\ ~(m <= m - 1)
    BY <1>2, <1>4
  <2>2. PICK g : States(g, m - 1, stack, lns)
    BY <1>1, <2>1
  <2> DEFINE f == [k \in 0 .. m |-> IF k = m THEN ExecuteLine(g[m - 1], lns[m]) ELSE g[k]]
  <2>3. ASSUME NEW k \in 0 .. m
        PROVE  f[k] = IF k = 0 THEN Fresh(stack) ELSE ExecuteLine(f[k - 1], lns[k])
    <3>1. CASE k = m
      <4>1. m - 1 \in 0 .. m /\ m - 1 # m
        BY <1>2, <1>4
      <4> QED
        BY <1>4, <3>1, <4>1
    <3>2. CASE k # m
      <4>1. k \in 0 .. m - 1 /\ (k # 0 => k - 1 \in 0 .. m /\ k - 1 # m)
        BY <1>2, <3>2
      <4>2. g[k] = IF k = 0 THEN Fresh(stack) ELSE ExecuteLine(g[k - 1], lns[k])
        BY <2>2, <4>1 DEF States
      <4> QED
        BY <3>2, <4>1, <4>2
    <3> QED
      BY <3>1, <3>2
  <2>4. f = [k \in 0 .. m |-> f[k]]
    OBVIOUS
  <2> HIDE DEF f
  <2>5. States(f, m, stack, lns)
    BY <2>3, <2>4 DEF States
  <2> QED
    BY <1>2, <2>5
<1> QED
  BY <1>3, <1>4

LEMMA StatesAre ==
    ASSUME NEW stack, IsSeq(stack), NEW n \in Nat, NEW lns, \A k \in 1 .. n : IsLine(lns[k]),
           NEW f, States(f, n, stack, lns)
    PROVE  IsState(f[n])
<1> DEFINE T == {m \in Nat : m <= n /\ ~IsState(f[m])}
<1> SUFFICES ASSUME T # {} PROVE FALSE
  OBVIOUS
<1>1. PICK m \in T : \A k \in T : m <= k
  BY Least
<1>2. m \in 0 .. n /\ m \in Nat /\ ~IsState(f[m])
  OBVIOUS
<1>3. f[m] = IF m = 0 THEN Fresh(stack) ELSE ExecuteLine(f[m - 1], lns[m])
  BY <1>2 DEF States
<1>4. CASE m = 0
  BY <1>2, <1>3, <1>4, FreshIs
<1>5. CASE m # 0
  <2>1. m - 1 \in Nat /\ m - 1 <= n /\ ~(m <= m - 1) /\ m \in 1 .. n
    BY <1>2, <1>5
  <2>2. IsState(f[m - 1])
    BY <1>1, <2>1
  <2>3. IsState(ExecuteLine(f[m - 1], lns[m]))
    BY <2>1, <2>2, ExecutedIs
  <2> QED
    BY <1>2, <1>3, <1>5, <2>3
<1> QED
  BY <1>4, <1>5

LEMMA SimulatedIs ==
    ASSUME NEW stack, IsSeq(stack), NEW lns, Len(lns) \in Nat,
           \A k \in 1 .. Len(lns) : IsLine(lns[k])
    PROVE  IsState(Simulate(stack, lns))
<1>1. \E f : States(f, Len(lns), stack, lns)
  BY StatesExist
<1> DEFINE f == CHOOSE f : States(f, Len(lns), stack, lns)
<1>2. States(f, Len(lns), stack, lns)
  BY <1>1, Zenon
<1>3. Simulate(stack, lns) = f[Len(lns)]
  BY DEF Simulate, States
<1> HIDE DEF f
<1> QED
  BY <1>2, <1>3, StatesAre

-----------------------------------------------------------------------------
(* One verdict.                                                            *)

\* The stack on which blocks are scored is one of those they are verified on.
LEMMA FirstStackIs ==
    ASSUME NEW seed \in Seeds
    PROVE  /\ IsSeq(FirstStack[seed])
           /\ 1 \in DOMAIN TestStacks[seed]
           /\ TestStacks[seed][1] = FirstStack[seed]
<1> DEFINE random == RandomStacks(seed)
<1>1. FirstStack[seed] = RandomStack(seed, 0) /\ TestStacks[seed] = random \o StructuredStacks
  BY DEF FirstStack, TestStacks
<1>2. IsSeq(RandomStack(seed, 0))
  <2> DEFINE s == RandomStack(seed, 0)
  <2>1. DOMAIN s = 1 .. 16 /\ s = [k \in 1 .. 16 |-> s[k]]
    BY DEF RandomStack, GenerateTestStack
  <2> HIDE DEF s
  <2>2. s \in Seq({s[k] : k \in 1 .. 16})
    BY <2>1
  <2>3. IsSeq(s)
    BY <2>2, Zenon DEF IsSeq
  <2> QED
    BY <2>3 DEF s
<1>3. random = [k \in 1 .. 32 |-> random[k]] /\ random[1] = RandomStack(seed, 0)
  <2>1. 1 \in 1 .. 32 /\ 1 - 1 = 0
    OBVIOUS
  <2>2. random = [k \in 1 .. 32 |-> RandomStack(seed, k - 1)]
    BY DEF RandomStacks
  <2> HIDE DEF random
  <2> QED
    BY <2>1, <2>2
<1>4. StructuredStacks = [k \in 1 .. 9 |-> StructuredStacks[k]]
  BY DEF StructuredStacks
<1> HIDE DEF random
<1>5. PICK s, t : s = random /\ t = StructuredStacks
  OBVIOUS
<1>6. s \in Seq({s[k] : k \in 1 .. 32}) /\ t \in Seq({t[k] : k \in 1 .. 9}) /\ Len(s) = 32 /\ Len(t) = 9
  BY <1>3, <1>4, <1>5
<1>7. PICK S, T : s \in Seq(S) /\ t \in Seq(T)
  BY <1>6
<1>8. s \in Seq(S \cup T) /\ t \in Seq(S \cup T)
  BY <1>7
<1>9. PICK u : u = s \o t
  OBVIOUS
<1>10. /\ u \in Seq(S \cup T) /\ Len(u) = Len(s) + Len(t)
       /\ \A i \in 1 .. Len(s) + Len(t) : u[i] = IF i <= Len(s) THEN s[i] ELSE t[i - Len(s)]
  BY <1>8, <1>9, ConcatProperties
<1>11. Len(s) = 32 /\ Len(t) = 9
  BY <1>6
<1>12. Len(u) = 41 /\ DOMAIN u = 1 .. Len(u) /\ u[1] = s[1]
  BY <1>10, <1>11
<1>13. 1 \in DOMAIN u
  BY <1>12
<1> QED
  BY <1>1, <1>2, <1>3, <1>5, <1>9, <1>12, <1>13

LEMMA EmptyIs == ASSUME NEW s, IsSeq(s), Len(s) = 0 PROVE s = <<>>
  BY DEF IsSeq

\* What is the same passes the diagnosis and has the full score, unless no
\* word is left of it.
LEMMA SameIsFull ==
    ASSUME NEW block, NEW candidate, NEW seed, NEW b, IsState(b), ~b.error,
           Simulate(FirstStack[seed], block) = b, Simulate(FirstStack[seed], candidate) = b
    PROVE  /\ DiagnoseFailure(block, candidate, seed) = "passes"
           /\ ScoreCandidate(block, candidate, seed) = 900 \/ Len(b.stack) = 0
<1>1. DiagnoseFailure(block, candidate, seed) = "passes"
  <2>1. SelectInSeq(Logs, LAMBDA log : b[log] # b[log]) = 0
    BY DEF SelectInSeq
  <2> QED
    BY <2>1 DEF DiagnoseFailure
<1>2. PICK s : s = b.stack
  OBVIOUS
<1>3. Len(s) \in Nat /\ DOMAIN s = 1 .. Len(s) /\ IsSeq(s)
  BY <1>2, SeqIs DEF IsState
<1>4. CASE Len(s) = 0
  BY <1>1, <1>2, <1>4
<1>5. CASE Len(s) # 0
  <2>1. {k \in DOMAIN s : s[k] = s[k]} = 1 .. Len(s)
    BY <1>3
  <2>2. Cardinality(1 .. Len(s)) = Len(s)
    BY <1>3, <1>5, FS_Interval
  <2>3. Max({Len(s), 1}) = Len(s)
    <3>1. \E x \in {Len(s), 1} : \A y \in {Len(s), 1} : x >= y
      BY <1>3, <1>5
    <3>2. Max({Len(s), 1}) \in {Len(s), 1} /\ \A y \in {Len(s), 1} : Max({Len(s), 1}) >= y
      BY <3>1 DEF Max
    <3> QED
      BY <1>3, <1>5, <3>2
  <2>4. ScoreCandidate(block, candidate, seed) = 900
    <3>1. ScoreCandidate(block, candidate, seed) =
             LET matches == Cardinality({k \in DOMAIN b.stack : b.stack[k] = b.stack[k]})
                 total == Max({Len(b.stack), 1})
             IN IF b.error \/ b.error THEN 0
                ELSE IF Len(b.stack) # Len(b.stack) THEN 100
                ELSE IF matches = total THEN IF b = b THEN 900 ELSE 800
                ELSE IF 10 * matches >= 9 * total THEN 600
                ELSE IF 2 * matches >= total THEN 400
                ELSE 200
      BY DEF ScoreCandidate
    <3>2. Cardinality({k \in DOMAIN b.stack : b.stack[k] = b.stack[k]}) = Max({Len(b.stack), 1})
      BY <1>2, <2>1, <2>2, <2>3, Zenon
    <3> QED
      BY <3>1, <3>2, Zenon
  <2> QED
    BY <1>1, <2>4
<1> QED
  BY <1>4, <1>5

AgreeInv == task \in DOMAIN Tasks /\ JudgesAgree

LEMMA JudgeAgrees == ASSUME AgreeInv, Judge PROVE AgreeInv'
<1>1. Kind' = Kind /\ Block' = Block /\ Seed' = Seed /\ task' = task
  BY DEF Judge, Kind, Block, Seed
<1> SUFFICES ASSUME Kind = "v1", verdict' = "accepted"
             PROVE  /\ outcome'.because = "passes"
                    /\ outcome'.score = 900 \/ Simulate(FirstStack[Seed], Block).stack = <<>>
  BY <1>1 DEF AgreeInv, JudgesAgree
<1>2. PICK candidate, gain :
         /\ verdict' = Judged(candidate)
         /\ outcome' = [gain |-> gain, score |-> ScoreCandidate(Block, candidate, Seed),
                        because |-> DiagnoseFailure(Block, candidate, Seed)]
  BY Zenon DEF Judge
<1>3. VerifyEquivalent(Block, candidate, Seed)
  BY <1>2 DEF Judged
<1>4. /\ Seed \in Seeds /\ Len(Block) \in Nat
      /\ \A k \in 1 .. Len(Block) : IsLine(Block[k])
  BY NeuralBlocksAssumption DEF AgreeInv, Seed, Block
<1>5. PICK b : b = Simulate(FirstStack[Seed], Block)
  OBVIOUS
<1>6. IsState(b)
  BY <1>4, <1>5, FirstStackIs, SimulatedIs
<1>7. ~b.error /\ Simulate(FirstStack[Seed], candidate) = b
  <2>1. Agree(Block, candidate, FirstStack[Seed])
    BY <1>3, <1>4, FirstStackIs DEF VerifyEquivalent
  <2> QED
    BY <1>5, <2>1 DEF Agree
<1>8. PICK block, seed : block = Block /\ seed = Seed
  OBVIOUS
<1>9. /\ DiagnoseFailure(block, candidate, seed) = "passes"
      /\ ScoreCandidate(block, candidate, seed) = 900 \/ Len(b.stack) = 0
  <2>1. ~b.error /\ Simulate(FirstStack[seed], block) = b
        /\ Simulate(FirstStack[seed], candidate) = b
    BY <1>5, <1>7, <1>8
  <2> QED
    BY <1>6, <2>1, SameIsFull
<1>10. Len(b.stack) = 0 => b.stack = <<>>
  BY <1>6, EmptyIs DEF IsState
<1> QED
  BY <1>2, <1>5, <1>8, <1>9, <1>10

LEMMA AgreeInit == Init => AgreeInv
  BY DEF Init, AgreeInv, JudgesAgree, Kind

LEMMA AgreeStep == ASSUME AgreeInv, [Next]_vars PROVE AgreeInv'
<1>1. CASE UNCHANGED <<task, verdict, outcome>>
  BY <1>1 DEF AgreeInv, JudgesAgree, Kind, Block, Seed
<1>2. ASSUME NEW token, Say(token) PROVE AgreeInv'
  BY <1>1, <1>2 DEF Say
<1>3. CASE Judge
  BY <1>3, JudgeAgrees
<1>4. ASSUME NEW i, Walk(i) \/ Substitute(i) PROVE AgreeInv'
  BY <1>4 DEF Walk, Substitute, AgreeInv, JudgesAgree, Kind
<1> QED
  BY <1>1, <1>2, <1>3, <1>4 DEF Next, vars

\* What the verifier accepts, the diagnosis finds no fault with and the shaped
\* score prices as it should, but for a block that leaves an empty stack.
THEOREM JudgesSayOne == Spec => []JudgesAgree
<1>1. AgreeInv => JudgesAgree
  BY DEF AgreeInv
<1> QED
  BY <1>1, AgreeInit, AgreeStep, PTL DEF Spec

=============================================================================
