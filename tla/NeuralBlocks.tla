----------------------------- MODULE NeuralBlocks -----------------------------
(***************************************************************************)
(* The way of a block through the neural compiler: a model, whose choices  *)
(* are arbitrary, says token after token what the grammar admits; what it  *)
(* said is decoded, verified against the block and priced, and the report  *)
(* tells which of the two won (rs/neural/target.rs, rs/cost/stack_verifier *)
(* /scoring.rs, rs/lower/mod.rs).  Training data is made of a block and of *)
(* variants of it that pass the same verifier (rs/neural/augment_target.rs)*)
(***************************************************************************)
EXTENDS BlockVerifier, NeuralVocabulary

CONSTANTS
  Tasks,    (* a sequence of [kind, block, depth, tokens, longest, seed]:
               kind is "v1" or "v2" of a model or "walk" of augmentation;
               depth is that of the stack a block of v2 begins with        *)
  Samples,  (* the words that are tried on top of the stack                *)
  Sampled   (* how many words are tried                                    *)

ASSUME NeuralBlocksAssumption ==
    \A n \in DOMAIN Tasks :
        /\ Tasks[n].kind \in {"v1", "v2", "walk"} /\ Tasks[n].seed \in Seeds
        /\ Tasks[n].depth \in Nat
        /\ Len(Tasks[n].block) \in Nat
        /\ \A k \in 1 .. Len(Tasks[n].block) : IsLine(Tasks[n].block[k])

VARIABLES
  task,
  said,     (* tokens or codes, in order                                   *)
  grammar,  (* the grammar's view of the stack                             *)
  state,    (* the stack itself, as the verifier would have it             *)
  lines,    (* the candidate                                               *)
  verdict,  (* "open", "accepted", "rejected" or "none"                    *)
  outcome   (* of the report or the score, <<>> until there is one         *)

vars == <<task, said, grammar, state, lines, verdict, outcome>>

Block == Tasks[task].block
Seed == Tasks[task].seed
Kind == Tasks[task].kind

-----------------------------------------------------------------------------
(* The model speaks.                                                       *)

\* beam_search admits no token the mask forbids.
SayToken(token) ==
    /\ token \in ValidMask(grammar)
    /\ grammar' = GrammarStep(grammar, token)
    /\ state' = ExecuteLine(state, Tokens[token + 1])

\* The first version has no grammar.
Say(token) ==
    /\ Kind \in {"v1", "v2"} /\ verdict = "open"
    /\ Len(said) < Tasks[task].longest
    /\ said' = Append(said, token)
    /\ IF Kind = "v2" THEN SayToken(token) ELSE UNCHANGED <<grammar, state>>
    /\ UNCHANGED <<task, lines, verdict, outcome>>

-----------------------------------------------------------------------------
(* What it said is judged.                                                 *)

\* validate_and_rank, of one candidate: nothing to say or nothing to compare
\* it with is no result.
Judged(candidate) ==
    IF candidate = <<>> \/ Block = <<>> THEN "none"
    ELSE IF VerifyEquivalent(Block, candidate, Seed) THEN "accepted" ELSE "rejected"

\* The dummy baseline of inject_neural_candidate.
Dummy == ProfileTasm(<<<<"push", 0>>>>)

\* The decision that is reported about a candidate, which is empty if none
\* was accepted.
InjectNeuralCandidate(candidate, baselineCost) ==
    LET cost == Cost(candidate)
        wins == candidate # <<>> /\ cost < baselineCost
    IN [winner |-> IF wins THEN "neural" ELSE "classical",
        winner_cost |-> IF wins THEN cost ELSE baselineCost,
        loser_cost |-> baselineCost,
        reason |-> IF candidate = <<>> THEN "no candidate"
                   ELSE IF ~wins THEN "neural worse"
                   ELSE IF IsCliffJump(ProfileTasm(candidate), Dummy) THEN "cliff jump"
                   ELSE "stack scheduling"]

\* Variant of ScoreNeuralOutput: the candidate's cost, verified or not.
ScoreUnverified(codes, baselineCost, judged) == Min({Cost(DecodeOutput(codes)), baselineCost})

\* The cost of what the codes say if that is right, and no more than the block's.
ScoreNeuralOutput(codes, baselineCost, judged) ==
    IF judged = "accepted" THEN Min({Cost(DecodeOutput(codes)), baselineCost})
    ELSE baselineCost

\* A saturating difference.
ScoreNeuralImprovement(codes, baselineCost, judged) ==
    LET cost == ScoreNeuralOutput(codes, baselineCost, judged)
    IN IF cost > baselineCost THEN 0 ELSE baselineCost - cost

Judge ==
    /\ Kind \in {"v1", "v2"} /\ verdict = "open" /\ Block # <<>>
    /\ LET candidate == IF Kind = "v1" THEN DecodeOutput(said) ELSE DecodeSequence(said)
           judged == Judged(candidate)
           cost == Cost(Block)
       IN /\ lines' = candidate
          /\ verdict' = judged
          /\ outcome' =
               IF Kind = "v1"
               THEN [gain |-> ScoreNeuralImprovement(said, cost, judged),
                     score |-> ScoreCandidate(Block, candidate, Seed),
                     because |-> DiagnoseFailure(Block, candidate, Seed)]
               ELSE InjectNeuralCandidate(IF judged = "accepted" THEN candidate ELSE <<>>, cost)
    /\ UNCHANGED <<task, said, grammar, state>>

-----------------------------------------------------------------------------
(* Augmentation.                                                           *)

OnlyPush == {"push", "divine", "read_io"}

InstructionsAreIndependent(a, b) ==
    \/ a[1] \in OnlyPush /\ b[1] \in OnlyPush
    \/ "nop" \in {a[1], b[1]}

Verified(candidate) == \A seed \in Seeds : VerifyEquivalent(Block, candidate, seed)

Exchange(s, i) == [s EXCEPT ![i] = s[i + 1], ![i + 1] = s[i]]

\* One attempt of random_walk_tasm that stays.
Walk(i) ==
    /\ Kind = "walk" /\ verdict = "accepted"
    /\ i + 1 \in DOMAIN lines
    /\ InstructionsAreIndependent(lines[i], lines[i + 1])
    /\ Verified(Exchange(lines, i))
    /\ lines' = Exchange(lines, i)
    /\ UNCHANGED <<task, said, grammar, state, verdict, outcome>>

Idle == {<<<<"push", 0>>, <<"add", 0>>>>, <<<<"push", 1>>, <<"mul", 0>>>>,
         <<<<"dup", 0>>, <<"pop", 1>>>>, <<<<"swap", 1>>, <<"swap", 1>>>>}

\* A pattern at i gives one variant; so does an operand order that is free.
Substituted(i) ==
    {IF Block[i] = <<"nop", 0>> THEN RemoveAt(Block, i)
     ELSE IF i < Len(Block) /\ SubSeq(Block, i, i + 1) \in Idle
     THEN RemoveAt(RemoveAt(Block, i), i)
     ELSE Block}
    \cup (IF Block[i][1] \in {"add", "mul"} /\ i > 1
          THEN {InsertAt(Block, i, <<"swap", 1>>)} ELSE {})

Substitute(i) ==
    /\ Kind = "walk" /\ lines = Block
    /\ lines' \in Substituted(i) \ {Block}
    /\ Verified(lines')
    /\ verdict' = "varied"
    /\ UNCHANGED <<task, said, grammar, state, outcome>>

-----------------------------------------------------------------------------

Init ==
    /\ task \in DOMAIN Tasks
    /\ said = <<>> /\ outcome = <<>>
    /\ grammar = NewGrammar(Tasks[task].depth)
    /\ state = Fresh([k \in 1 .. Tasks[task].depth |-> 1])
    /\ lines = IF Kind = "walk" THEN Block ELSE <<>>
    /\ verdict = IF Kind = "walk" THEN "accepted" ELSE "open"

Next ==
    \/ \E token \in Tasks[task].tokens : Say(token)
    \/ Judge
    \/ \E i \in DOMAIN Block : Walk(i) \/ Substitute(i)

Spec == Init /\ [][Next]_vars

-----------------------------------------------------------------------------
(* What the machine does with the same lines (external: Triton VM).        *)

\* The instruction can be executed.  Words that are compared, divided or
\* raised to must be short.
Runs(s, i) ==
    LET st == s.stack IN
    CASE i[1] \in {"lt", "div_mod"} -> st[1] < Limb /\ st[2] < Limb /\ (i[1] = "lt" \/ st[2] # 0)
      [] i[1] = "pow" -> st[2] < Limb
      [] i[1] \in {"and", "xor"} -> st[1] < Limb /\ st[2] < Limb
      [] i[1] = "pop_count" -> st[1] < Limb
      [] i[1] = "assert" -> st[1] = 1
      [] i[1] = "assert_vector" -> SubSeq(st, 1, 5) = SubSeq(st, 6, 10)
      [] OTHER -> TRUE

\* The first operand is on top.
Machine(s, i) ==
    LET st == s.stack
        n == i[2]
        under(k) == SubSeq(st, k + 1, Len(st))
        leave(stack) == [s EXCEPT !.stack = stack]
        two(word) == leave(<<word>> \o under(2))
    IN IF s.status # "on" \/ i[1] \in Silent THEN s
       ELSE IF ~Runs(s, i) THEN [s EXCEPT !.status = "crashed"]
       ELSE CASE i[1] = "push" -> leave(<<n % Modulus>> \o st)
              [] i[1] = "pop" -> leave(under(n))
              [] i[1] = "dup" -> leave(<<st[n + 1]>> \o st)
              [] i[1] = "swap" -> leave([st EXCEPT ![1] = st[n + 1], ![n + 1] = st[1]])
              [] i[1] = "pick" -> leave(<<st[n + 1]>> \o SubSeq(st, 1, n) \o under(n + 1))
              [] i[1] = "place" -> leave(SubSeq(st, 2, n + 1) \o <<st[1]>> \o under(n + 1))
              [] i[1] = "add" -> two((st[1] + st[2]) % Modulus)
              [] i[1] = "mul" -> two((st[1] * st[2]) % Modulus)
              [] i[1] = "eq" -> two(IF st[1] = st[2] THEN 1 ELSE 0)
              [] i[1] = "lt" -> two(IF st[1] < st[2] THEN 1 ELSE 0)
              [] i[1] = "and" -> two(BitAnd(st[1], st[2]))
              [] i[1] = "xor" -> two(BitXor(st[1], st[2]))
              [] i[1] = "pow" -> two(Raised(st[1], st[2]))
              [] i[1] = "split" -> leave(<<st[1] % Limb, st[1] \div Limb>> \o under(1))
              [] i[1] = "div_mod" -> leave(<<st[1] % st[2], st[1] \div st[2]>> \o under(2))
              [] i[1] = "pop_count" -> leave(<<Ones(st[1])>> \o under(1))
              [] i[1] = "assert" -> leave(under(1))
              [] i[1] = "assert_vector" -> leave(under(5))
              [] i[1] = "halt" -> [s EXCEPT !.status = "halted"]
              [] i[1] = "write_io" -> [leave(under(n)) EXCEPT !.output = @ \o SubSeq(st, 1, n)]
              [] i[1] = "read_io" ->
                   [leave(Reverse(SubSeq(s.input, 1, n)) \o st) EXCEPT
                       !.input = SubSeq(@, n + 1, Len(@))]
              [] i[1] = "divine" ->
                   [leave(Reverse(SubSeq(s.secret, 1, n)) \o st) EXCEPT
                       !.secret = SubSeq(@, n + 1, Len(@))]
              [] OTHER -> s

\* Executions begin with any of the words that are tried on top of others.
Starts ==
    {[stack |-> words \o [k \in 1 .. 40 |-> (7 * k + 20) % Modulus], output |-> <<>>,
      input |-> [k \in 1 .. 12 |-> 60 + k], secret |-> [k \in 1 .. 12 |-> 80 + k],
      status |-> "on"] : words \in [1 .. Sampled -> Samples]}

BlockOnMachine ==
    [n \in {k \in DOMAIN Tasks : Tasks[k].block # <<>>} |->
        [s \in Starts |-> FoldLeft(Machine, s, Tasks[n].block)]]

-----------------------------------------------------------------------------
(* Properties.                                                             *)

\* A block that is put in the place of another, or learnt as its equal, does
\* on every stack what the other does: the same words on the stack, the same
\* output, input and secrets read, the same failed assertions (stack_verifier
\* /mod.rs: "verify neural-generated TASM produces the same stack
\* transformation as classical TASM").
AcceptedIsSame ==
    verdict \in {"accepted", "varied"} =>
        \A s \in Starts : FoldLeft(Machine, s, lines) = BlockOnMachine[task][s]

Reaches == [token \in DOMAIN MinDepths |-> Reach(Tokens[token + 1])]

\* As long as the block could be simulated, the grammar believes in no more
\* words than the stack has, follows the types of no more, and each token it
\* admits finds the words that it reaches for (grammar.rs: "tokens are legal
\* given the current stack state").
MaskIsSound ==
    Kind = "v2" /\ ~state.error /\ ~state.halted =>
        /\ Len(grammar.types) <= grammar.depth
        /\ grammar.depth <= Len(state.stack)
        /\ \A token \in ValidMask(grammar) : Len(state.stack) >= Reaches[token]

\* A win in the report and a reward in training are for blocks that were
\* verified, and are what is saved (scoring.rs: "reward only actual
\* improvement").
RewardsAreEarned ==
    outcome # <<>> =>
        IF Kind = "v2"
        THEN LET won == outcome.winner = "neural" IN
             /\ won <=> verdict = "accepted" /\ Cost(lines) < Cost(Block)
             /\ outcome.winner_cost = IF won THEN Cost(lines) ELSE Cost(Block)
        ELSE outcome.gain > 0 => verdict = "accepted" /\ Cost(lines) + outcome.gain = Cost(Block)

\* A block that was verified is no failure to the diagnosis and has the full
\* shaped score, which both look at one of its stacks; except that a block
\* which leaves no word is scored as if none matched.
JudgesAgree ==
    Kind = "v1" /\ verdict = "accepted" =>
        /\ outcome.because = "passes"
        /\ outcome.score = 900 \/ Simulate(FirstStack[Seed], Block).stack = <<>>

=============================================================================
