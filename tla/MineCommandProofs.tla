-------------------------- MODULE MineCommandProofs --------------------------
(***************************************************************************)
(* Proofs about the search for a nonce of a program, for any number of     *)
(* threads in the pool, any size of a batch on the GPU, any halves of a    *)
(* word, any rate of the sponge and any questions; and about the tree of   *)
(* the old Neptune rules and the search on it, at every height and in      *)
(* either order, for any number of rounds, any range of attempts and any   *)
(* threads: that what the rounds, the exchanges in place and the levels    *)
(* make, with a level left out, is the tree that a verifier has, and that  *)
(* every path of it leads to its root.                                     *)
(*                                                                         *)
(* What a recursive function computes is proved by induction over a set of *)
(* numbers (Stepwise), after it is shown that there is such a function     *)
(* (Recursion, LayersExist, ClimbsExist).                                  *)
(***************************************************************************)
EXTENDS MineCommand, WellFoundedInduction, TLAPS

-----------------------------------------------------------------------------
(* The two computations that the kernel does in its own way.               *)

\* Arithmetic of the quotient.
LEMMA DivMod ==
    ASSUME NEW a \in Nat, NEW b \in Nat \ {0}
    PROVE  /\ a \div b \in Nat /\ a % b \in 0 .. b - 1
           /\ a = (a \div b) * b + (a % b)
<1> DEFINE q == a \div b
           r == a % b
<1>1. q \in Nat /\ r \in 0 .. b - 1
  OBVIOUS
<1>2. a = b * q + r
  OBVIOUS
<1>3. b * q = q * b
  BY <1>1
<1> HIDE DEF q, r
<1>4. q \in Nat /\ r \in 0 .. b - 1 /\ a = q * b + r
  BY <1>1, <1>2, <1>3
<1> QED
  BY <1>4 DEF q, r

LEMMA Product ==
    ASSUME NEW m \in Nat, NEW n \in Nat, NEW b \in Nat, m <= n
    PROVE  m * b \in Nat /\ n * b \in Nat /\ m * b <= n * b
<1>1. PICK d \in Nat : n = m + d
  BY n - m \in Nat
<1>2. n * b = m * b + d * b
  BY <1>1
<1>3. m * b \in Nat /\ d * b \in Nat
  OBVIOUS
<1> QED
  BY <1>2, <1>3

\* The comparison by halves is the comparison.
LEMMA HighHalfDecides ==
    ASSUME NEW h \in Nat \ {0}, NEW w \in Nat, NEW d \in Nat, w < d,
           NEW r \in 0 .. h - 1, NEW s \in 0 .. h - 1
    PROVE  w * h + r < d * h + s
<1>1. (w + 1) * h <= d * h
  BY Product, w + 1 \in Nat, w + 1 <= d
<1>2. (w + 1) * h = w * h + h /\ w * h \in Nat /\ d * h \in Nat
  OBVIOUS
<1> QED
  BY <1>1, <1>2

LEMMA HalvesCompare ==
    ASSUME NEW word \in Nat, NEW difficulty \in Nat
    PROVE  (\/ word \div Half < difficulty \div Half
            \/ word \div Half = difficulty \div Half /\ word % Half < difficulty % Half)
           <=> word < difficulty
<1>1. PICK w \in Nat, r \in 0 .. Half - 1 :
          w = word \div Half /\ r = word % Half /\ word = w * Half + r
  BY DivMod, NonceGuessAssumption
<1>2. PICK d \in Nat, s \in 0 .. Half - 1 :
          d = difficulty \div Half /\ s = difficulty % Half /\ difficulty = d * Half + s
  BY DivMod, NonceGuessAssumption
<1>3. Half \in Nat \ {0} /\ w * Half \in Nat /\ d * Half \in Nat
  BY NonceGuessAssumption
<1>4. w < d \/ w = d \/ d < w
  OBVIOUS
<1>5. w < d => w * Half + r < d * Half + s
  BY <1>3, HighHalfDecides
<1>6. d < w => d * Half + s < w * Half + r
  BY <1>3, HighHalfDecides
<1>7. ASSUME NEW x \in Nat, NEW y \in Nat, w = d, x = w * Half, y = d * Half
      PROVE  r < s <=> x + r < y + s
  BY <1>3, <1>7
<1>8. w = d => (r < s <=> w * Half + r < d * Half + s)
  BY <1>3, <1>7
<1>9. ASSUME NEW x \in Nat, NEW y \in Nat, x < y, y < x PROVE FALSE
  BY <1>9
<1>10. w < d \/ (w = d /\ r < s) <=> w * Half + r < d * Half + s
  <2>1. w * Half + r \in Nat /\ d * Half + s \in Nat
    BY <1>3
  <2>2. d < w => ~(w < d) /\ w # d /\ ~(w * Half + r < d * Half + s)
    BY <1>6, <1>9, <2>1
  <2>3. w = d => ~(w < d)
    OBVIOUS
  <2> QED
    BY <1>4, <1>5, <1>8, <2>2, <2>3, Zenon
<1> QED
  BY <1>1, <1>2, <1>10, Zenon

\* Every chunk of the kernel's padding is the chunk of the host's padding.
LEMMA ChunksAgree ==
    ASSUME NEW S, NEW message \in Seq(S)
    PROVE  Absorbed(message) = HashVarlen(message)
<1> DEFINE len == Len(message)
           full == len \div Rate
           rest == len % Rate
           T == S \cup {"one", "zero"}
           one == <<"one">>
           zeros == [i \in 1 .. Rate - rest - 1 |-> "zero"]
           padded == message \o one \o zeros
           At(i) == IF i <= len THEN message[i] ELSE IF i = len + 1 THEN "one" ELSE "zero"
<1>1. len \in Nat /\ Rate \in Nat \ {0}
  BY NonceGuessAssumption
<1>2. full \in Nat /\ rest \in 0 .. Rate - 1 /\ len = full * Rate + rest
  BY <1>1, DivMod
<1>3. message \in Seq(T) /\ one \in Seq(T) /\ zeros \in Seq(T)
  <2>1. Rate - rest - 1 \in Nat
    BY <1>1, <1>2
  <2> QED
    BY <2>1
<1>4. Len(one) = 1 /\ one[1] = "one"
  OBVIOUS
<1>5. Len(zeros) = Rate - rest - 1 /\ \A i \in 1 .. Rate - rest - 1 : zeros[i] = "zero"
  BY <1>1, <1>2
<1> HIDE DEF one, zeros, T, len, full, rest
<1>6. /\ message \o one \in Seq(T) /\ Len(message \o one) = len + 1
      /\ \A i \in 1 .. len : (message \o one)[i] = message[i]
      /\ (message \o one)[len + 1] = "one"
  <2>1. /\ message \o one \in Seq(T)
        /\ Len(message \o one) = Len(message) + Len(one)
    BY <1>3
  <2>2. \A i \in 1 .. len : (message \o one)[i] = message[i]
    BY <1>3, <1>4 DEF len
  <2>3. len + 1 \in len + 1 .. len + 1 /\ (len + 1) - len = 1
    BY <1>1
  <2>4. (message \o one)[len + 1] = one[(len + 1) - len]
    BY <1>1, <1>3, <1>4, <2>3 DEF len
  <2> QED
    BY <1>4, <2>1, <2>2, <2>3, <2>4 DEF len
<1>7. /\ padded \in Seq(T) /\ Len(padded) = len + Rate - rest
      /\ \A i \in 1 .. len + 1 : padded[i] = (message \o one)[i]
      /\ \A i \in len + 2 .. len + Rate - rest : padded[i] = zeros[i - len - 1]
  <2> DEFINE s == message \o one
  <2> HIDE DEF s
  <2>1. s \in Seq(T) /\ Len(s) = len + 1 /\ zeros \in Seq(T)
    BY <1>3, <1>6 DEF s
  <2>2. /\ s \o zeros \in Seq(T) /\ Len(s \o zeros) = Len(s) + Len(zeros)
        /\ \A i \in 1 .. Len(s) : (s \o zeros)[i] = s[i]
        /\ \A i \in Len(s) + 1 .. Len(s) + Len(zeros) : (s \o zeros)[i] = zeros[i - Len(s)]
    BY <2>1
  <2>3. Len(s) + Len(zeros) = len + Rate - rest
    BY <2>1, <1>5, <1>1, <1>2
  <2>4. \A i \in len + 2 .. len + Rate - rest : i \in Len(s) + 1 .. Len(s) + Len(zeros) /\ i - Len(s) = i - len - 1
    BY <2>1, <2>3, <1>1, <1>2
  <2> QED
    BY <2>1, <2>2, <2>3, <2>4 DEF s
<1>8. \A i \in 1 .. len + Rate - rest : padded[i] = At(i)
  <2> SUFFICES ASSUME NEW i \in 1 .. len + Rate - rest PROVE padded[i] = At(i)
    OBVIOUS
  <2>1. CASE i <= len
    BY <2>1, <1>1, <1>6, <1>7
  <2>2. CASE i = len + 1
    BY <2>2, <1>1, <1>6, <1>7
  <2>3. CASE i > len + 1
    <3>1. i - len - 1 \in 1 .. Rate - rest - 1
      BY <2>3, <1>1, <1>2
    <3>2. i \in len + 2 .. len + Rate - rest
      BY <2>3, <1>1, <1>2
    <3>3. padded[i] = "zero"
      BY <3>1, <3>2, <1>5, <1>7
    <3>4. At(i) = "zero"
      BY <2>3, <1>1
    <3> QED
      BY <3>3, <3>4
  <2>4. i <= len \/ i = len + 1 \/ i > len + 1
    BY <1>1, <1>2
  <2> QED
    BY <2>1, <2>2, <2>3, <2>4
<1>9. len + Rate - rest = (full + 1) * Rate
  BY <1>1, <1>2
<1>10. ASSUME NEW n \in 1 .. full + 1
       PROVE  SubSeq(padded, (n - 1) * Rate + 1, n * Rate) = [i \in 1 .. Rate |-> At((n - 1) * Rate + i)]
  <2> DEFINE a == (n - 1) * Rate
             b == n * Rate
  <2>1. a \in Nat /\ b = a + Rate /\ b <= Len(padded)
    <3>1. n \in Nat /\ n - 1 \in Nat /\ full + 1 \in Nat /\ n <= full + 1
      BY <1>2
    <3>2. a \in Nat /\ b = a + Rate
      BY <3>1, <1>1
    <3>3. b <= (full + 1) * Rate
      BY <3>1, <1>1, Product
    <3> QED
      BY <3>2, <3>3, <1>7, <1>9
  <2> HIDE DEF a, b, padded
  <2>2. Len(padded) \in Nat
    BY <1>7 DEF padded
  <2>3. SubSeq(padded, a + 1, b) = [i \in 1 .. b - a |-> padded[a + i]]
    BY <2>1, <2>2, <1>1, <1>7 DEF padded
  <2>4. \A i \in 1 .. Rate : a + i \in 1 .. len + Rate - rest
    BY <2>1, <1>1, <1>7 DEF padded
  <2>5. \A i \in 1 .. Rate : padded[a + i] = At(a + i)
    BY <2>4, <1>8 DEF padded
  <2>6. b - a = Rate
    BY <2>1, <1>1
  <2> QED
    BY <2>3, <2>5, <2>6 DEF a, b
<1>11. HashVarlen(message) = [n \in 1 .. full + 1 |-> SubSeq(padded, (n - 1) * Rate + 1, n * Rate)]
  BY DEF HashVarlen, Chunk, Padded, padded, one, zeros, len, full, rest
<1>12. Absorbed(message) = [n \in 1 .. full + 1 |-> [i \in 1 .. Rate |-> At((n - 1) * Rate + i)]]
  BY DEF Absorbed, At, len, full
<1> HIDE DEF padded, full, At
<1> QED
  BY <1>10, <1>11, <1>12

LEMMA DigestsAgree == \A n : Absorbed(Message(n)) = HashVarlen(Message(n))
<1> SUFFICES ASSUME NEW n PROVE Absorbed(Message(n)) = HashVarlen(Message(n))
  OBVIOUS
<1>1. Message(n) \in Seq({"h0", "h1", "h2", "h3", "h4"} \cup {ToString(n)})
  BY DEF Message, Base
<1> QED
  BY <1>1, ChunksAgree

-----------------------------------------------------------------------------
(* The inductive invariant, part by part.                                  *)

Wins(n) == Word0(n) < asked.difficulty
Limit == 0 .. asked.max - 1
OnGpu == ~OnPool /\ asked.accelerator

AskedInv == \E q \in DOMAIN Guesses : asked = Guesses[q]

\* A command has one of the two searches, and an answer only at its end.
PlaceInv ==
    /\ guess = [pc |-> guess.pc, at |-> guess.at, answer |-> guess.answer]
    /\ guess.at \in Nat
    /\ guess.pc # "off" => buffer.phase = "off"
    /\ guess.pc \notin {"found", "none"} => guess.answer = {}
    /\ guess.pc = "start" => guess.at = 0
    /\ history = [tried |-> history.tried, lost |-> history.lost]

\* Every nonce waits, is in the hands of a thread, or was tried, and the
\* winners that were tried are those that were found.
PoolInv ==
    guess.pc = "pool" =>
        /\ pool = [pending |-> pool.pending, held |-> pool.held, found |-> pool.found, tried |-> pool.tried]
        /\ pool.pending \subseteq Limit
        /\ pool.held \in [Threads -> SUBSET Limit]
        /\ \A t \in Threads : \A m, n \in pool.held[t] : m = n
        /\ \A n \in Limit :
              \/ n \in pool.pending
              \/ \E t \in Threads : n \in pool.held[t]
              \/ \E attempt \in pool.tried : attempt[1] = n
        /\ \A attempt \in pool.found : attempt[1] \in Limit /\ Wins(attempt[1])
        /\ \A attempt \in pool.tried : Wins(attempt[1]) => attempt \in pool.found

\* The loop and the batches have passed what comes before them; on the GPU a
\* winner can be lost.
Passed(n) == n \in history.tried /\ (Wins(n) => n \in history.lost)

LoopInv ==
    guess.pc = "loop" => \A n \in 0 .. guess.at - 1 : Passed(n)

BatchInv ==
    guess.pc \in {"batch", "kernel"} =>
        /\ OnGpu /\ guess.at % Batch = 0
        /\ \A n \in 0 .. guess.at - 1 : Passed(n)

\* Until the flag is up a lane has passed its nonce, or is about to try the
\* exchange.
Searching ==
    \A g \in Lanes :
        /\ lanes[g] \in {"start", "hit", "done"}
        /\ lanes[g] \in {"hit", "done"} => NonceOf(g) \in history.tried
        /\ lanes[g] = "done" => Passed(NonceOf(g))

\* After it, what is in the buffer is the work of one lane, as far as it is.
Winner(w) ==
    /\ Wins(NonceOf(w))
    /\ lanes[w] \in {"nonce", "digest", "done"}
    /\ lanes[w] \in {"digest", "done"} => result.nonce = NonceOf(w)
    /\ lanes[w] = "done" => result.digest = HashVarlen(Message(NonceOf(w)))
    /\ \A g \in Lanes \ {w} : lanes[g] \in {"start", "hit", "done"}

KernelInv ==
    guess.pc = "kernel" =>
        /\ guess.at < asked.max
        /\ lanes \in [Lanes -> {"start", "hit", "nonce", "digest", "done"}]
        /\ result = [found |-> result.found, nonce |-> result.nonce, digest |-> result.digest]
        /\ result.found \in BOOLEAN
        /\ \A g \in Lanes : lanes[g] = "hit" => Wins(NonceOf(g))
        /\ IF result.found THEN \E w \in Lanes : Winner(w) ELSE Searching

GuessInv ==
    /\ AskedInv /\ PlaceInv /\ PoolInv /\ LoopInv /\ BatchInv /\ KernelInv
    /\ GuessIsHonest

-----------------------------------------------------------------------------
(* What every step uses.                                                   *)

LEMMA AskedIs ==
    ASSUME AskedInv
    PROVE  /\ asked.max \in Nat /\ asked.difficulty \in Nat
           /\ \A n \in Limit : Word0(n) \in Nat
           /\ \A at \in Nat : at % Batch = 0 /\ at < asked.max =>
                 \A g \in Lanes : Word0(at + g) \in Nat
<1>1. /\ asked.max \in Nat /\ asked.difficulty \in Nat
      /\ asked.words \in Seq(Nat) /\ Len(asked.words) >= asked.max /\ Len(asked.words) % Batch = 0
  BY GuessesAssumption DEF AskedInv
<1>2. PICK len \in Nat : len = Len(asked.words)
  BY <1>1
<1>3. \A n \in Nat : n < len => Word0(n) \in Nat
  <2> SUFFICES ASSUME NEW n \in Nat, n < len PROVE Word0(n) \in Nat
    OBVIOUS
  <2>1. n + 1 \in 1 .. Len(asked.words)
    BY <1>2
  <2> QED
    BY <1>1, <2>1 DEF Word0
<1>4. \A n \in Limit : Word0(n) \in Nat
  <2> SUFFICES ASSUME NEW n \in Limit PROVE Word0(n) \in Nat
    OBVIOUS
  <2>1. n \in Nat /\ n < len
    BY <1>1, <1>2 DEF Limit
  <2> QED
    BY <1>3, <2>1
<1>5. ASSUME NEW at \in Nat, at % Batch = 0, at < asked.max, NEW g \in Lanes
      PROVE  Word0(at + g) \in Nat
  <2>1. Batch \in Nat \ {0} /\ len % Batch = 0 /\ at < len
    <3>1. len % Batch = 0
      BY <1>1, <1>2, Zenon
    <3>2. len >= asked.max /\ asked.max \in Nat
      BY <1>1, <1>2, Zenon
    <3>3. at < len
      BY <1>5, <3>2
    <3> QED
      BY <3>1, <3>3, NonceGuessAssumption
  <2>2. PICK i \in Nat : at = i * Batch
    <3>1. at \div Batch \in Nat /\ at = (at \div Batch) * Batch + (at % Batch)
      BY <2>1, DivMod
    <3>2. at = (at \div Batch) * Batch
      BY <1>5, <2>1, <3>1
    <3> QED
      BY <3>1, <3>2
  <2>3. PICK k \in Nat : len = k * Batch
    <3>1. len \div Batch \in Nat /\ len = (len \div Batch) * Batch + (len % Batch)
      BY <2>1, DivMod
    <3>2. len = (len \div Batch) * Batch
      BY <2>1, <3>1
    <3> QED
      BY <3>1, <3>2
  <2>4. i < k
    <3>1. k <= i => len <= at
      BY <2>1, <2>2, <2>3, Product
    <3> QED
      BY <2>1, <3>1
  <2>5. at + Batch <= len
    <3>1. (i + 1) * Batch <= k * Batch
      BY <2>1, <2>4, Product, i + 1 \in Nat, i + 1 <= k
    <3>2. (i + 1) * Batch = i * Batch + Batch
      BY <2>1
    <3> QED
      BY <2>2, <2>3, <3>1, <3>2
  <2>6. at + g \in Nat /\ at + g < len
    BY <2>1, <2>5 DEF Lanes
  <2> QED
    BY <1>3, <2>6
<1> QED
  BY <1>1, <1>4, <1>5

\* What wins is fixed by the question.
LEMMA QuestionStays ==
    ASSUME asked' = asked
    PROVE  /\ AskedInv' <=> AskedInv
           /\ Limit' = Limit /\ (OnPool' <=> OnPool) /\ (OnGpu' <=> OnGpu)
           /\ \A n : (Wins(n)' <=> Wins(n)) /\ Word0(n)' = Word0(n)
  BY DEF AskedInv, Limit, OnPool, UseHoneycrisp, OnGpu, Wins, Word0

-----------------------------------------------------------------------------
(* The steps.                                                              *)

\* The step of the other search of the command.
LEMMA BufferKeeps ==
    ASSUME GuessInv, BufferStep, UNCHANGED <<asked, guess, result, lanes, history>>
    PROVE  GuessInv'
<1>1. buffer.phase # "off"
  BY DEF BufferStep, Buds, Butterfly, EndRounds, SwapLeaf, EndReversal, LastLevel, Level,
         EndLevels, MineLegacyRange, EndMining, TakeAttempt, TryAttempt
<1>2. guess.pc = "off" /\ guess' = guess /\ asked' = asked /\ history' = history
  BY <1>1 DEF GuessInv, PlaceInv
<1>3. AskedInv'
  BY <1>2 DEF GuessInv, AskedInv
<1>4. PlaceInv'
  BY <1>2 DEF GuessInv, PlaceInv
<1>5. PoolInv' /\ LoopInv' /\ BatchInv' /\ KernelInv'
  BY <1>2 DEF PoolInv, LoopInv, BatchInv, KernelInv
<1>6. GuessIsHonest'
  BY <1>2 DEF GuessInv, PlaceInv, GuessIsHonest
<1> QED
  BY <1>3, <1>4, <1>5, <1>6 DEF GuessInv

\* An answer is honest, or everything was tried.
Honest(r) ==
    /\ r.digest = HashVarlen(Message(r.nonce))
    /\ Wins(r.nonce) /\ r.nonce < r.attempts
    /\ r.attempts < asked.max + IF OnGpu THEN Batch ELSE 1

Exhausted ==
    /\ Limit \subseteq history.tried \cup {attempt[1] : attempt \in pool.tried}
    /\ \A n \in Limit : Wins(n) => n \in history.lost

LEMMA HonestIs ==
    /\ GuessIsHonest <=> (\A r \in guess.answer : Honest(r)) /\ (guess.pc = "none" => Exhausted)
    /\ GuessIsHonest' <=> (\A r \in guess'.answer : Honest(r)') /\ (guess'.pc = "none" => Exhausted')
<1>1. GuessIsHonest <=> (\A r \in guess.answer : Honest(r)) /\ (guess.pc = "none" => Exhausted)
  BY DEF GuessIsHonest, Honest, Exhausted, Wins, Winning, Limit, OnGpu
<1>2. GuessIsHonest' <=> (\A r \in guess'.answer : Honest(r)') /\ (guess'.pc = "none" => Exhausted')
  BY DEF GuessIsHonest, Honest, Exhausted, Wins, Winning, Limit, OnGpu
<1> QED
  BY <1>1, <1>2

LEMMA HonestStays == ASSUME asked' = asked PROVE \A r : Honest(r)' <=> Honest(r)
  BY QuestionStays DEF Honest

LEMMA AnswerKeeps ==
    ASSUME GuessInv, asked' = asked, buffer' = buffer, guess.pc # "off",
           NEW found, Answered(found),
           history' = [tried |-> history'.tried, lost |-> history'.lost],
           \A r \in found : Honest(r),
           found = {} => Exhausted'
    PROVE  GuessInv'
<1>1. AskedInv'
  BY QuestionStays DEF GuessInv
<1>2. /\ guess' = [pc |-> IF found = {} THEN "none" ELSE "found", at |-> guess.at, answer |-> found]
      /\ guess'.pc = (IF found = {} THEN "none" ELSE "found")
      /\ guess'.at = guess.at /\ guess'.answer = found
  BY DEF GuessInv, PlaceInv, Answered
<1>3. guess'.pc \in {"found", "none"}
  BY <1>2
<1>4. PlaceInv'
  BY <1>2, <1>3 DEF GuessInv, PlaceInv
<1>5. PoolInv' /\ LoopInv' /\ BatchInv' /\ KernelInv'
  BY <1>3 DEF PoolInv, LoopInv, BatchInv, KernelInv
<1>6. GuessIsHonest'
  BY <1>2, HonestIs, HonestStays
<1> QED
  BY <1>1, <1>4, <1>5, <1>6 DEF GuessInv

\* A step that only goes on.
LEMMA GoesOn ==
    ASSUME GuessInv, asked' = asked, buffer' = buffer, history' = history,
           NEW pc \in {"refused", "pool", "batch", "loop"}, NEW at \in Nat,
           guess.pc \in {"start", "loop", "pool", "batch", "kernel"},
           guess' = [pc |-> pc, at |-> at, answer |-> guess.answer],
           PoolInv', LoopInv', BatchInv'
    PROVE  GuessInv'
<1>1. AskedInv'
  BY QuestionStays DEF GuessInv
<1>2. guess'.pc = pc /\ guess'.at = at /\ guess'.answer = guess.answer
  OBVIOUS
<1>3. PlaceInv' /\ KernelInv'
  BY <1>2 DEF GuessInv, PlaceInv, KernelInv
<1>4. GuessIsHonest'
  BY <1>2, HonestIs DEF GuessInv, PlaceInv
<1> QED
  BY <1>1, <1>3, <1>4 DEF GuessInv

LEMMA RefuseKeeps ==
    ASSUME GuessInv, buffer' = buffer, Refuse
    PROVE  GuessInv'
<1>1. guess' = [pc |-> "refused", at |-> guess.at, answer |-> guess.answer] /\ guess.at \in Nat
  BY DEF Refuse, GuessInv, PlaceInv
<1>2. PoolInv' /\ LoopInv' /\ BatchInv'
  BY <1>1 DEF PoolInv, LoopInv, BatchInv
<1> QED
  BY <1>1, <1>2, GoesOn DEF Refuse

LEMMA StartPoolKeeps ==
    ASSUME GuessInv, buffer' = buffer, StartPool
    PROVE  GuessInv'
<1>1. guess' = [pc |-> "pool", at |-> guess.at, answer |-> guess.answer] /\ guess.at \in Nat
  BY DEF StartPool, GuessInv, PlaceInv
<1>2. LoopInv' /\ BatchInv'
  BY <1>1 DEF LoopInv, BatchInv
<1>3. asked' = asked /\ asked.max \in Nat
  BY AskedIs DEF StartPool, GuessInv
<1>4. pool' = [pending |-> Limit, held |-> [t \in Threads |-> {}], found |-> {}, tried |-> {}]
  <2>1. 0 + asked.max - 1 = asked.max - 1
    BY <1>3
  <2> QED
    BY <2>1 DEF StartPool, PoolOver, Range0, Limit
<1>5. PoolInv'
  BY <1>4, <1>3, QuestionStays DEF PoolInv
<1> QED
  BY <1>1, <1>2, <1>5, GoesOn DEF StartPool

LEMMA StartAloneKeeps ==
    ASSUME GuessInv, buffer' = buffer, StartAlone
    PROVE  GuessInv'
<1> DEFINE pc == IF asked.accelerator THEN "batch" ELSE "loop"
<1>1. guess' = [pc |-> pc, at |-> guess.at, answer |-> guess.answer] /\ guess.at = 0
  BY DEF StartAlone, GuessInv, PlaceInv
<1>2. asked' = asked /\ history' = history
  BY DEF StartAlone
<1>3. guess'.pc = pc /\ guess'.at = 0
  BY <1>1
<1>4. PoolInv' /\ LoopInv'
  BY <1>3 DEF PoolInv, LoopInv
<1>5. BatchInv'
  <2>1. 0 % Batch = 0
    BY NonceGuessAssumption
  <2>2. guess'.pc = "batch" => OnGpu
    BY <1>3 DEF StartAlone, OnGpu
  <2> QED
    BY <1>2, <1>3, <2>1, <2>2, QuestionStays DEF BatchInv
<1>6. pc \in {"batch", "loop"} /\ 0 \in Nat /\ guess.pc = "start" /\ UNCHANGED <<asked, history>>
  BY DEF StartAlone
<1> HIDE DEF pc
<1> QED
  BY <1>1, <1>4, <1>5, <1>6, GoesOn

\* The pool.
LEMMA PoolKeeps ==
    ASSUME GuessInv, guess.pc = "pool", UNCHANGED <<asked, guess, buffer, history>>, PoolInv'
    PROVE  GuessInv'
<1>1. AskedInv'
  BY QuestionStays DEF GuessInv
<1>2. PlaceInv'
  BY DEF GuessInv, PlaceInv
<1>3. LoopInv' /\ BatchInv' /\ KernelInv'
  BY DEF LoopInv, BatchInv, KernelInv
<1>4. GuessIsHonest'
  BY HonestIs, HonestStays DEF GuessInv
<1> QED
  BY <1>1, <1>2, <1>3, <1>4 DEF GuessInv

LEMMA TakeKeeps ==
    ASSUME GuessInv, buffer' = buffer, NEW t \in Threads, TakeNonce(t)
    PROVE  GuessInv'
<1>1. PICK item \in pool.pending :
          pool' = [pool EXCEPT !.pending = @ \ {item}, !.held = [@ EXCEPT ![t] = {item}]]
  BY DEF TakeNonce, Take
<1>2. guess.pc = "pool" /\ UNCHANGED <<asked, guess, history>> /\ pool.held[t] = {}
  BY DEF TakeNonce, Take
<1>3. PICK pending, held, found, tried :
          /\ pool = [pending |-> pending, held |-> held, found |-> found, tried |-> tried]
          /\ pool.pending = pending /\ pool.held = held /\ pool.found = found /\ pool.tried = tried
  BY <1>2 DEF GuessInv, PoolInv
<1>4. /\ pool' = [pending |-> pending \ {item}, held |-> [held EXCEPT ![t] = {item}],
                  found |-> found, tried |-> tried]
      /\ pool'.pending = pending \ {item} /\ pool'.held = [held EXCEPT ![t] = {item}]
      /\ pool'.found = found /\ pool'.tried = tried
  BY <1>1, <1>3
<1>5. /\ item \in pending /\ item \in Limit /\ pending \subseteq Limit
      /\ held \in [Threads -> SUBSET Limit] /\ held[t] = {}
  BY <1>1, <1>2, <1>3 DEF GuessInv, PoolInv
<1>6. pool'.held \in [Threads -> SUBSET Limit]
  BY <1>4, <1>5
<1>7. \A u \in Threads : \A m, n \in pool'.held[u] : m = n
  BY <1>2, <1>3, <1>4, <1>5 DEF GuessInv, PoolInv
<1>8. ASSUME NEW n \in Limit
      PROVE  \/ n \in pool'.pending
             \/ \E u \in Threads : n \in pool'.held[u]
             \/ \E attempt \in pool'.tried : attempt[1] = n
  <2>1. CASE n = item
    <3>1. n \in pool'.held[t]
      BY <2>1, <1>4, <1>5
    <3> QED
      BY <3>1
  <2>2. CASE n \in pending /\ n # item
    BY <2>2, <1>4
  <2>3. CASE \E u \in Threads : n \in held[u]
    <3>1. PICK u \in Threads : n \in held[u]
      BY <2>3
    <3>2. n \in pool'.held[u]
      BY <3>1, <1>4, <1>5
    <3> QED
      BY <3>2
  <2>4. CASE \E attempt \in tried : attempt[1] = n
    BY <2>4, <1>4
  <2> QED
    BY <1>2, <1>3, <2>1, <2>2, <2>3, <2>4 DEF GuessInv, PoolInv
<1>9. PoolInv'
  <2>1. /\ \A attempt \in found : attempt[1] \in Limit /\ Wins(attempt[1])
        /\ \A attempt \in tried : Wins(attempt[1]) => attempt \in found
    BY <1>2, <1>3 DEF GuessInv, PoolInv
  <2>2. pool'.pending \subseteq Limit
    BY <1>4, <1>5
  <2>3. pool' = [pending |-> pool'.pending, held |-> pool'.held, found |-> pool'.found, tried |-> pool'.tried]
    BY <1>4
  <2> QED
    BY <1>2, <1>4, <1>6, <1>7, <1>8, <2>1, <2>2, <2>3, QuestionStays DEF PoolInv
<1> QED
  BY <1>2, <1>9, PoolKeeps

LEMMA TryKeeps ==
    ASSUME GuessInv, buffer' = buffer, NEW t \in Threads, TryNonce(t)
    PROVE  GuessInv'
<1>1. guess.pc = "pool" /\ UNCHANGED <<asked, guess, history>> /\ pool.held[t] # {}
  BY DEF TryNonce
<1>2. PICK pending, held, found, tried :
          /\ pool = [pending |-> pending, held |-> held, found |-> found, tried |-> tried]
          /\ pool.pending = pending /\ pool.held = held /\ pool.found = found /\ pool.tried = tried
  BY <1>1 DEF GuessInv, PoolInv
<1>3. held \in [Threads -> SUBSET Limit] /\ \A m, n \in held[t] : m = n
  BY <1>1, <1>2 DEF GuessInv, PoolInv
<1>4. PICK item : item = Held(t)
  OBVIOUS
<1>5. item \in held[t] /\ item \in Limit /\ \A n \in held[t] : n = item
  <2>1. held[t] # {}
    BY <1>1, <1>2
  <2>2. item \in held[t]
    BY <1>2, <1>4, <2>1 DEF Held
  <2> QED
    BY <1>3, <2>2
<1>6. PICK attempt : attempt = <<item, t>> /\ attempt[1] = item
  <2>1. <<item, t>>[1] = item
    OBVIOUS
  <2> QED
    BY <2>1
<1>7. PICK more : more = IF Wins(item) THEN found \cup {attempt} ELSE found
  OBVIOUS
<1>8. pool' = [pool EXCEPT !.held = [@ EXCEPT ![t] = {}], !.tried = @ \cup {attempt},
                           !.found = IF Wins(item) THEN @ \cup {attempt} ELSE @]
  BY <1>4, <1>6 DEF TryNonce, Try, Wins
<1>9. /\ pool' = [pending |-> pending, held |-> [held EXCEPT ![t] = {}],
                  found |-> more, tried |-> tried \cup {attempt}]
      /\ pool'.pending = pending /\ pool'.held = [held EXCEPT ![t] = {}]
      /\ pool'.found = more /\ pool'.tried = tried \cup {attempt}
  BY <1>2, <1>7, <1>8
<1>10. pool'.held \in [Threads -> SUBSET Limit]
  BY <1>3, <1>9
<1>11. \A u \in Threads : \A m, n \in pool'.held[u] : m = n
  BY <1>1, <1>2, <1>3, <1>9 DEF GuessInv, PoolInv
<1>12. ASSUME NEW n \in Limit
       PROVE  \/ n \in pool'.pending
              \/ \E u \in Threads : n \in pool'.held[u]
              \/ \E a \in pool'.tried : a[1] = n
  <2>1. CASE n = item
    <3>1. attempt \in pool'.tried /\ attempt[1] = n
      BY <2>1, <1>6, <1>9
    <3> QED
      BY <3>1
  <2>2. CASE n \in pending
    BY <2>2, <1>9
  <2>3. CASE n # item /\ \E u \in Threads : n \in held[u]
    <3>1. PICK u \in Threads : n \in held[u]
      BY <2>3
    <3>2. u # t
      BY <2>3, <3>1, <1>5
    <3>3. n \in pool'.held[u]
      BY <3>1, <3>2, <1>3, <1>9
    <3> QED
      BY <3>3
  <2>4. CASE \E a \in tried : a[1] = n
    <3>1. PICK a \in tried : a[1] = n
      BY <2>4
    <3>2. a \in pool'.tried
      BY <1>9
    <3> QED
      BY <3>1, <3>2
  <2> QED
    BY <1>1, <1>2, <2>1, <2>2, <2>3, <2>4 DEF GuessInv, PoolInv
<1>13. PoolInv'
  <2>1. /\ \A a \in found : a[1] \in Limit /\ Wins(a[1])
        /\ \A a \in tried : Wins(a[1]) => a \in found
        /\ pending \subseteq Limit
    BY <1>1, <1>2 DEF GuessInv, PoolInv
  <2>2. \A a \in more : a[1] \in Limit /\ Wins(a[1])
    BY <2>1, <1>5, <1>6, <1>7
  <2>3. \A a \in tried \cup {attempt} : Wins(a[1]) => a \in more
    BY <2>1, <1>6, <1>7
  <2>4. pool' = [pending |-> pool'.pending, held |-> pool'.held, found |-> pool'.found, tried |-> pool'.tried]
    BY <1>9
  <2> QED
    BY <1>1, <1>9, <1>10, <1>11, <1>12, <2>1, <2>2, <2>3, <2>4, QuestionStays DEF PoolInv
<1> QED
  BY <1>1, <1>13, PoolKeeps

\* The answer of the pool and that of the loop.
LEMMA OwnResult ==
    ASSUME AskedInv, NEW n \in Limit, Wins(n)
    PROVE  Honest(GuessResult(n))
<1>1. asked.max \in Nat /\ n \in Nat /\ n + 1 <= asked.max
  BY AskedIs DEF Limit
<1>2. PICK more \in Nat \ {0} : more = IF OnGpu THEN Batch ELSE 1
  BY NonceGuessAssumption
<1>3. n < n + 1 /\ n + 1 < asked.max + more
  BY <1>1
<1> QED
  BY <1>2, <1>3 DEF Honest, GuessResult

LEMMA EndPoolKeeps ==
    ASSUME GuessInv, buffer' = buffer, EndPool
    PROVE  GuessInv'
<1>1. guess.pc = "pool" /\ UNCHANGED <<asked, pool, history>> /\ Returns
  BY DEF EndPool
<1>2. history' = [tried |-> history'.tried, lost |-> history'.lost]
  BY <1>1 DEF GuessInv, PlaceInv
<1>3. CASE pool.found = {}
  <2>1. Answered({})
    BY <1>3 DEF EndPool
  <2>2. pool.pending = {} /\ \A t \in Threads : pool.held[t] = {}
    BY <1>1, <1>3 DEF Returns
  <2>3. ASSUME NEW n \in Limit
        PROVE  n \in {attempt[1] : attempt \in pool.tried} /\ ~Wins(n)
    <3>1. PICK attempt \in pool.tried : attempt[1] = n
      BY <1>1, <2>2 DEF GuessInv, PoolInv
    <3>2. ~Wins(n)
      BY <1>1, <1>3, <3>1 DEF GuessInv, PoolInv
    <3> QED
      BY <3>1, <3>2
  <2>4. Exhausted'
    BY <1>1, <2>3, QuestionStays DEF Exhausted
  <2> QED
    BY <1>1, <1>2, <2>1, <2>4, AnswerKeeps
<1>4. CASE pool.found # {}
  <2>1. PICK win \in pool.found : Answered({GuessResult(win[1])})
    BY <1>4 DEF EndPool
  <2>2. win[1] \in Limit /\ Wins(win[1])
    BY <1>1, <2>1 DEF GuessInv, PoolInv
  <2>3. PICK found : found = {GuessResult(win[1])}
    OBVIOUS
  <2>4. found # {} /\ Answered(found) /\ \A r \in found : Honest(r)
    BY <2>1, <2>2, <2>3, OwnResult DEF GuessInv
  <2> QED
    BY <1>1, <1>2, <2>4, AnswerKeeps
<1> QED
  BY <1>3, <1>4

\* The loop.
LEMMA LoopTryKeeps ==
    ASSUME GuessInv, buffer' = buffer, LoopTry
    PROVE  GuessInv'
<1>1. guess.pc = "loop" /\ guess.at < asked.max /\ UNCHANGED <<asked, pool>>
  BY DEF LoopTry
<1>2. PICK at \in Nat : at = guess.at
  BY DEF GuessInv, PlaceInv
<1>3. asked.max \in Nat /\ at \in Limit /\ at + 1 \in Nat
  BY <1>1, <1>2, AskedIs DEF GuessInv, Limit
<1>4. PICK tried, lost :
          /\ history = [tried |-> tried, lost |-> lost]
          /\ history.tried = tried /\ history.lost = lost
  BY DEF GuessInv, PlaceInv
<1>5. /\ history' = [tried |-> tried \cup {at}, lost |-> lost]
      /\ history'.tried = tried \cup {at} /\ history'.lost = lost
      /\ history' = [tried |-> history'.tried, lost |-> history'.lost]
  BY <1>2, <1>4 DEF LoopTry
<1>6. CASE Wins(at)
  <2>1. PICK found : found = {GuessResult(at)}
    OBVIOUS
  <2>2. found # {} /\ Answered(found) /\ \A r \in found : Honest(r)
    BY <1>2, <1>3, <1>6, <2>1, OwnResult DEF LoopTry, Wins, GuessInv
  <2> QED
    BY <1>1, <1>5, <2>2, AnswerKeeps
<1>7. CASE ~Wins(at)
  <2>1. /\ guess' = [pc |-> "loop", at |-> at + 1, answer |-> guess.answer]
        /\ guess'.pc = "loop" /\ guess'.at = at + 1 /\ guess'.answer = guess.answer
    BY <1>1, <1>2, <1>7 DEF LoopTry, Wins, GuessInv, PlaceInv
  <2>2. LoopInv'
    <3>1. ASSUME NEW n \in 0 .. at PROVE Passed(n)'
      <4>1. CASE n = at
        BY <4>1, <1>1, <1>5, <1>7, QuestionStays DEF Passed
      <4>2. CASE n \in 0 .. at - 1
        <5>1. Passed(n)
          BY <4>2, <1>1, <1>2 DEF GuessInv, LoopInv
        <5> QED
          BY <5>1, <1>1, <1>4, <1>5, QuestionStays DEF Passed
      <4>3. n = at \/ n \in 0 .. at - 1
        BY <1>2
      <4> QED
        BY <4>1, <4>2, <4>3
    <3>2. 0 .. (at + 1) - 1 = 0 .. at
      BY <1>2
    <3> QED
      BY <2>1, <3>1, <3>2 DEF LoopInv
  <2>3. PoolInv' /\ BatchInv' /\ KernelInv'
    BY <2>1 DEF PoolInv, BatchInv, KernelInv
  <2>4. AskedInv'
    BY <1>1, QuestionStays DEF GuessInv
  <2>5. PlaceInv'
    BY <1>1, <1>3, <1>5, <2>1 DEF GuessInv, PlaceInv
  <2>6. GuessIsHonest'
    BY <1>1, <2>1, HonestIs DEF GuessInv, PlaceInv
  <2> QED
    BY <2>2, <2>3, <2>4, <2>5, <2>6 DEF GuessInv
<1> QED
  BY <1>6, <1>7

\* All that a search has passed is all that was asked for.
LEMMA AllPassed ==
    ASSUME AskedInv, guess.at \in Nat, guess.at >= asked.max,
           \A n \in 0 .. guess.at - 1 : Passed(n),
           UNCHANGED <<asked, pool, history>>
    PROVE  Exhausted'
<1>1. asked.max \in Nat
  BY AskedIs
<1>2. \A n \in Limit : n \in 0 .. guess.at - 1
  BY <1>1 DEF Limit
<1>3. Exhausted
  BY <1>2 DEF Exhausted, Passed
<1> QED
  BY <1>3, QuestionStays DEF Exhausted

LEMMA LoopEndKeeps ==
    ASSUME GuessInv, buffer' = buffer, LoopEnd
    PROVE  GuessInv'
<1>1. guess.pc = "loop" /\ guess.at >= asked.max /\ UNCHANGED <<asked, pool, history>> /\ Answered({})
  BY DEF LoopEnd
<1>2. Exhausted'
  BY <1>1, AllPassed DEF GuessInv, PlaceInv, LoopInv
<1>3. history' = [tried |-> history'.tried, lost |-> history'.lost]
  BY <1>1 DEF GuessInv, PlaceInv
<1> QED
  BY <1>1, <1>2, <1>3, AnswerKeeps

-----------------------------------------------------------------------------
(* The batches.                                                            *)

LEMMA GiveUpKeeps ==
    ASSUME GuessInv, buffer' = buffer, GiveUp
    PROVE  GuessInv'
<1>1. guess.pc = "batch" /\ guess.at >= asked.max /\ UNCHANGED <<asked, pool, history>> /\ Answered({})
  BY DEF GiveUp
<1>2. Exhausted'
  BY <1>1, AllPassed DEF GuessInv, PlaceInv, BatchInv
<1>3. history' = [tried |-> history'.tried, lost |-> history'.lost]
  BY <1>1 DEF GuessInv, PlaceInv
<1> QED
  BY <1>1, <1>2, <1>3, AnswerKeeps

\* What a lane passes stays passed.
LEMMA PassedStays ==
    ASSUME asked' = asked, history.tried \subseteq history'.tried, history.lost \subseteq history'.lost
    PROVE  \A n : Passed(n) => Passed(n)'
  BY QuestionStays DEF Passed

\* A step within the kernel, or into it.
LEMMA KernelKeeps ==
    ASSUME GuessInv, UNCHANGED <<asked, buffer, pool>>,
           guess.pc \in {"batch", "kernel"},
           guess' = [pc |-> "kernel", at |-> guess.at, answer |-> guess.answer],
           history' = [tried |-> history'.tried, lost |-> history'.lost],
           history.tried \subseteq history'.tried, history.lost \subseteq history'.lost,
           KernelInv'
    PROVE  GuessInv'
<1>1. guess'.pc = "kernel" /\ guess'.at = guess.at /\ guess'.answer = guess.answer
  OBVIOUS
<1>2. AskedInv'
  BY QuestionStays DEF GuessInv
<1>3. PlaceInv'
  BY <1>1 DEF GuessInv, PlaceInv
<1>4. PoolInv' /\ LoopInv'
  BY <1>1 DEF PoolInv, LoopInv
<1>5. BatchInv'
  BY <1>1, PassedStays, QuestionStays DEF GuessInv, BatchInv
<1>6. GuessIsHonest'
  BY <1>1, HonestIs DEF GuessInv, PlaceInv
<1> QED
  BY <1>2, <1>3, <1>4, <1>5, <1>6 DEF GuessInv

LEMMA DispatchKeeps ==
    ASSUME GuessInv, buffer' = buffer, Dispatch
    PROVE  GuessInv'
<1>1. guess.pc = "batch" /\ guess.at < asked.max /\ UNCHANGED <<asked, pool, history>>
  BY DEF Dispatch
<1>2. /\ guess' = [pc |-> "kernel", at |-> guess.at, answer |-> guess.answer]
      /\ guess'.at = guess.at
  BY DEF Dispatch, GuessInv, PlaceInv
<1>3. result' = NoResult /\ result'.found = FALSE /\ lanes' = [g \in Lanes |-> "start"]
  BY DEF Dispatch, NoResult
<1>4. \A g \in Lanes : lanes'[g] = "start"
  BY <1>3
<1>5. KernelInv'
  <2>1. Searching'
    BY <1>4 DEF Searching, Lanes
  <2>2. lanes' \in [Lanes -> {"start", "hit", "nonce", "digest", "done"}]
    BY <1>3
  <2>3. result' = [found |-> result'.found, nonce |-> result'.nonce, digest |-> result'.digest]
    BY <1>3 DEF NoResult
  <2> QED
    BY <1>1, <1>2, <1>3, <1>4, <2>1, <2>2, <2>3 DEF KernelInv, Lanes
<1>6. history' = [tried |-> history'.tried, lost |-> history'.lost]
  BY <1>1 DEF GuessInv, PlaceInv
<1> QED
  BY <1>1, <1>2, <1>5, <1>6, KernelKeeps

\* A step of a lane leaves the question, the batch and the other lanes alone.
LEMMA LaneKeeps ==
    ASSUME GuessInv, UNCHANGED <<asked, buffer, pool, guess>>, guess.pc = "kernel",
           history' = [tried |-> history'.tried, lost |-> history'.lost],
           history.tried \subseteq history'.tried, history.lost \subseteq history'.lost,
           result' = [found |-> result'.found, nonce |-> result'.nonce, digest |-> result'.digest],
           result'.found \in BOOLEAN,
           NEW g \in Lanes, NEW next \in {"hit", "nonce", "digest", "done"},
           lanes' = [lanes EXCEPT ![g] = next],
           next = "hit" => Wins(NonceOf(g)),
           IF result'.found THEN \E w \in Lanes : Winner(w)' ELSE Searching'
    PROVE  GuessInv'
<1>1. guess' = [pc |-> "kernel", at |-> guess.at, answer |-> guess.answer]
  BY DEF GuessInv, PlaceInv
<1>2. /\ guess.at < asked.max
      /\ lanes \in [Lanes -> {"start", "hit", "nonce", "digest", "done"}]
      /\ \A h \in Lanes : lanes[h] = "hit" => Wins(NonceOf(h))
  BY DEF GuessInv, KernelInv
<1>3. lanes' \in [Lanes -> {"start", "hit", "nonce", "digest", "done"}]
  BY <1>2
<1>4. ASSUME NEW h \in Lanes, lanes'[h] = "hit" PROVE Wins(NonceOf(h))'
  <2>1. Wins(NonceOf(h))
    BY <1>2, <1>4
  <2> QED
    BY <2>1 DEF Wins, Word0, NonceOf
<1>5. KernelInv'
  BY <1>2, <1>3, <1>4 DEF KernelInv, Lanes
<1> QED
  BY <1>1, <1>5, KernelKeeps

LEMMA NonceStays ==
    ASSUME UNCHANGED <<asked, guess>>
    PROVE  \A g : NonceOf(g)' = NonceOf(g) /\ (Wins(NonceOf(g))' <=> Wins(NonceOf(g)))
  BY DEF NonceOf, Wins, Word0

\* Another lane's step, by which it does not come to the buffer, leaves the
\* winner the winner.
LEMMA WinnerStays ==
    ASSUME UNCHANGED <<asked, guess, result>>, NEW w \in Lanes, Winner(w),
           lanes \in [Lanes -> {"start", "hit", "nonce", "digest", "done"}],
           NEW g \in Lanes \ {w}, NEW next \in {"hit", "done"}, lanes' = [lanes EXCEPT ![g] = next]
    PROVE  Winner(w)'
<1>1. lanes'[w] = lanes[w] /\ \A h \in Lanes \ {g} : lanes'[h] = lanes[h]
  OBVIOUS
<1>2. lanes'[g] = next
  OBVIOUS
<1>3. \A h \in Lanes \ {w} : lanes'[h] \in {"start", "hit", "done"}
  BY <1>1, <1>2 DEF Winner
<1> QED
  BY <1>1, <1>3, NonceStays DEF Winner, Lanes

\* Until the flag is up, a lane that goes on has been tried, and one that
\* leaves has passed.
LEMMA SearchStays ==
    ASSUME UNCHANGED <<asked, guess>>, Searching,
           history.tried \subseteq history'.tried, history.lost \subseteq history'.lost,
           lanes \in [Lanes -> {"start", "hit", "nonce", "digest", "done"}],
           NEW g \in Lanes, NEW next \in {"hit", "done"}, lanes' = [lanes EXCEPT ![g] = next],
           NonceOf(g) \in history'.tried, next = "done" => Passed(NonceOf(g))'
    PROVE  Searching'
<1>1. ASSUME NEW h \in Lanes
      PROVE  /\ lanes'[h] \in {"start", "hit", "done"}
             /\ lanes'[h] \in {"hit", "done"} => NonceOf(h)' \in history'.tried
             /\ lanes'[h] = "done" => Passed(NonceOf(h))'
  <2>1. CASE h = g
    <3>1. lanes'[h] = next
      BY <2>1
    <3> QED
      BY <2>1, <3>1, NonceStays
  <2>2. CASE h # g
    <3>1. lanes'[h] = lanes[h]
      BY <2>2
    <3>2. Passed(NonceOf(h)) => Passed(NonceOf(h))'
      BY PassedStays, NonceStays DEF Passed
    <3> QED
      BY <3>1, <3>2, NonceStays DEF Searching
  <2> QED
    BY <2>1, <2>2
<1> QED
  BY <1>1 DEF Searching, Lanes

LEMMA LaneStartKeeps ==
    ASSUME GuessInv, buffer' = buffer, NEW g \in Lanes, LaneStart(g)
    PROVE  GuessInv'
<1>1. /\ guess.pc = "kernel" /\ lanes[g] = "start"
      /\ UNCHANGED <<asked, pool, guess, result>>
  BY DEF LaneStart
<1>2. /\ lanes \in [Lanes -> {"start", "hit", "nonce", "digest", "done"}]
      /\ result = [found |-> result.found, nonce |-> result.nonce, digest |-> result.digest]
      /\ result.found \in BOOLEAN
      /\ IF result.found THEN \E w \in Lanes : Winner(w) ELSE Searching
  BY <1>1 DEF GuessInv, KernelInv
<1>3. CASE result.found
  <2>1. history' = history /\ lanes' = [lanes EXCEPT ![g] = "done"]
    BY <1>3 DEF LaneStart
  <2>2. PICK w \in Lanes : Winner(w)
    BY <1>2, <1>3
  <2>3. w # g
    BY <1>1, <2>2 DEF Winner
  <2>4. Winner(w)'
    BY <1>1, <1>2, <2>1, <2>2, <2>3, WinnerStays
  <2>5. /\ history' = [tried |-> history'.tried, lost |-> history'.lost]
        /\ history.tried \subseteq history'.tried /\ history.lost \subseteq history'.lost
    BY <2>1 DEF GuessInv, PlaceInv
  <2>6. IF result'.found THEN \E v \in Lanes : Winner(v)' ELSE Searching'
    BY <1>1, <1>3, <2>4
  <2> QED
    BY <1>1, <1>2, <2>1, <2>5, <2>6, LaneKeeps
<1>4. CASE ~result.found
  <2>1. PICK next \in {"hit", "done"} : next = IF BelowTarget(Word0(NonceOf(g))) THEN "hit" ELSE "done"
    OBVIOUS
  <2>2. lanes' = [lanes EXCEPT ![g] = next] /\ history' = [history EXCEPT !.tried = @ \cup {NonceOf(g)}]
    BY <1>4, <2>1 DEF LaneStart
  <2>3. /\ history'.tried = history.tried \cup {NonceOf(g)} /\ history'.lost = history.lost
        /\ history' = [tried |-> history'.tried, lost |-> history'.lost]
    BY <2>2 DEF GuessInv, PlaceInv
  <2>4. Wins(NonceOf(g)) <=> next = "hit"
    <3>1. guess.at \in Nat /\ guess.at % Batch = 0 /\ guess.at < asked.max
      BY <1>1 DEF GuessInv, PlaceInv, BatchInv, KernelInv
    <3>2. Word0(NonceOf(g)) \in Nat /\ asked.difficulty \in Nat
      BY <3>1, AskedIs DEF GuessInv, NonceOf
    <3>3. BelowTarget(Word0(NonceOf(g))) <=> Wins(NonceOf(g))
      BY <3>2, HalvesCompare DEF BelowTarget, Wins
    <3> QED
      BY <2>1, <3>3
  <2>5. NonceOf(g) \in history'.tried /\ (next = "done" => Passed(NonceOf(g))')
    BY <1>1, <2>3, <2>4, NonceStays DEF Passed
  <2>6. Searching'
    BY <1>1, <1>2, <1>4, <2>2, <2>3, <2>5, SearchStays
  <2>7. IF result'.found THEN \E v \in Lanes : Winner(v)' ELSE Searching'
    BY <1>1, <1>4, <2>6
  <2> QED
    BY <1>1, <1>2, <2>2, <2>3, <2>4, <2>7, LaneKeeps
<1> QED
  BY <1>3, <1>4

LEMMA LaneExchangeKeeps ==
    ASSUME GuessInv, buffer' = buffer, NEW g \in Lanes, LaneExchange(g)
    PROVE  GuessInv'
<1>1. guess.pc = "kernel" /\ lanes[g] = "hit" /\ UNCHANGED <<asked, pool, guess>>
  BY DEF LaneExchange
<1>2. /\ lanes \in [Lanes -> {"start", "hit", "nonce", "digest", "done"}]
      /\ result = [found |-> result.found, nonce |-> result.nonce, digest |-> result.digest]
      /\ result.found \in BOOLEAN /\ Wins(NonceOf(g))
      /\ IF result.found THEN \E w \in Lanes : Winner(w) ELSE Searching
  BY <1>1 DEF GuessInv, KernelInv
<1>3. PICK won \in BOOLEAN :
          /\ result' = [result EXCEPT !.found = @ \/ (won /\ ~result.found)]
          /\ lanes' = [lanes EXCEPT ![g] = IF won /\ ~result.found THEN "nonce" ELSE "done"]
          /\ history' = [history EXCEPT !.lost =
                IF result.found \/ won THEN @ ELSE @ \cup {NonceOf(g)}]
  BY DEF LaneExchange, Exchanged
<1>4. history = [tried |-> history.tried, lost |-> history.lost]
  BY DEF GuessInv, PlaceInv
<1>5. /\ history'.tried = history.tried
      /\ history'.lost = IF result.found \/ won THEN history.lost ELSE history.lost \cup {NonceOf(g)}
      /\ history' = [tried |-> history'.tried, lost |-> history'.lost]
  BY <1>3, <1>4
<1>6. history.tried \subseteq history'.tried /\ history.lost \subseteq history'.lost
  BY <1>5
<1>7. /\ result' = [found |-> result'.found, nonce |-> result'.nonce, digest |-> result'.digest]
      /\ result'.nonce = result.nonce /\ result'.digest = result.digest
  BY <1>2, <1>3
<1>8. CASE result.found
  <2>1. result'.found = TRUE
    BY <1>2, <1>3, <1>8
  <2>2. result' = result
    BY <1>2, <1>7, <1>8, <2>1
  <2>3. lanes' = [lanes EXCEPT ![g] = "done"]
    BY <1>3, <1>8
  <2>4. PICK w \in Lanes : Winner(w)
    BY <1>2, <1>8
  <2>5. w # g
    BY <1>1, <2>4 DEF Winner
  <2>6. Winner(w)'
    BY <1>1, <1>2, <2>2, <2>3, <2>4, <2>5, WinnerStays
  <2> QED
    BY <1>1, <1>5, <1>6, <1>7, <2>1, <2>3, <2>6, LaneKeeps
<1>9. CASE ~result.found /\ won
  <2>1. result'.found = TRUE
    BY <1>2, <1>3, <1>9
  <2>2. lanes' = [lanes EXCEPT ![g] = "nonce"]
    BY <1>3, <1>9
  <2>3. lanes'[g] = "nonce" /\ \A h \in Lanes \ {g} : lanes'[h] \in {"start", "hit", "done"}
    BY <1>2, <1>9, <2>2 DEF Searching
  <2>4. Winner(g)'
    BY <1>1, <1>2, <2>3, NonceStays DEF Winner, Lanes
  <2> QED
    BY <1>1, <1>5, <1>6, <1>7, <2>1, <2>2, <2>4, LaneKeeps
<1>10. CASE ~result.found /\ ~won
  <2>1. result'.found = FALSE
    BY <1>2, <1>3, <1>10
  <2>2. lanes' = [lanes EXCEPT ![g] = "done"]
    BY <1>3, <1>10
  <2>3. NonceOf(g) \in history.tried
    BY <1>1, <1>2, <1>10 DEF Searching
  <2>4. NonceOf(g) \in history'.tried /\ Passed(NonceOf(g))'
    BY <1>1, <1>5, <1>10, <2>3, NonceStays DEF Passed
  <2>5. Searching'
    BY <1>1, <1>2, <1>6, <1>10, <2>2, <2>4, SearchStays
  <2> QED
    BY <1>1, <1>5, <1>6, <1>7, <2>1, <2>2, <2>5, LaneKeeps
<1> QED
  BY <1>2, <1>8, <1>9, <1>10

\* The lane that writes is the winner.
LEMMA WriterIsWinner ==
    ASSUME GuessInv, guess.pc = "kernel", NEW g \in Lanes, lanes[g] \in {"nonce", "digest"}
    PROVE  result.found /\ Winner(g)
<1>1. IF result.found THEN \E w \in Lanes : Winner(w) ELSE Searching
  BY DEF GuessInv, KernelInv
<1>2. result.found
  BY <1>1 DEF Searching
<1>3. PICK w \in Lanes : Winner(w)
  BY <1>1, <1>2
<1>4. w = g
  BY <1>3 DEF Winner
<1> QED
  BY <1>2, <1>3, <1>4

LEMMA LaneNonceKeeps ==
    ASSUME GuessInv, buffer' = buffer, NEW g \in Lanes, LaneNonce(g)
    PROVE  GuessInv'
<1>1. guess.pc = "kernel" /\ lanes[g] = "nonce" /\ UNCHANGED <<asked, pool, guess, history>>
  BY DEF LaneNonce
<1>2. result.found /\ Winner(g)
  BY <1>1, WriterIsWinner
<1>3. /\ lanes \in [Lanes -> {"start", "hit", "nonce", "digest", "done"}]
      /\ result = [found |-> result.found, nonce |-> result.nonce, digest |-> result.digest]
  BY <1>1 DEF GuessInv, KernelInv
<1>4. history' = [tried |-> history'.tried, lost |-> history'.lost]
  BY <1>1 DEF GuessInv, PlaceInv
<1>5. /\ result' = [found |-> result'.found, nonce |-> result'.nonce, digest |-> result'.digest]
      /\ result'.found = result.found /\ result'.nonce = NonceOf(g)
  BY <1>3 DEF LaneNonce
<1>6. lanes' = [lanes EXCEPT ![g] = "digest"]
  BY DEF LaneNonce
<1>7. lanes'[g] = "digest" /\ \A h \in Lanes \ {g} : lanes'[h] \in {"start", "hit", "done"}
  BY <1>2, <1>3, <1>6 DEF Winner
<1>8. Winner(g)'
  BY <1>1, <1>2, <1>5, <1>7, NonceStays DEF Winner, Lanes
<1>9. result'.found \in BOOLEAN /\ result'.found
  BY <1>1, <1>2, <1>5 DEF GuessInv, KernelInv
<1> QED
  BY <1>1, <1>4, <1>5, <1>6, <1>8, <1>9, LaneKeeps

LEMMA LaneDigestKeeps ==
    ASSUME GuessInv, buffer' = buffer, NEW g \in Lanes, LaneDigest(g)
    PROVE  GuessInv'
<1>1. guess.pc = "kernel" /\ lanes[g] = "digest" /\ UNCHANGED <<asked, pool, guess, history>>
  BY DEF LaneDigest
<1>2. result.found /\ Winner(g)
  BY <1>1, WriterIsWinner
<1>3. /\ lanes \in [Lanes -> {"start", "hit", "nonce", "digest", "done"}]
      /\ result = [found |-> result.found, nonce |-> result.nonce, digest |-> result.digest]
  BY <1>1 DEF GuessInv, KernelInv
<1>4. history' = [tried |-> history'.tried, lost |-> history'.lost]
  BY <1>1 DEF GuessInv, PlaceInv
<1>5. PICK digest : digest = HashVarlen(Message(NonceOf(g)))
  OBVIOUS
<1>6. /\ result' = [found |-> result'.found, nonce |-> result'.nonce, digest |-> result'.digest]
      /\ result'.found = result.found /\ result'.nonce = result.nonce /\ result'.digest = digest
  BY <1>3, <1>5, DigestsAgree DEF LaneDigest
<1>7. lanes' = [lanes EXCEPT ![g] = "done"]
  BY DEF LaneDigest
<1>8. lanes'[g] = "done" /\ \A h \in Lanes \ {g} : lanes'[h] \in {"start", "hit", "done"}
  BY <1>2, <1>3, <1>7 DEF Winner
<1>9. HashVarlen(Message(NonceOf(g)))' = digest
  BY <1>1, <1>5 DEF NonceOf, HashVarlen, Message, Padded, Chunk
<1>10. result.nonce = NonceOf(g)
  BY <1>1, <1>2 DEF Winner
<1>11. Winner(g)'
  BY <1>1, <1>2, <1>6, <1>8, <1>9, <1>10, NonceStays DEF Winner, Lanes
<1>12. result'.found \in BOOLEAN /\ result'.found
  BY <1>1, <1>2, <1>6 DEF GuessInv, KernelInv
<1> QED
  BY <1>1, <1>4, <1>6, <1>7, <1>11, <1>12, LaneKeeps

LEMMA ReadbackKeeps ==
    ASSUME GuessInv, buffer' = buffer, Readback
    PROVE  GuessInv'
<1>1. /\ guess.pc = "kernel" /\ \A g \in Lanes : lanes[g] = "done"
      /\ UNCHANGED <<asked, pool, result, lanes, history>>
  BY DEF Readback
<1>2. /\ guess.at \in Nat /\ guess.at % Batch = 0 /\ guess.at < asked.max
      /\ OnGpu /\ \A n \in 0 .. guess.at - 1 : Passed(n)
      /\ IF result.found THEN \E w \in Lanes : Winner(w) ELSE Searching
  BY <1>1 DEF GuessInv, PlaceInv, BatchInv, KernelInv
<1>3. asked.max \in Nat /\ Batch \in Nat \ {0}
  BY AskedIs, NonceGuessAssumption DEF GuessInv
<1>4. history' = [tried |-> history'.tried, lost |-> history'.lost]
  BY <1>1 DEF GuessInv, PlaceInv
<1>5. CASE result.found
  <2>1. PICK w \in Lanes : Winner(w)
    BY <1>2, <1>5
  <2>2. PICK r : r = [nonce |-> result.nonce, digest |-> result.digest, attempts |-> guess.at + Batch]
    OBVIOUS
  <2>3. r.nonce = guess.at + w /\ r.digest = HashVarlen(Message(r.nonce)) /\ Wins(r.nonce)
    BY <1>1, <2>1, <2>2 DEF Winner, NonceOf
  <2>4. w \in Nat /\ w < Batch
    BY <1>3 DEF Lanes
  <2>5. r.attempts = guess.at + Batch /\ r.nonce < r.attempts /\ r.attempts < asked.max + Batch
    BY <1>2, <1>3, <2>2, <2>3, <2>4
  <2>6. Honest(r)
    BY <1>2, <2>3, <2>5 DEF Honest
  <2>7. PICK found : found = {r}
    OBVIOUS
  <2>8. found # {} /\ Answered(found) /\ \A x \in found : Honest(x)
    BY <1>5, <2>2, <2>6, <2>7 DEF Readback
  <2> QED
    BY <1>1, <1>4, <2>8, AnswerKeeps
<1>6. CASE ~result.found
  <2>1. PICK at \in Nat : at = guess.at + Batch
    BY <1>2, <1>3
  <2>2. guess' = [pc |-> "batch", at |-> at, answer |-> guess.answer] /\ guess'.pc = "batch" /\ guess'.at = at
    BY <1>6, <2>1 DEF Readback, GuessInv, PlaceInv
  <2>3. ASSUME NEW n \in 0 .. at - 1 PROVE Passed(n)'
    <3>1. CASE n \in 0 .. guess.at - 1
      BY <3>1, <1>1, <1>2, PassedStays
    <3>2. CASE n \notin 0 .. guess.at - 1
      <4>1. n - guess.at \in Lanes /\ n = guess.at + (n - guess.at)
        BY <3>2, <1>2, <1>3, <2>1 DEF Lanes
      <4>2. PICK g \in Lanes : n = NonceOf(g)
        BY <4>1 DEF NonceOf
      <4>3. Passed(n)
        BY <1>1, <1>2, <1>6, <4>2 DEF Searching
      <4> QED
        BY <4>3, <1>1, PassedStays
    <3> QED
      BY <3>1, <3>2
  <2>4. at % Batch = 0
    <3>1. PICK k \in Nat : guess.at = k * Batch
      <4>1. guess.at \div Batch \in Nat /\ guess.at = (guess.at \div Batch) * Batch + (guess.at % Batch)
        BY <1>2, <1>3, DivMod
      <4>2. guess.at = (guess.at \div Batch) * Batch
        BY <1>2, <1>3, <4>1
      <4> QED
        BY <4>1, <4>2
    <3>2. at = (k + 1) * Batch
      BY <3>1, <1>3, <2>1
    <3>3. \A i \in Nat : (i * Batch) % Batch = 0
      BY <1>3
    <3> QED
      BY <3>2, <3>3
  <2>5. BatchInv'
    BY <1>1, <1>2, <2>2, <2>3, <2>4, QuestionStays DEF BatchInv
  <2>6. PoolInv' /\ LoopInv'
    BY <2>2 DEF PoolInv, LoopInv
  <2> QED
    BY <1>1, <2>2, <2>5, <2>6, GoesOn
<1> QED
  BY <1>5, <1>6

-----------------------------------------------------------------------------
(* All steps.                                                              *)

LEMMA GuessInvInit == Init => GuessInv
<1> SUFFICES ASSUME Init PROVE GuessInv
  OBVIOUS
<1>1. AskedInv
  BY DEF Init, AskedInv
<1>2. \/ guess = [pc |-> "off", at |-> 0, answer |-> {}]
      \/ guess = [pc |-> "start", at |-> 0, answer |-> {}] /\ buffer = Off
  BY DEF Init
<1>3. guess.pc \in {"off", "start"} /\ guess.at = 0 /\ guess.answer = {}
  BY <1>2
<1>4. buffer = Off => buffer.phase = "off"
  BY DEF Off
<1>5. PlaceInv
  BY <1>2, <1>3, <1>4 DEF Init, PlaceInv
<1>6. PoolInv /\ LoopInv /\ BatchInv /\ KernelInv
  BY <1>3 DEF PoolInv, LoopInv, BatchInv, KernelInv
<1>7. GuessIsHonest
  BY <1>3, HonestIs
<1> QED
  BY <1>1, <1>5, <1>6, <1>7 DEF GuessInv

LEMMA GuessInvStep == GuessInv /\ [Next]_vars => GuessInv'
<1> SUFFICES ASSUME GuessInv, [Next]_vars PROVE GuessInv'
  OBVIOUS
<1>1. CASE UNCHANGED vars
  BY <1>1 DEF vars, GuessInv, AskedInv, PlaceInv, PoolInv, LoopInv, BatchInv, KernelInv, GuessIsHonest,
              Limit, Wins, Word0, OnGpu, OnPool, UseHoneycrisp, Passed, Searching, Winner, NonceOf,
              Winning, Lanes
<1>2. CASE BufferStep /\ UNCHANGED <<asked, guess, result, lanes, history>>
  BY <1>2, BufferKeeps
<1>3. CASE GuessStep /\ UNCHANGED <<job, buffer, mined>>
  BY <1>3, RefuseKeeps, StartPoolKeeps, StartAloneKeeps, TakeKeeps, TryKeeps, EndPoolKeeps,
     LoopTryKeeps, LoopEndKeeps, DispatchKeeps, GiveUpKeeps, ReadbackKeeps,
     LaneStartKeeps, LaneExchangeKeeps, LaneNonceKeeps, LaneDigestKeeps
     DEF GuessStep
<1> QED
  BY <1>1, <1>2, <1>3 DEF Next

\* The inductive invariant of the search, for every backend.
THEOREM GuessIsSound == Spec => []GuessInv
<1> QED
  BY GuessInvInit, GuessInvStep, PTL DEF Spec

\* A reported nonce has the digest that the host computes for it, which is
\* below the difficulty, however threads and lanes race; and none is reported
\* only after each was tried, when no winner but one that an exchange turned
\* away was among them (cli/mine.rs, wgpu/shaders/mine.wgsl).
THEOREM GuessesAreHonest == Spec => []GuessIsHonest
<1>1. GuessInv => GuessIsHonest
  BY DEF GuessInv
<1> QED
  BY <1>1, GuessIsSound, PTL

-----------------------------------------------------------------------------
(* Recursion over the numbers.                                             *)

Below == {pair \in Nat \X Nat : pair[1] < pair[2]}

\* A set of numbers has a least one.
LEMMA Least ==
    ASSUME NEW T \in SUBSET Nat, T # {}
    PROVE  \E n \in T : \A m \in T : n <= m
<1>1. OpToRel(<, Nat) = Below
  BY Zenon DEF OpToRel, Below
<1>2. IsWellFoundedOn(Below, Nat)
  BY <1>1, NatLessThanWellFounded, Zenon
<1>3. PICK x \in T : \A y \in T : ~ (<<y, x>> \in Below)
  BY <1>2, WFMin
<1>4. ASSUME NEW y \in Nat, y < x PROVE <<y, x>> \in Below
  <2>1. <<y, x>> \in Nat \X Nat /\ <<y, x>>[1] = y /\ <<y, x>>[2] = x
    OBVIOUS
  <2> QED
    BY <1>4, <2>1 DEF Below
<1>5. \A y \in T : ~(y < x)
  BY <1>3, <1>4
<1> QED
  BY <1>5

\* What holds of 0, and of the next number if of one, holds of all.
LEMMA Stepwise ==
    ASSUME NEW T \in SUBSET Nat, 0 \in T, \A n \in T : n + 1 \in T
    PROVE  T = Nat
<1> DEFINE U == {n \in Nat : n \notin T}
<1> SUFFICES ASSUME U # {} PROVE FALSE
  OBVIOUS
<1>1. PICK m \in U : \A n \in U : m <= n
  BY Least
<1>2. m \in Nat /\ m \notin T /\ m # 0
  OBVIOUS
<1>3. m - 1 \in Nat /\ ~(m <= m - 1)
  BY <1>2
<1>4. m - 1 \in T
  BY <1>1, <1>3
<1>5. m - 1 + 1 = m
  BY <1>2
<1> QED
  BY <1>2, <1>4, <1>5

\* A function each value of which the one before determines, and its first
\* values alone.
IsStep(start, step) == start \in Nat /\ step \in [Nat \X Nat -> Nat]

IsRecursive(f, start, step) ==
    /\ f \in [Nat -> Nat]
    /\ \A i \in Nat : f[i] = IF i = 0 THEN start ELSE step[<<i, f[i - 1]>>]

IsRun(f, n, start, step) ==
    f = [i \in 0 .. n |-> IF i = 0 THEN start ELSE step[<<i, f[i - 1]>>]]

\* The first values can be taken, however many.
LEMMA RunsExist ==
    ASSUME NEW start, NEW step, IsStep(start, step)
    PROVE  \A n \in Nat : \E f \in [0 .. n -> Nat] : IsRun(f, n, start, step)
<1> USE DEF IsStep
<1> DEFINE T == {n \in Nat : \E f \in [0 .. n -> Nat] : IsRun(f, n, start, step)}
<1>1. 0 \in T
  <2> DEFINE f == [i \in 0 .. 0 |-> start]
  <2>1. f \in [0 .. 0 -> Nat] /\ IsRun(f, 0, start, step)
    BY DEF IsRun
  <2> QED
    BY <2>1
<1>2. ASSUME NEW n \in T PROVE n + 1 \in T
  <2>1. PICK g \in [0 .. n -> Nat] : IsRun(g, n, start, step)
    OBVIOUS
  <2>2. PICK last : last = step[<<n + 1, g[n]>>]
    OBVIOUS
  <2>3. last \in Nat
    <3>1. n \in Nat /\ n + 1 \in Nat /\ g[n] \in Nat
      OBVIOUS
    <3> QED
      BY <2>2, <3>1
  <2> DEFINE f == [i \in 0 .. n + 1 |-> IF i = n + 1 THEN last ELSE g[i]]
  <2>4. f \in [0 .. n + 1 -> Nat]
    BY <2>3
  <2>5. ASSUME NEW i \in 0 .. n + 1
        PROVE  f[i] = IF i = 0 THEN start ELSE step[<<i, f[i - 1]>>]
    <3>1. CASE i = n + 1
      <4>1. n \in 0 .. n + 1 /\ n # n + 1 /\ i # 0 /\ i - 1 = n
        BY <3>1
      <4> QED
        BY <2>2, <3>1, <4>1
    <3>2. CASE i # n + 1
      <4>1. i \in 0 .. n /\ (i # 0 => i - 1 \in 0 .. n + 1 /\ i - 1 # n + 1)
        BY <3>2
      <4>2. g[i] = IF i = 0 THEN start ELSE step[<<i, g[i - 1]>>]
        BY <2>1, <4>1 DEF IsRun
      <4> QED
        BY <3>2, <4>1, <4>2
    <3> QED
      BY <3>1, <3>2
  <2>6. f = [i \in 0 .. n + 1 |-> f[i]]
    OBVIOUS
  <2> HIDE DEF f
  <2>7. IsRun(f, n + 1, start, step)
    BY <2>5, <2>6 DEF IsRun
  <2>8. \E h \in [0 .. n + 1 -> Nat] : IsRun(h, n + 1, start, step)
    BY <2>4, <2>7, Zenon
  <2> QED
    BY <2>8
<1> HIDE DEF T
<1>3. T = Nat
  <2>1. T \in SUBSET Nat
    BY DEF T
  <2> QED
    BY <1>1, <1>2, <2>1, Stepwise
<1> QED
  BY <1>3 DEF T

\* More values go on from fewer.
LEMMA RunsAgree ==
    ASSUME NEW start, NEW step, NEW m \in Nat, NEW n \in Nat, m <= n,
           NEW f, IsRun(f, m, start, step), NEW g, IsRun(g, n, start, step)
    PROVE  \A i \in 0 .. m : f[i] = g[i]
<1> DEFINE T == {i \in Nat : i <= m => f[i] = g[i]}
<1>1. 0 \in T
  BY DEF IsRun
<1>2. ASSUME NEW i \in T PROVE i + 1 \in T
  <2>1. i \in Nat /\ i + 1 # 0 /\ i + 1 - 1 = i
    OBVIOUS
  <2>2. CASE i + 1 <= m
    <3>1. i + 1 \in 0 .. m /\ i + 1 \in 0 .. n /\ f[i] = g[i]
      BY <2>1, <2>2
    <3>2. f[i + 1] = step[<<i + 1, f[i]>>] /\ g[i + 1] = step[<<i + 1, g[i]>>]
      BY <2>1, <3>1 DEF IsRun
    <3> QED
      BY <2>1, <3>1, <3>2
  <2> QED
    BY <2>1, <2>2
<1> HIDE DEF T
<1>3. T = Nat
  <2>1. T \in SUBSET Nat
    BY DEF T
  <2> QED
    BY <1>1, <1>2, <2>1, Stepwise
<1> QED
  BY <1>3 DEF T

\* There is such a function on all numbers.
LEMMA Recursion ==
    ASSUME NEW start, NEW step, IsStep(start, step)
    PROVE  \E f : IsRecursive(f, start, step)
<1> USE DEF IsStep
<1> DEFINE run == [n \in Nat |-> CHOOSE g \in [0 .. n -> Nat] : IsRun(g, n, start, step)]
           f == [n \in Nat |-> run[n][n]]
<1>1. \A n \in Nat : run[n] \in [0 .. n -> Nat] /\ IsRun(run[n], n, start, step)
  BY RunsExist
<1> HIDE DEF run
<1>2. \A n \in Nat : n \in 0 .. n /\ 0 \in 0 .. n
  OBVIOUS
<1>3. f \in [Nat -> Nat]
  BY <1>1, <1>2
<1>4. ASSUME NEW i \in Nat PROVE f[i] = IF i = 0 THEN start ELSE step[<<i, f[i - 1]>>]
  <2>1. f[i] = run[i][i] /\ i \in 0 .. i
    OBVIOUS
  <2>2. run[i][i] = IF i = 0 THEN start ELSE step[<<i, run[i][i - 1]>>]
    BY <1>1, <2>1 DEF IsRun
  <2>3. i # 0 => run[i][i - 1] = f[i - 1]
    <3>1. i # 0 => i - 1 \in Nat /\ i - 1 <= i /\ i - 1 \in 0 .. i - 1
      OBVIOUS
    <3>2. i # 0 => run[i - 1][i - 1] = run[i][i - 1]
      BY <1>1, <3>1, RunsAgree
    <3> QED
      BY <3>1, <3>2
  <2> QED
    BY <2>1, <2>2, <2>3
<1> HIDE DEF f
<1> QED
  BY <1>3, <1>4 DEF IsRecursive

-----------------------------------------------------------------------------
(* Powers of two and shifts.                                               *)

\* 1 << n.
LEMMA PowersAre ==
    /\ Pow2[0] = 1
    /\ \A n \in Nat : Pow2[n] \in Nat /\ Pow2[n] >= 1 /\ Pow2[n + 1] = 2 * Pow2[n]
<1> DEFINE step == [p \in Nat \X Nat |-> 2 * p[2]]
<1>1. IsStep(1, step)
  <2>1. step \in [Nat \X Nat -> Nat]
    OBVIOUS
  <2> QED
    BY <2>1 DEF IsStep
<1> HIDE DEF step
<1>2. PICK f : IsRecursive(f, 1, step)
  BY <1>1, Recursion
<1>3. ASSUME NEW i \in Nat, i # 0 PROVE step[<<i, f[i - 1]>>] = 2 * f[i - 1]
  BY <1>2, <1>3 DEF step, IsRecursive
<1>4. f = [i \in Nat |-> IF i = 0 THEN 1 ELSE 2 * f[i - 1]]
  BY <1>2, <1>3 DEF IsRecursive
<1>5. Pow2 = [i \in Nat |-> IF i = 0 THEN 1 ELSE 2 * Pow2[i - 1]]
  BY <1>4, Zenon DEF Pow2
<1>6. Pow2[0] = 1
  BY <1>5
<1>7. \A n \in Nat : Pow2[n + 1] = 2 * Pow2[n]
  <2> SUFFICES ASSUME NEW n \in Nat PROVE Pow2[n + 1] = 2 * Pow2[n]
    OBVIOUS
  <2>1. n + 1 \in Nat /\ n + 1 # 0 /\ n + 1 - 1 = n
    OBVIOUS
  <2> QED
    BY <1>5, <2>1
<1> DEFINE T == {n \in Nat : Pow2[n] \in Nat /\ Pow2[n] >= 1}
<1>8. 0 \in T /\ \A n \in T : n + 1 \in T
  BY <1>6, <1>7
<1> HIDE DEF T
<1>9. T = Nat
  <2>1. T \in SUBSET Nat
    BY DEF T
  <2> QED
    BY <1>8, <2>1, Stepwise
<1>10. ASSUME NEW n \in Nat PROVE Pow2[n] \in Nat /\ Pow2[n] >= 1
  <2>1. n \in T
    BY <1>9
  <2> QED
    BY <2>1 DEF T
<1> QED
  BY <1>6, <1>7, <1>10

\* k >> n.
LEMMA ShiftsAre ==
    ASSUME NEW k \in Nat
    PROVE  /\ Shifted(k, 0) = k
           /\ \A n \in Nat : Shifted(k, n) \in Nat /\ Shifted(k, n + 1) = Shifted(k, n) \div 2
<1> DEFINE step == [p \in Nat \X Nat |-> p[2] \div 2]
<1>1. IsStep(k, step)
  <2>1. step \in [Nat \X Nat -> Nat]
    OBVIOUS
  <2> QED
    BY <2>1 DEF IsStep
<1> HIDE DEF step
<1>2. PICK f : IsRecursive(f, k, step)
  BY <1>1, Recursion
<1>3. ASSUME NEW i \in Nat, i # 0 PROVE step[<<i, f[i - 1]>>] = f[i - 1] \div 2
  BY <1>2, <1>3 DEF step, IsRecursive
<1>4. f = [i \in Nat |-> IF i = 0 THEN k ELSE f[i - 1] \div 2]
  BY <1>2, <1>3 DEF IsRecursive
<1> DEFINE after == CHOOSE g : g = [i \in Nat |-> IF i = 0 THEN k ELSE g[i - 1] \div 2]
<1>5. after = [i \in Nat |-> IF i = 0 THEN k ELSE after[i - 1] \div 2]
  BY <1>4, Zenon
<1>6. \A n : Shifted(k, n) = after[n]
  BY DEF Shifted
<1> HIDE DEF after
<1>7. after[0] = k
  BY <1>5
<1>8. \A n \in Nat : after[n + 1] = after[n] \div 2
  <2> SUFFICES ASSUME NEW n \in Nat PROVE after[n + 1] = after[n] \div 2
    OBVIOUS
  <2>1. n + 1 \in Nat /\ n + 1 # 0 /\ n + 1 - 1 = n
    OBVIOUS
  <2> QED
    BY <1>5, <2>1
<1> DEFINE T == {n \in Nat : after[n] \in Nat}
<1>9. 0 \in T /\ \A n \in T : n + 1 \in T
  BY <1>7, <1>8
<1> HIDE DEF T
<1>10. T = Nat
  <2>1. T \in SUBSET Nat
    BY DEF T
  <2> QED
    BY <1>9, <2>1, Stepwise
<1>11. ASSUME NEW n \in Nat PROVE after[n] \in Nat
  <2>1. n \in T
    BY <1>10
  <2> QED
    BY <2>1 DEF T
<1> QED
  BY <1>6, <1>7, <1>8, <1>11

\* A bit.
LEMMA BitIs == \A k \in Nat, n \in Nat : Shifted(k, n) % 2 \in {0, 1}
<1> SUFFICES ASSUME NEW k \in Nat, NEW n \in Nat PROVE Shifted(k, n) % 2 \in {0, 1}
  OBVIOUS
<1>1. Shifted(k, n) \in Nat
  BY ShiftsAre
<1> QED
  BY <1>1

-----------------------------------------------------------------------------
(* Bits in the opposite order.                                             *)

\* A number made of bits is the value of a recursion over them.
LEMMA NumberIs ==
    ASSUME NEW n \in Nat, NEW bits, NEW f \in [Nat -> Nat], f[0] = 0,
           \A i \in 1 .. n : f[i] = 2 * f[i - 1] + bits[i]
    PROVE  Number(bits, n) = f[n]
<1> DEFINE first == CHOOSE g : g = [i \in 0 .. n |-> IF i = 0 THEN 0 ELSE 2 * g[i - 1] + bits[i]]
           run == [i \in 0 .. n |-> f[i]]
<1>1. run = [i \in 0 .. n |-> IF i = 0 THEN 0 ELSE 2 * run[i - 1] + bits[i]]
  <2>1. ASSUME NEW i \in 0 .. n PROVE run[i] = IF i = 0 THEN 0 ELSE 2 * run[i - 1] + bits[i]
    <3>1. i # 0 => i \in 1 .. n /\ i - 1 \in 0 .. n
      OBVIOUS
    <3> QED
      BY <3>1
  <2>2. run = [i \in 0 .. n |-> run[i]]
    OBVIOUS
  <2> HIDE DEF run
  <2> QED
    BY <2>1, <2>2
<1>2. first = [i \in 0 .. n |-> IF i = 0 THEN 0 ELSE 2 * first[i - 1] + bits[i]]
  BY <1>1, Zenon
<1>3. Number(bits, n) = first[n]
  BY DEF Number
<1> HIDE DEF first
<1> DEFINE T == {i \in Nat : i <= n => first[i] = f[i]}
<1>4. 0 \in T
  BY <1>2
<1>5. ASSUME NEW i \in T PROVE i + 1 \in T
  <2>1. i \in Nat /\ i + 1 # 0 /\ i + 1 - 1 = i
    OBVIOUS
  <2>2. CASE i + 1 <= n
    <3>1. i + 1 \in 1 .. n /\ i + 1 \in 0 .. n /\ first[i] = f[i]
      BY <2>1, <2>2
    <3>2. first[i + 1] = 2 * first[i] + bits[i + 1]
      <4>1. \A m \in 0 .. n : first[m] = IF m = 0 THEN 0 ELSE 2 * first[m - 1] + bits[m]
        BY <1>2
      <4>2. PICK m \in 0 .. n : m = i + 1 /\ m # 0 /\ m - 1 = i
        BY <2>1, <3>1
      <4>3. first[m] = 2 * first[m - 1] + bits[m]
        BY <4>1, <4>2
      <4> QED
        BY <4>2, <4>3
    <3>3. f[i + 1] = 2 * f[i] + bits[i + 1]
      BY <2>1, <3>1
    <3> QED
      BY <2>1, <3>1, <3>2, <3>3
  <2> QED
    BY <2>1, <2>2
<1> HIDE DEF T
<1>6. n \in T
  <2>1. T \in SUBSET Nat
    BY DEF T
  <2> QED
    BY <1>4, <1>5, <2>1, Stepwise
<1> QED
  BY <1>3, <1>6 DEF T

\* The number that the lowest n bits of k make in the opposite order.
Rev(n, k) == Number([i \in 1 .. n |-> Shifted(k, i - 1) % 2], n)

\* The bits in the opposite order, from those of half the number.
LEMMA RevIs ==
    ASSUME NEW k \in Nat
    PROVE  /\ Rev(0, k) = 0
           /\ \A n \in Nat : Rev(n, k) \in Nat /\ Rev(n + 1, k) = 2 * Rev(n, k) + (Shifted(k, n) % 2)
<1> DEFINE step == [p \in Nat \X Nat |-> IF p[1] = 0 THEN 0 ELSE 2 * p[2] + (Shifted(k, p[1] - 1) % 2)]
<1>1. ASSUME NEW i \in Nat \ {0} PROVE Shifted(k, i - 1) % 2 \in {0, 1}
  <2>1. i - 1 \in Nat
    OBVIOUS
  <2>2. Shifted(k, i - 1) \in Nat
    BY <2>1, ShiftsAre
  <2> QED
    BY <2>2
<1>2. IsStep(0, step)
  <2>1. ASSUME NEW p \in Nat \X Nat
        PROVE  (IF p[1] = 0 THEN 0 ELSE 2 * p[2] + (Shifted(k, p[1] - 1) % 2)) \in Nat
    <3>1. p[1] \in Nat /\ p[2] \in Nat
      OBVIOUS
    <3>2. CASE p[1] # 0
      <4>1. PICK bit \in {0, 1} : bit = Shifted(k, p[1] - 1) % 2
        BY <1>1, <3>1, <3>2
      <4>2. PICK m \in Nat : m = p[2]
        BY <3>1
      <4>3. 2 * m + bit \in Nat
        BY <4>2
      <4> QED
        BY <3>2, <4>1, <4>2, <4>3
    <3> QED
      BY <3>2
  <2> QED
    BY <2>1 DEF IsStep
<1> HIDE DEF step
<1>3. PICK f : IsRecursive(f, 0, step)
  BY <1>2, Recursion
<1>4. f \in [Nat -> Nat] /\ f[0] = 0
  BY <1>3 DEF IsRecursive
<1>5. ASSUME NEW i \in Nat \ {0} PROVE f[i] = 2 * f[i - 1] + (Shifted(k, i - 1) % 2)
  <2>1. f[i] = step[<<i, f[i - 1]>>] /\ f[i - 1] \in Nat
    BY <1>3, <1>4 DEF IsRecursive
  <2> QED
    BY <2>1 DEF step
<1>6. ASSUME NEW n \in Nat PROVE Rev(n, k) = f[n]
  <2> DEFINE bits == [i \in 1 .. n |-> Shifted(k, i - 1) % 2]
  <2>1. \A i \in 1 .. n : f[i] = 2 * f[i - 1] + bits[i]
    <3> SUFFICES ASSUME NEW i \in 1 .. n PROVE f[i] = 2 * f[i - 1] + bits[i]
      OBVIOUS
    <3>1. bits[i] = Shifted(k, i - 1) % 2 /\ i \in Nat \ {0}
      OBVIOUS
    <3> HIDE DEF bits
    <3>2. f[i] = 2 * f[i - 1] + (Shifted(k, i - 1) % 2)
      BY <1>5, <3>1
    <3> QED
      BY <3>1, <3>2
  <2>2. Rev(n, k) = Number(bits, n)
    BY DEF Rev
  <2> HIDE DEF bits
  <2> QED
    BY <1>4, <2>1, <2>2, NumberIs
<1>7. ASSUME NEW n \in Nat PROVE f[n] \in Nat /\ f[n + 1] = 2 * f[n] + (Shifted(k, n) % 2)
  <2>1. n + 1 \in Nat \ {0} /\ n + 1 - 1 = n
    OBVIOUS
  <2> QED
    BY <1>4, <1>5, <2>1
<1> QED
  BY <1>4, <1>6, <1>7

\* The swaps and the rotation put a word in the opposite order.
LEMMA SwapsReverse ==
    ASSUME NEW w, DOMAIN w = 0 .. 31
    PROVE  LET swapped == SwapGroups(SwapGroups(SwapGroups(SwapGroups(w, 1), 2), 4), 8)
               word == RotateRight(swapped, 16)
           IN  \A i \in 0 .. 31 : word[i] = w[31 - i]
<1>1. PICK a : a = SwapGroups(w, 1)
  OBVIOUS
<1>2. PICK b : b = SwapGroups(a, 2)
  OBVIOUS
<1>3. PICK c : c = SwapGroups(b, 4)
  OBVIOUS
<1>4. PICK d : d = SwapGroups(c, 8)
  OBVIOUS
<1>5. PICK e : e = RotateRight(d, 16)
  OBVIOUS
<1>6. DOMAIN a = 0 .. 31 /\ \A i \in 0 .. 31 : a[i] = w[2 * (i \div 2) + 1 - (i % 2)]
  <2>1. DOMAIN a = 0 .. 31 /\ \A i \in 0 .. 31 : a[i] = IF (i \div 1) % 2 = 0 THEN w[i + 1] ELSE w[i - 1]
    BY <1>1 DEF SwapGroups
  <2>2. ASSUME NEW i \in 0 .. 31
        PROVE  2 * (i \div 2) + 1 - (i % 2) = IF (i \div 1) % 2 = 0 THEN i + 1 ELSE i - 1
    OBVIOUS
  <2> QED
    BY <2>1, <2>2
<1>7. DOMAIN b = 0 .. 31 /\ \A i \in 0 .. 31 : b[i] = w[4 * (i \div 4) + 3 - (i % 4)]
  <2>1. DOMAIN b = 0 .. 31 /\ \A i \in 0 .. 31 : b[i] = IF (i \div 2) % 2 = 0 THEN a[i + 2] ELSE a[i - 2]
    BY <1>2, <1>6 DEF SwapGroups
  <2>2. ASSUME NEW i \in 0 .. 31, NEW j, j = IF (i \div 2) % 2 = 0 THEN i + 2 ELSE i - 2
        PROVE  j \in 0 .. 31 /\ 2 * (j \div 2) + 1 - (j % 2) = 4 * (i \div 4) + 3 - (i % 4)
    BY <2>2
  <2> QED
    BY <1>6, <2>1, <2>2
<1>8. DOMAIN c = 0 .. 31 /\ \A i \in 0 .. 31 : c[i] = w[8 * (i \div 8) + 7 - (i % 8)]
  <2>1. DOMAIN c = 0 .. 31 /\ \A i \in 0 .. 31 : c[i] = IF (i \div 4) % 2 = 0 THEN b[i + 4] ELSE b[i - 4]
    BY <1>3, <1>7 DEF SwapGroups
  <2>2. ASSUME NEW i \in 0 .. 31, NEW j, j = IF (i \div 4) % 2 = 0 THEN i + 4 ELSE i - 4
        PROVE  j \in 0 .. 31 /\ 4 * (j \div 4) + 3 - (j % 4) = 8 * (i \div 8) + 7 - (i % 8)
    BY <2>2
  <2> QED
    BY <1>7, <2>1, <2>2
<1>9. DOMAIN d = 0 .. 31 /\ \A i \in 0 .. 31 : d[i] = w[16 * (i \div 16) + 15 - (i % 16)]
  <2>1. DOMAIN d = 0 .. 31 /\ \A i \in 0 .. 31 : d[i] = IF (i \div 8) % 2 = 0 THEN c[i + 8] ELSE c[i - 8]
    BY <1>4, <1>8 DEF SwapGroups
  <2>2. ASSUME NEW i \in 0 .. 31, NEW j, j = IF (i \div 8) % 2 = 0 THEN i + 8 ELSE i - 8
        PROVE  j \in 0 .. 31 /\ 8 * (j \div 8) + 7 - (j % 8) = 16 * (i \div 16) + 15 - (i % 16)
    BY <2>2
  <2> QED
    BY <1>8, <2>1, <2>2
<1>10. \A i \in 0 .. 31 : e[i] = w[31 - i]
  <2>1. \A i \in 0 .. 31 : e[i] = d[(i + 16) % 32]
    BY <1>5, <1>9 DEF RotateRight, Word
  <2>2. ASSUME NEW i \in 0 .. 31, NEW j, j = (i + 16) % 32
        PROVE  j \in 0 .. 31 /\ 16 * (j \div 16) + 15 - (j % 16) = 31 - i
    BY <2>2
  <2> QED
    BY <1>9, <2>1, <2>2
<1> QED
  BY <1>1, <1>2, <1>3, <1>4, <1>5, <1>10, Zenon

\* What the program computes of an index.
LEMMA BitReverseIs ==
    ASSUME NEW k \in Nat, NEW bits \in 0 .. 31
    PROVE  BitReverse(k, bits) = Rev(bits, k)
<1>1. PICK w : w = BitsOf(k)
  OBVIOUS
<1>2. DOMAIN w = 0 .. 31 /\ \A i \in 0 .. 31 : w[i] = Shifted(k, i) % 2
  BY <1>1 DEF BitsOf, Word
<1>3. PICK word : word = RotateRight(SwapGroups(SwapGroups(SwapGroups(SwapGroups(w, 1), 2), 4), 8), 16)
  OBVIOUS
<1>4. \A i \in 0 .. 31 : word[i] = w[31 - i]
  BY <1>2, <1>3, SwapsReverse
<1>5. BitReverse(k, bits) = Number([i \in 1 .. bits |-> word[Word - i]], bits)
  BY <1>1, <1>3, Zenon DEF BitReverse
<1>6. ASSUME NEW i \in 1 .. bits PROVE word[Word - i] = Shifted(k, i - 1) % 2
  <2>1. Word - i \in 0 .. 31 /\ 31 - (Word - i) = i - 1 /\ i - 1 \in 0 .. 31
    BY DEF Word
  <2> QED
    BY <1>2, <1>4, <2>1
<1>7. [i \in 1 .. bits |-> word[Word - i]] = [i \in 1 .. bits |-> Shifted(k, i - 1) % 2]
  BY <1>6
<1> QED
  BY <1>5, <1>7, Zenon DEF Rev

\* A shift of a number below a power of two, and of the number with that power
\* added.
LEMMA ShiftsFit ==
    ASSUME NEW n \in Nat, NEW x \in Nat, x < Pow2[n]
    PROVE  \A i \in 0 .. n : /\ Shifted(x, i) < Pow2[n - i]
                             /\ Shifted(Pow2[n] + x, i) = Pow2[n - i] + Shifted(x, i)
<1> DEFINE T == {i \in Nat : i <= n => /\ Shifted(x, i) < Pow2[n - i]
                                       /\ Shifted(Pow2[n] + x, i) = Pow2[n - i] + Shifted(x, i)}
<1>1. Pow2[n] \in Nat /\ Pow2[n] + x \in Nat
  BY PowersAre
<1>2. 0 \in T
  <2>1. Shifted(x, 0) = x /\ Shifted(Pow2[n] + x, 0) = Pow2[n] + x /\ n - 0 = n
    BY <1>1, ShiftsAre
  <2> QED
    BY <2>1
<1>3. ASSUME NEW i \in T PROVE i + 1 \in T
  <2>1. i \in Nat /\ i + 1 \in Nat
    OBVIOUS
  <2>2. CASE i + 1 <= n
    <3>1. n - (i + 1) \in Nat /\ n - (i + 1) + 1 = n - i
      BY <2>1, <2>2
    <3>2. PICK p \in Nat : p = Pow2[n - (i + 1)] /\ Pow2[n - i] = 2 * p
      BY <3>1, PowersAre
    <3>3. PICK a, b : a = Shifted(x, i) /\ b = Shifted(Pow2[n] + x, i)
      OBVIOUS
    <3>4. a \in Nat /\ Shifted(x, i + 1) = a \div 2
      BY <2>1, <3>3, ShiftsAre
    <3>5. b \in Nat /\ Shifted(Pow2[n] + x, i + 1) = b \div 2
      BY <1>1, <2>1, <3>3, ShiftsAre
    <3>6. a < 2 * p /\ b = 2 * p + a
      BY <2>2, <3>2, <3>3
    <3>7. a \div 2 < p /\ b \div 2 = p + (a \div 2)
      BY <3>4, <3>5, <3>6
    <3> QED
      BY <2>1, <3>2, <3>4, <3>5, <3>7
  <2> QED
    BY <2>1, <2>2
<1> HIDE DEF T
<1>4. T = Nat
  <2>1. T \in SUBSET Nat
    BY DEF T
  <2> QED
    BY <1>2, <1>3, <2>1, Stepwise
<1> SUFFICES ASSUME NEW i \in 0 .. n
             PROVE  /\ Shifted(x, i) < Pow2[n - i]
                    /\ Shifted(Pow2[n] + x, i) = Pow2[n - i] + Shifted(x, i)
  OBVIOUS
<1>5. i \in T
  BY <1>4
<1> QED
  BY <1>5 DEF T

\* So many bits make a number below that power of two.
LEMMA RevFits == \A n \in Nat, k \in Nat : Rev(n, k) < Pow2[n]
<1> SUFFICES ASSUME NEW k \in Nat PROVE \A n \in Nat : Rev(n, k) < Pow2[n]
  OBVIOUS
<1> DEFINE T == {n \in Nat : Rev(n, k) < Pow2[n]}
<1>1. 0 \in T
  <2>1. 0 \in Nat /\ Rev(0, k) = 0 /\ Pow2[0] = 1
    BY RevIs, PowersAre
  <2> QED
    BY <2>1
<1>2. ASSUME NEW n \in T PROVE n + 1 \in T
  <2>1. n \in Nat /\ n + 1 \in Nat
    OBVIOUS
  <2>2. PICK p \in Nat, r \in Nat : p = Pow2[n] /\ r = Rev(n, k) /\ r < p
    BY <2>1, PowersAre, RevIs
  <2>3. PICK bit \in {0, 1} : bit = Shifted(k, n) % 2
    BY <2>1, BitIs
  <2>4. Pow2[n + 1] = 2 * p /\ Rev(n + 1, k) = 2 * r + bit
    BY <2>1, <2>2, <2>3, PowersAre, RevIs
  <2>5. 2 * r + bit < 2 * p
    BY <2>2
  <2> QED
    BY <2>1, <2>4, <2>5
<1> HIDE DEF T
<1>3. T = Nat
  <2>1. T \in SUBSET Nat
    BY DEF T
  <2> QED
    BY <1>1, <1>2, <2>1, Stepwise
<1>4. ASSUME NEW n \in Nat PROVE Rev(n, k) < Pow2[n]
  <2>1. n \in T
    BY <1>3
  <2> QED
    BY <2>1 DEF T
<1> QED
  BY <1>4

\* The lowest bit becomes the highest.
LEMMA RevSplits ==
    ASSUME NEW k \in Nat
    PROVE  \A n \in Nat : Rev(n + 1, k) = (IF k % 2 = 0 THEN 0 ELSE Pow2[n]) + Rev(n, k \div 2)
<1>1. k \div 2 \in Nat
  OBVIOUS
<1>2. \A n \in Nat : Shifted(k, n + 1) = Shifted(k \div 2, n)
  <2> DEFINE T == {n \in Nat : Shifted(k, n + 1) = Shifted(k \div 2, n)}
  <2>1. 0 \in T
    <3>1. Shifted(k, 0) = k /\ Shifted(k \div 2, 0) = k \div 2 /\ Shifted(k, 0 + 1) = Shifted(k, 0) \div 2
      BY <1>1, ShiftsAre
    <3> QED
      BY <3>1
  <2>2. ASSUME NEW n \in T PROVE n + 1 \in T
    <3>1. n \in Nat /\ n + 1 \in Nat /\ Shifted(k, n + 1) = Shifted(k \div 2, n)
      OBVIOUS
    <3>2. Shifted(k, n + 1 + 1) = Shifted(k, n + 1) \div 2
      BY <3>1, ShiftsAre
    <3>3. Shifted(k \div 2, n + 1) = Shifted(k \div 2, n) \div 2
      BY <1>1, <3>1, ShiftsAre
    <3> QED
      BY <3>1, <3>2, <3>3
  <2> HIDE DEF T
  <2>3. T = Nat
    <3>1. T \in SUBSET Nat
      BY DEF T
    <3> QED
      BY <2>1, <2>2, <3>1, Stepwise
  <2>4. ASSUME NEW n \in Nat PROVE Shifted(k, n + 1) = Shifted(k \div 2, n)
    <3>1. n \in T
      BY <2>3
    <3> QED
      BY <3>1 DEF T
  <2> QED
    BY <2>4
<1>3. PICK low \in {0, 1} : low = k % 2
  OBVIOUS
<1> DEFINE High(n) == IF low = 0 THEN 0 ELSE Pow2[n]
           T == {n \in Nat : Rev(n + 1, k) = High(n) + Rev(n, k \div 2)}
<1>4. 0 \in T
  <2>1. Rev(0, k) = 0 /\ Rev(0, k \div 2) = 0 /\ Rev(0 + 1, k) = 2 * Rev(0, k) + (Shifted(k, 0) % 2)
    BY <1>1, RevIs
  <2>2. Shifted(k, 0) = k /\ Pow2[0] = 1
    BY ShiftsAre, PowersAre
  <2> QED
    BY <1>3, <2>1, <2>2
<1>5. ASSUME NEW n \in T PROVE n + 1 \in T
  <2>1. n \in Nat /\ n + 1 \in Nat
    OBVIOUS
  <2>2. PICK p \in Nat, r \in Nat : p = Pow2[n] /\ r = Rev(n, k \div 2)
    BY <1>1, <2>1, PowersAre, RevIs
  <2>3. PICK bit \in {0, 1} : bit = Shifted(k \div 2, n) % 2
    BY <1>1, <2>1, BitIs
  <2>4. Pow2[n + 1] = 2 * p /\ Rev(n + 1, k \div 2) = 2 * r + bit
    BY <1>1, <2>1, <2>2, <2>3, PowersAre, RevIs
  <2>5. Rev(n + 1 + 1, k) = 2 * Rev(n + 1, k) + bit
    <3>1. Rev(n + 1 + 1, k) = 2 * Rev(n + 1, k) + (Shifted(k, n + 1) % 2)
      BY <2>1, RevIs
    <3>2. Shifted(k, n + 1) = Shifted(k \div 2, n)
      BY <1>2, <2>1
    <3> QED
      BY <2>3, <3>1, <3>2
  <2>6. Rev(n + 1, k) = (IF low = 0 THEN 0 ELSE p) + r
    BY <2>2
  <2> QED
    BY <2>1, <2>4, <2>5, <2>6
<1> HIDE DEF T
<1>6. T = Nat
  <2>1. T \in SUBSET Nat
    BY DEF T
  <2> QED
    BY <1>4, <1>5, <2>1, Stepwise
<1>7. ASSUME NEW n \in Nat PROVE Rev(n + 1, k) = (IF k % 2 = 0 THEN 0 ELSE Pow2[n]) + Rev(n, k \div 2)
  <2>1. n \in T
    BY <1>6
  <2> QED
    BY <1>3, <2>1 DEF T
<1> QED
  BY <1>7

\* A bit above the reversed ones does not matter.
LEMMA RevOfLow ==
    ASSUME NEW n \in Nat, NEW x \in Nat, x < Pow2[n]
    PROVE  Rev(n, Pow2[n] + x) = Rev(n, x)
<1>1. Pow2[n] + x \in Nat
  BY PowersAre
<1> DEFINE T == {i \in Nat : i <= n => Rev(i, Pow2[n] + x) = Rev(i, x)}
<1>2. 0 \in T
  BY <1>1, RevIs
<1>3. ASSUME NEW i \in T PROVE i + 1 \in T
  <2>1. i \in Nat /\ i + 1 \in Nat
    OBVIOUS
  <2>2. CASE i + 1 <= n
    <3>1. i \in 0 .. n /\ n - (i + 1) \in Nat /\ n - (i + 1) + 1 = n - i
      BY <2>1, <2>2
    <3>2. PICK p \in Nat : Pow2[n - i] = 2 * p
      BY <3>1, PowersAre
    <3>3. PICK a \in Nat : a = Shifted(x, i) /\ Shifted(Pow2[n] + x, i) = 2 * p + a
      <4>1. Shifted(x, i) \in Nat
        BY <2>1, ShiftsAre
      <4>2. Shifted(Pow2[n] + x, i) = Pow2[n - i] + Shifted(x, i)
        BY <3>1, ShiftsFit
      <4> QED
        BY <3>2, <4>1, <4>2
    <3>4. (2 * p + a) % 2 = a % 2
      OBVIOUS
    <3>5. Rev(i + 1, x) = 2 * Rev(i, x) + (a % 2)
      BY <2>1, <3>3, RevIs
    <3>6. Rev(i + 1, Pow2[n] + x) = 2 * Rev(i, Pow2[n] + x) + (a % 2)
      <4>1. Rev(i + 1, Pow2[n] + x) = 2 * Rev(i, Pow2[n] + x) + (Shifted(Pow2[n] + x, i) % 2)
        BY <1>1, <2>1, RevIs
      <4>2. Shifted(Pow2[n] + x, i) % 2 = a % 2
        BY <3>3, <3>4
      <4> QED
        BY <4>1, <4>2
    <3> QED
      BY <2>1, <3>1, <3>5, <3>6
  <2> QED
    BY <2>1, <2>2
<1> HIDE DEF T
<1>4. n \in T
  <2>1. T \in SUBSET Nat
    BY DEF T
  <2> QED
    BY <1>2, <1>3, <2>1, Stepwise
<1> QED
  BY <1>4 DEF T

\* Reversing twice is nothing.
LEMMA RevTwice == \A n \in Nat : \A k \in 0 .. Pow2[n] - 1 : Rev(n, Rev(n, k)) = k
<1> DEFINE T == {n \in Nat : \A k \in 0 .. Pow2[n] - 1 : Rev(n, Rev(n, k)) = k}
<1>1. 0 \in T
  <2> SUFFICES ASSUME NEW k \in 0 .. Pow2[0] - 1 PROVE Rev(0, Rev(0, k)) = k
    OBVIOUS
  <2>1. k = 0 /\ 0 \in Nat
    BY PowersAre
  <2> QED
    BY <2>1, RevIs
<1>2. ASSUME NEW n \in T PROVE n + 1 \in T
  <2>1. n \in Nat /\ n + 1 \in Nat
    OBVIOUS
  <2> SUFFICES ASSUME NEW k \in 0 .. Pow2[n + 1] - 1 PROVE Rev(n + 1, Rev(n + 1, k)) = k
    BY <2>1
  <2>2. PICK p \in Nat : p = Pow2[n] /\ Pow2[n + 1] = 2 * p
    BY <2>1, PowersAre
  <2>3. k \in Nat /\ k \div 2 \in 0 .. p - 1
    BY <2>2
  <2>4. PICK y \in Nat : y = Rev(n, k \div 2) /\ y < p
    <3>1. k \div 2 \in Nat
      BY <2>3
    <3> QED
      BY <2>1, <2>2, <3>1, RevIs, RevFits
  <2>5. Rev(n, y) = k \div 2
    BY <2>2, <2>3, <2>4
  <2>6. PICK m : m = Rev(n + 1, k)
    OBVIOUS
  <2>7. m = (IF k % 2 = 0 THEN 0 ELSE p) + y
    BY <2>1, <2>2, <2>3, <2>4, <2>6, RevSplits
  <2>8. m \in Nat
    BY <2>4, <2>7
  <2>9. Rev(n, m) = k \div 2
    <3>1. CASE k % 2 = 0
      BY <2>4, <2>5, <2>7, <3>1
    <3>2. CASE k % 2 # 0
      <4>1. m = Pow2[n] + y
        BY <2>2, <2>7, <3>2
      <4> QED
        BY <2>1, <2>2, <2>4, <2>5, <4>1, RevOfLow
    <3> QED
      BY <3>1, <3>2
  <2>10. Shifted(m, n) = k % 2
    <3>1. n \in 0 .. n /\ n - n = 0
      BY <2>1
    <3>2. Shifted(y, n) < Pow2[0] /\ Shifted(Pow2[n] + y, n) = Pow2[0] + Shifted(y, n)
      BY <2>1, <2>2, <2>4, <3>1, ShiftsFit
    <3>3. Shifted(y, n) = 0 /\ Shifted(Pow2[n] + y, n) = 1
      <4>1. Shifted(y, n) \in Nat /\ Pow2[0] = 1
        BY <2>1, <2>4, ShiftsAre, PowersAre
      <4> QED
        BY <3>2, <4>1
    <3>4. CASE k % 2 = 0
      BY <2>4, <2>7, <3>3, <3>4
    <3>5. CASE k % 2 = 1
      BY <2>2, <2>4, <2>7, <3>3, <3>5
    <3> QED
      BY <2>3, <3>4, <3>5
  <2>11. Rev(n + 1, m) = 2 * (k \div 2) + ((k % 2) % 2)
    BY <2>1, <2>8, <2>9, <2>10, RevIs
  <2>12. 2 * (k \div 2) + ((k % 2) % 2) = k
    BY <2>3
  <2> QED
    BY <2>6, <2>11, <2>12
<1> HIDE DEF T
<1>3. T = Nat
  <2>1. T \in SUBSET Nat
    BY DEF T
  <2> QED
    BY <1>1, <1>2, <2>1, Stepwise
<1>4. ASSUME NEW n \in Nat PROVE \A k \in 0 .. Pow2[n] - 1 : Rev(n, Rev(n, k)) = k
  <2>1. n \in T
    BY <1>3
  <2> QED
    BY <2>1 DEF T
<1> QED
  BY <1>4


-----------------------------------------------------------------------------
(* Trees.                                                                  *)

\* The powers of two grow.
LEMMA PowersGrow == \A n \in Nat : \A m \in 0 .. n : Pow2[m] <= Pow2[n]
<1> DEFINE T == {n \in Nat : \A m \in 0 .. n : Pow2[m] <= Pow2[n]}
<1>1. 0 \in T
  BY PowersAre
<1>2. ASSUME NEW n \in T PROVE n + 1 \in T
  <2>1. n \in Nat /\ n + 1 \in Nat
    OBVIOUS
  <2> SUFFICES ASSUME NEW m \in 0 .. n + 1 PROVE Pow2[m] <= Pow2[n + 1]
    BY <2>1
  <2>2. PICK p \in Nat : p = Pow2[n] /\ Pow2[n + 1] = 2 * p
    BY <2>1, PowersAre
  <2>3. CASE m = n + 1
    BY <2>2, <2>3
  <2>4. CASE m # n + 1
    <3>1. m \in 0 .. n /\ m \in Nat
      BY <2>1, <2>4
    <3>2. PICK q \in Nat : q = Pow2[m]
      BY <3>1, PowersAre
    <3>3. q <= p
      BY <2>2, <3>1, <3>2
    <3> QED
      BY <2>2, <3>2, <3>3
  <2> QED
    BY <2>3, <2>4
<1> HIDE DEF T
<1>3. T = Nat
  <2>1. T \in SUBSET Nat
    BY DEF T
  <2> QED
    BY <1>1, <1>2, <2>1, Stepwise
<1>4. ASSUME NEW n \in Nat PROVE \A m \in 0 .. n : Pow2[m] <= Pow2[n]
  <2>1. n \in T
    BY <1>3
  <2> QED
    BY <2>1 DEF T
<1> QED
  BY <1>4

\* L has the layers over the digests, up to the mth.
Above(L, d, depth) ==
    [i \in 1 .. Pow2[depth - d] |-> <<L[d - 1][2 * i - 1], L[d - 1][2 * i]>>]

Layers(L, m, digests, depth) ==
    L = [d \in 0 .. m |-> IF d = 0 THEN digests ELSE Above(L, d, depth)]

\* There are such layers.
LEMMA LayersExist ==
    ASSUME NEW digests, NEW depth \in Nat
    PROVE  \A m \in Nat : \E L : Layers(L, m, digests, depth)
<1> DEFINE T == {m \in Nat : \E L : Layers(L, m, digests, depth)}
<1>1. 0 \in T
  <2> DEFINE L == [d \in 0 .. 0 |-> digests]
  <2>1. Layers(L, 0, digests, depth)
    BY DEF Layers
  <2> QED
    BY <2>1
<1>2. ASSUME NEW m \in T PROVE m + 1 \in T
  <2>1. PICK G : Layers(G, m, digests, depth)
    OBVIOUS
  <2>2. PICK last : last = Above(G, m + 1, depth)
    OBVIOUS
  <2> DEFINE L == [d \in 0 .. m + 1 |-> IF d = m + 1 THEN last ELSE G[d]]
  <2>3. ASSUME NEW d \in 0 .. m + 1
        PROVE  L[d] = IF d = 0 THEN digests ELSE Above(L, d, depth)
    <3>1. d # 0 => d - 1 \in 0 .. m + 1 /\ d - 1 # m + 1
      OBVIOUS
    <3>2. d # 0 => L[d - 1] = G[d - 1]
      BY <3>1
    <3> HIDE DEF L
    <3>3. d # 0 => Above(L, d, depth) = Above(G, d, depth)
      BY <3>2 DEF Above
    <3>4. CASE d = m + 1
      <4>1. d # 0
        BY <3>4
      <4>2. L[d] = last
        BY <3>4 DEF L
      <4> QED
        BY <2>2, <3>3, <3>4, <4>1, <4>2
    <3>5. CASE d # m + 1
      <4>1. d \in 0 .. m
        BY <3>5
      <4>2. G[d] = IF d = 0 THEN digests ELSE Above(G, d, depth)
        BY <2>1, <4>1 DEF Layers
      <4>3. L[d] = G[d]
        BY <3>5 DEF L
      <4> QED
        BY <3>3, <4>2, <4>3
    <3> QED
      BY <3>4, <3>5
  <2>4. L = [d \in 0 .. m + 1 |-> L[d]]
    OBVIOUS
  <2> HIDE DEF L
  <2>5. Layers(L, m + 1, digests, depth)
    BY <2>3, <2>4 DEF Layers
  <2> QED
    BY <2>5
<1> HIDE DEF T
<1>3. T = Nat
  <2>1. T \in SUBSET Nat
    BY DEF T
  <2> QED
    BY <1>1, <1>2, <2>1, Stepwise
<1>4. ASSUME NEW m \in Nat PROVE \E L : Layers(L, m, digests, depth)
  <2>1. m \in T
    BY <1>3
  <2> QED
    BY <2>1 DEF T
<1> QED
  BY <1>4

\* The layers of a tree, and its root.
IsTree(L, digests, depth) ==
    /\ L[0] = digests
    /\ \A d \in 0 .. depth - 1 : \A i \in 1 .. Pow2[depth - (d + 1)] :
          L[d + 1][i] = <<L[d][2 * i - 1], L[d][2 * i]>>

\* What MerkleRoot returns is the top of the layers.
LEMMA RootIs ==
    ASSUME NEW digests, NEW depth \in Nat
    PROVE  \E L : IsTree(L, digests, depth) /\ MerkleRoot(digests, depth) = L[depth][1]
<1> DEFINE L == CHOOSE layer : layer = [d \in 0 .. depth |->
                    IF d = 0 THEN digests
                    ELSE [i \in 1 .. Pow2[depth - d] |-> <<layer[d - 1][2 * i - 1], layer[d - 1][2 * i]>>]]
<1>1. \E layer : layer = [d \in 0 .. depth |->
                    IF d = 0 THEN digests
                    ELSE [i \in 1 .. Pow2[depth - d] |-> <<layer[d - 1][2 * i - 1], layer[d - 1][2 * i]>>]]
  <2>1. PICK G : Layers(G, depth, digests, depth)
    BY LayersExist
  <2> QED
    BY <2>1, Zenon DEF Layers, Above
<1>2. L = [d \in 0 .. depth |->
              IF d = 0 THEN digests
              ELSE [i \in 1 .. Pow2[depth - d] |-> <<L[d - 1][2 * i - 1], L[d - 1][2 * i]>>]]
  BY <1>1, Zenon
<1>3. MerkleRoot(digests, depth) = L[depth][1]
  BY Zenon DEF MerkleRoot
<1> HIDE DEF L
<1>4. \A d \in 0 .. depth : L[d] = IF d = 0 THEN digests ELSE Above(L, d, depth)
  BY <1>2 DEF Above
<1>5. L[0] = digests
  BY <1>4
<1>6. ASSUME NEW d \in 0 .. depth - 1, NEW i \in 1 .. Pow2[depth - (d + 1)]
      PROVE  L[d + 1][i] = <<L[d][2 * i - 1], L[d][2 * i]>>
  <2>1. d + 1 \in 0 .. depth /\ d + 1 # 0 /\ d + 1 - 1 = d
    OBVIOUS
  <2>2. L[d + 1] = Above(L, d + 1, depth)
    BY <1>4, <2>1
  <2> QED
    BY <2>1, <2>2 DEF Above
<1> QED
  BY <1>3, <1>5, <1>6 DEF IsTree

\* A tree is the pair of the trees over the two halves.
LEMMA Halves ==
    ASSUME NEW n \in Nat, NEW s, NEW a, NEW b,
           \A i \in 1 .. Pow2[n] : s[i] = a[i] /\ s[Pow2[n] + i] = b[i]
    PROVE  MerkleRoot(s, n + 1) = <<MerkleRoot(a, n), MerkleRoot(b, n)>>
<1>1. PICK L : IsTree(L, s, n + 1) /\ MerkleRoot(s, n + 1) = L[n + 1][1]
  BY RootIs
<1>2. PICK A : IsTree(A, a, n) /\ MerkleRoot(a, n) = A[n][1]
  BY RootIs
<1>3. PICK B : IsTree(B, b, n) /\ MerkleRoot(b, n) = B[n][1]
  BY RootIs
<1> DEFINE T == {d \in Nat : d <= n => \A i \in 1 .. Pow2[n - d] :
                    L[d][i] = A[d][i] /\ L[d][Pow2[n - d] + i] = B[d][i]}
<1>4. 0 \in T
  BY <1>1, <1>2, <1>3, n - 0 = n DEF IsTree
<1>5. ASSUME NEW d \in T PROVE d + 1 \in T
  <2>1. d \in Nat /\ d + 1 \in Nat
    OBVIOUS
  <2> SUFFICES ASSUME d + 1 <= n, NEW i \in 1 .. Pow2[n - (d + 1)]
               PROVE  /\ L[d + 1][i] = A[d + 1][i]
                      /\ L[d + 1][Pow2[n - (d + 1)] + i] = B[d + 1][i]
    BY <2>1
  <2>2. /\ n - (d + 1) \in Nat /\ n - (d + 1) + 1 = n - d
        /\ n + 1 - (d + 1) = n - d /\ d \in 0 .. n - 1 /\ d \in 0 .. n + 1 - 1
    BY <2>1
  <2>3. PICK p \in Nat : p = Pow2[n - (d + 1)] /\ Pow2[n - d] = 2 * p
    BY <2>2, PowersAre
  <2>4. /\ i \in 1 .. 2 * p /\ p + i \in 1 .. 2 * p /\ i \in 1 .. p
        /\ 2 * i - 1 \in 1 .. 2 * p /\ 2 * i \in 1 .. 2 * p
        /\ 2 * (p + i) - 1 = 2 * p + (2 * i - 1) /\ 2 * (p + i) = 2 * p + 2 * i
    BY <2>3
  <2>5. /\ L[d + 1][i] = <<L[d][2 * i - 1], L[d][2 * i]>>
        /\ L[d + 1][p + i] = <<L[d][2 * (p + i) - 1], L[d][2 * (p + i)]>>
    BY <1>1, <2>2, <2>3, <2>4 DEF IsTree
  <2>6. A[d + 1][i] = <<A[d][2 * i - 1], A[d][2 * i]>> /\ B[d + 1][i] = <<B[d][2 * i - 1], B[d][2 * i]>>
    BY <1>2, <1>3, <2>2, <2>3, <2>4 DEF IsTree
  <2>7. \A j \in 1 .. 2 * p : L[d][j] = A[d][j] /\ L[d][2 * p + j] = B[d][j]
    BY <2>1, <2>3
  <2>8. /\ L[d][2 * i - 1] = A[d][2 * i - 1] /\ L[d][2 * p + (2 * i - 1)] = B[d][2 * i - 1]
        /\ L[d][2 * i] = A[d][2 * i] /\ L[d][2 * p + 2 * i] = B[d][2 * i]
    BY <2>4, <2>7
  <2> QED
    BY <2>3, <2>4, <2>5, <2>6, <2>8
<1> HIDE DEF T
<1>6. T = Nat
  <2>1. T \in SUBSET Nat
    BY DEF T
  <2> QED
    BY <1>4, <1>5, <2>1, Stepwise
<1>7. L[n][1] = A[n][1] /\ L[n][2] = B[n][1]
  <2>1. n \in T /\ n - n = 0 /\ Pow2[0] = 1 /\ n <= n
    BY <1>6, PowersAre
  <2>2. \A i \in 1 .. 1 : L[n][i] = A[n][i] /\ L[n][1 + i] = B[n][i]
    BY <2>1 DEF T
  <2> QED
    BY <2>2
<1>8. L[n + 1][1] = <<L[n][1], L[n][2]>>
  <2>1. n \in 0 .. n + 1 - 1 /\ n + 1 - (n + 1) = 0 /\ Pow2[0] = 1
    BY PowersAre
  <2>2. 1 \in 1 .. Pow2[n + 1 - (n + 1)]
    BY <2>1
  <2>3. L[n + 1][1] = <<L[n][2 * 1 - 1], L[n][2 * 1]>>
    BY <1>1, <2>1, <2>2 DEF IsTree
  <2> QED
    BY <2>3
<1> QED
  BY <1>1, <1>2, <1>3, <1>7, <1>8

\* F has the nodes of a tree, numbered from the root, which is 1; at Pow2[n]
\* its leaves begin.
IsHeap(F, n) == \A o \in 1 .. Pow2[n] - 1 : F[o] = <<F[2 * o], F[2 * o + 1]>>

\* The root over the leaves of a numbered tree is its node 1.
LEMMA HeapRoot ==
    ASSUME NEW n \in Nat, NEW F, IsHeap(F, n), NEW s,
           \A i \in 1 .. Pow2[n] : s[i] = F[Pow2[n] + i - 1]
    PROVE  MerkleRoot(s, n) = F[1]
<1>1. PICK L : IsTree(L, s, n) /\ MerkleRoot(s, n) = L[n][1]
  BY RootIs
<1> DEFINE T == {d \in Nat : d <= n => \A i \in 1 .. Pow2[n - d] : L[d][i] = F[Pow2[n - d] + i - 1]}
<1>2. 0 \in T
  BY <1>1, n - 0 = n DEF IsTree
<1>3. ASSUME NEW d \in T PROVE d + 1 \in T
  <2>1. d \in Nat /\ d + 1 \in Nat
    OBVIOUS
  <2> SUFFICES ASSUME d + 1 <= n, NEW i \in 1 .. Pow2[n - (d + 1)]
               PROVE  L[d + 1][i] = F[Pow2[n - (d + 1)] + i - 1]
    BY <2>1
  <2>2. /\ n - (d + 1) \in Nat /\ n - (d + 1) + 1 = n - d /\ d \in 0 .. n - 1
        /\ n - d \in 0 .. n
    BY <2>1
  <2>3. PICK p \in Nat : p = Pow2[n - (d + 1)] /\ Pow2[n - d] = 2 * p
    BY <2>2, PowersAre
  <2>4. PICK all \in Nat : all = Pow2[n] /\ 2 * p <= all
    <3>1. Pow2[n] \in Nat /\ Pow2[n - d] <= Pow2[n]
      BY <2>2, PowersAre, PowersGrow
    <3> QED
      BY <2>3, <3>1
  <2>5. PICK o \in Nat : o = p + i - 1
    BY <2>3
  <2>6. /\ o \in 1 .. all - 1 /\ 2 * i - 1 \in 1 .. 2 * p /\ 2 * i \in 1 .. 2 * p
        /\ 2 * p + (2 * i - 1) - 1 = 2 * o /\ 2 * p + (2 * i) - 1 = 2 * o + 1
    BY <2>3, <2>4, <2>5
  <2>7. L[d + 1][i] = <<L[d][2 * i - 1], L[d][2 * i]>>
    BY <1>1, <2>2 DEF IsTree
  <2>8. \A j \in 1 .. 2 * p : L[d][j] = F[2 * p + j - 1]
    BY <2>1, <2>3
  <2>9. L[d][2 * i - 1] = F[2 * o] /\ L[d][2 * i] = F[2 * o + 1]
    BY <2>6, <2>8
  <2>10. F[o] = <<F[2 * o], F[2 * o + 1]>>
    BY <2>4, <2>6 DEF IsHeap
  <2> QED
    BY <2>3, <2>5, <2>7, <2>9, <2>10
<1> HIDE DEF T
<1>4. T = Nat
  <2>1. T \in SUBSET Nat
    BY DEF T
  <2> QED
    BY <1>2, <1>3, <2>1, Stepwise
<1>5. n \in T /\ n - n = 0 /\ Pow2[0] = 1 /\ n <= n
  BY <1>4, PowersAre
<1>6. \A i \in 1 .. 1 : L[n][i] = F[1 + i - 1]
  BY <1>5 DEF T
<1>7. 1 + 1 - 1 = 1
  OBVIOUS
<1> QED
  BY <1>1, <1>6, <1>7


\* The first values up to the nth of the climb of Authenticates.
Climb(node, n, leaf, index, path) ==
    node = [level \in 0 .. n |->
               IF level = 0 THEN leaf
               ELSE IF Shifted(index, level - 1) % 2 = 0
               THEN <<node[level - 1], path[level]>>
               ELSE <<path[level], node[level - 1]>>]

\* There is such a climb.
LEMMA ClimbsExist ==
    ASSUME NEW leaf, NEW index, NEW path
    PROVE  \A n \in Nat : \E node : Climb(node, n, leaf, index, path)
<1> DEFINE T == {n \in Nat : \E node : Climb(node, n, leaf, index, path)}
           Up(g, level) == IF Shifted(index, level - 1) % 2 = 0
                           THEN <<g[level - 1], path[level]>>
                           ELSE <<path[level], g[level - 1]>>
<1>1. 0 \in T
  <2> DEFINE f == [level \in 0 .. 0 |-> leaf]
  <2>1. Climb(f, 0, leaf, index, path)
    BY DEF Climb
  <2> QED
    BY <2>1
<1>2. ASSUME NEW n \in T PROVE n + 1 \in T
  <2>1. PICK g : Climb(g, n, leaf, index, path)
    OBVIOUS
  <2>2. PICK last : last = Up(g, n + 1)
    OBVIOUS
  <2> DEFINE f == [level \in 0 .. n + 1 |-> IF level = n + 1 THEN last ELSE g[level]]
  <2>3. ASSUME NEW d \in 0 .. n + 1
        PROVE  f[d] = IF d = 0 THEN leaf ELSE Up(f, d)
    <3>1. d # 0 => d - 1 \in 0 .. n + 1 /\ d - 1 # n + 1
      OBVIOUS
    <3>2. d # 0 => f[d - 1] = g[d - 1]
      BY <3>1
    <3> HIDE DEF f
    <3>3. d # 0 => Up(f, d) = Up(g, d)
      BY <3>2
    <3> HIDE DEF Up
    <3>4. CASE d = n + 1
      <4>1. d # 0
        BY <3>4
      <4>2. f[d] = last
        BY <3>4 DEF f
      <4> QED
        BY <2>2, <3>3, <3>4, <4>1, <4>2
    <3>5. CASE d # n + 1
      <4>1. d \in 0 .. n
        BY <3>5
      <4>2. g[d] = IF d = 0 THEN leaf ELSE Up(g, d)
        BY <2>1, <4>1 DEF Climb, Up
      <4>3. f[d] = g[d]
        BY <3>5 DEF f
      <4> QED
        BY <3>3, <4>2, <4>3
    <3> QED
      BY <3>4, <3>5
  <2>4. f = [d \in 0 .. n + 1 |-> f[d]]
    OBVIOUS
  <2> HIDE DEF f
  <2>5. Climb(f, n + 1, leaf, index, path)
    BY <2>3, <2>4 DEF Climb
  <2> QED
    BY <2>5
<1> HIDE DEF T
<1>3. T = Nat
  <2>1. T \in SUBSET Nat
    BY DEF T
  <2> QED
    BY <1>1, <1>2, <2>1, Stepwise
<1>4. ASSUME NEW n \in Nat PROVE \E node : Climb(node, n, leaf, index, path)
  <2>1. n \in T
    BY <1>3
  <2> QED
    BY <2>1 DEF T
<1> QED
  BY <1>4

\* The siblings on the way up lead from a leaf to the root.
LEMMA PathLeads ==
    ASSUME NEW n \in Nat, NEW F, IsHeap(F, n), NEW index \in 0 .. Pow2[n] - 1,
           NEW path, Len(path) = n,
           \A k \in 1 .. n : path[k] = F[Sibling(Shifted(Pow2[n] + index, k - 1))]
    PROVE  Authenticates(F[Pow2[n] + index], index, path, F[1])
<1> DEFINE leaf == F[Pow2[n] + index]
           node == CHOOSE g : Climb(g, n, leaf, index, path)
<1>1. Climb(node, n, leaf, index, path)
  <2>1. \E g : Climb(g, n, leaf, index, path)
    BY ClimbsExist
  <2> QED
    BY <2>1, Zenon
<1>2. Authenticates(leaf, index, path, F[1]) <=> (node[n] = F[1])
  <2>1. Authenticates(leaf, index, path, F[1]) <=>
          (CHOOSE g : g = [level \in 0 .. Len(path) |->
               IF level = 0 THEN leaf
               ELSE IF Shifted(index, level - 1) % 2 = 0
               THEN <<g[level - 1], path[level]>>
               ELSE <<path[level], g[level - 1]>>])[Len(path)] = F[1]
    BY Zenon DEF Authenticates
  <2> QED
    BY <2>1, Zenon DEF Climb
<1> HIDE DEF node
<1>3. index \in Nat /\ index < Pow2[n] /\ Pow2[n] \in Nat /\ Pow2[n] + index \in Nat
  <2>1. PICK all \in Nat : all = Pow2[n]
    BY PowersAre
  <2>2. index \in Nat /\ index < all /\ all + index \in Nat
    BY <2>1
  <2> QED
    BY <2>1, <2>2
<1> DEFINE T == {i \in Nat : i <= n => node[i] = F[Shifted(Pow2[n] + index, i)]}
<1>4. 0 \in T
  <2>1. Shifted(Pow2[n] + index, 0) = Pow2[n] + index
    BY <1>3, ShiftsAre
  <2>2. node[0] = leaf
    BY <1>1 DEF Climb
  <2> QED
    BY <2>1, <2>2
<1>5. ASSUME NEW i \in T PROVE i + 1 \in T
  <2>1. i \in Nat /\ i + 1 \in Nat /\ i + 1 # 0 /\ i + 1 - 1 = i
    OBVIOUS
  <2> SUFFICES ASSUME i + 1 <= n PROVE node[i + 1] = F[Shifted(Pow2[n] + index, i + 1)]
    BY <2>1
  <2>2. n - (i + 1) \in Nat /\ n - (i + 1) + 1 = n - i /\ i \in 0 .. n /\ n - i \in 0 .. n /\ i + 1 \in 1 .. n
    BY <2>1
  <2>3. PICK p \in Nat : p = Pow2[n - (i + 1)] /\ Pow2[n - i] = 2 * p /\ p >= 1
    BY <2>2, PowersAre
  <2>4. PICK x \in Nat : /\ x = Shifted(index, i) /\ x < 2 * p
                         /\ Shifted(Pow2[n] + index, i) = 2 * p + x
    <3>1. Shifted(index, i) \in Nat
      BY <1>3, <2>1, ShiftsAre
    <3>2. Shifted(index, i) < Pow2[n - i] /\ Shifted(Pow2[n] + index, i) = Pow2[n - i] + Shifted(index, i)
      BY <1>3, <2>2, ShiftsFit
    <3> QED
      BY <2>3, <3>1, <3>2
  <2>5. 2 * p <= Pow2[n]
    BY <2>2, <2>3, PowersGrow
  <2>6. PICK o \in Nat, q \in Nat : o = 2 * p + x /\ q = o \div 2
    <3>1. PICK o \in Nat : o = 2 * p + x
      OBVIOUS
    <3>2. o \div 2 \in Nat
      BY <3>1
    <3> QED
      BY <3>1, <3>2
  <2>7. /\ o \in Nat /\ q \in 1 .. Pow2[n] - 1 /\ o % 2 = x % 2
        /\ IF x % 2 = 0 THEN 2 * q = o /\ 2 * q + 1 = o + 1 ELSE 2 * q = o - 1 /\ 2 * q + 1 = o
    <3>1. PICK all \in Nat : all = Pow2[n] /\ 2 * p <= all
      BY <1>3, <2>5
    <3>2. p >= 1 /\ x < 2 * p /\ o = 2 * p + x
      BY <2>3, <2>4, <2>6, Zenon
    <3>3. o \in Nat /\ o >= 2 /\ o < 4 * p
      BY <3>2
    <3>4. q \in Nat /\ o = 2 * q + (o % 2) /\ o % 2 \in {0, 1}
      BY <2>6, <3>3
    <3>5. o \in Nat /\ q \in Nat /\ q >= 1 /\ q < 2 * p
      BY <2>3, <3>3, <3>4
    <3>6. q \in 1 .. all - 1
      BY <3>1, <3>5
    <3>7. o % 2 = x % 2
      BY <2>4, <2>6
    <3>8. IF x % 2 = 0 THEN 2 * q = o /\ 2 * q + 1 = o + 1 ELSE 2 * q = o - 1 /\ 2 * q + 1 = o
      BY <3>3, <3>4, <3>7
    <3> QED
      BY <3>1, <3>5, <3>6, <3>7, <3>8
  <2>8. Shifted(Pow2[n] + index, i) = o /\ Shifted(Pow2[n] + index, i + 1) = q
    <3>1. Shifted(Pow2[n] + index, i + 1) = Shifted(Pow2[n] + index, i) \div 2
      BY <1>3, <2>1, ShiftsAre
    <3> QED
      BY <2>4, <2>6, <3>1
  <2>9. node[i + 1] = IF x % 2 = 0 THEN <<node[i], path[i + 1]>> ELSE <<path[i + 1], node[i]>>
    <3>1. \A level \in 0 .. n : node[level] = IF level = 0 THEN leaf
               ELSE IF Shifted(index, level - 1) % 2 = 0
               THEN <<node[level - 1], path[level]>>
               ELSE <<path[level], node[level - 1]>>
      BY <1>1 DEF Climb
    <3>2. PICK level \in 0 .. n : level = i + 1 /\ level # 0 /\ level - 1 = i
      BY <2>1, <2>2
    <3> QED
      BY <2>4, <3>1, <3>2
  <2>10. node[i] = F[o] /\ path[i + 1] = F[Sibling(o)]
    BY <2>1, <2>2, <2>8
  <2>11. F[q] = <<F[2 * q], F[2 * q + 1]>>
    BY <2>7 DEF IsHeap
  <2>12. CASE x % 2 = 0
    <3>1. Sibling(o) = 2 * q + 1 /\ o = 2 * q
      BY <2>7, <2>12 DEF Sibling
    <3> QED
      BY <2>8, <2>9, <2>10, <2>11, <2>12, <3>1
  <2>13. CASE x % 2 # 0
    <3>1. Sibling(o) = 2 * q /\ o = 2 * q + 1
      BY <2>7, <2>13 DEF Sibling
    <3> QED
      BY <2>8, <2>9, <2>10, <2>11, <2>13, <3>1
  <2> QED
    BY <2>12, <2>13
<1> HIDE DEF T
<1>6. T = Nat
  <2>1. T \in SUBSET Nat
    BY DEF T
  <2> QED
    BY <1>4, <1>5, <2>1, Stepwise
<1>7. node[n] = F[Shifted(Pow2[n] + index, n)]
  <2>1. n \in T /\ n <= n
    BY <1>6
  <2> QED
    BY <2>1 DEF T
<1>8. Shifted(Pow2[n] + index, n) = 1
  <2>1. n \in 0 .. n /\ n - n = 0 /\ Pow2[0] = 1
    BY PowersAre
  <2>2. Shifted(index, n) < 1 /\ Shifted(Pow2[n] + index, n) = 1 + Shifted(index, n)
    BY <1>3, <2>1, ShiftsFit
  <2>3. Shifted(index, n) \in Nat
    BY <1>3, ShiftsAre
  <2> QED
    BY <2>2, <2>3
<1> QED
  BY <1>2, <1>7, <1>8


-----------------------------------------------------------------------------
(* The inductive invariant of the tree and of the search on it.            *)

\* The places of the leaves, and of the nodes that the buffer keeps.
Places == 0 .. NumLeafs - 1
Finished == {"built", "panicked", "mining", "mined"}

JobInv == \E i \in DOMAIN Legacy : job = Legacy[i]

\* The tree is made while there is no other search.
StageInv ==
    /\ buffer = [phase |-> buffer.phase, at |-> buffer.at, leafs |-> buffer.leafs, nodes |-> buffer.nodes]
    /\ buffer.phase \in {"off", "buds", "rounds", "reversal", "nodes", "levels"} \cup Finished
    /\ buffer.phase # "off" => guess.pc = "off"
    /\ buffer.phase = "buds" => buffer.at = 0

\* After so many rounds a leaf is the root over as many buds as they make.
RoundsInv ==
    buffer.phase = "rounds" =>
        /\ buffer.at \in 0 .. NumBudLayers
        /\ buffer.leafs = [k \in Places |-> RootOverBuds(k, buffer.at)]

\* The leaves up to one index, and those with which they changed places, are in
\* the opposite order.
ReversalInv ==
    buffer.phase = "reversal" =>
        /\ job.reversed /\ buffer.at \in 0 .. NumLeafs
        /\ buffer.leafs = [k \in Places |->
              RootOverBuds(IF k < buffer.at \/ Rev(job.height, k) < buffer.at THEN Rev(job.height, k) ELSE k,
                           NumBudLayers)]

LeafsInv ==
    buffer.phase \in {"nodes", "levels"} \cup Finished =>
        buffer.leafs = [k \in Places |-> NativeLeaf(k)]

\* Down from the level that was made last every node is the pair of its
\* children, and the lowest have the pairs of the leaves that are not kept.
NodeIs(o) ==
    buffer.nodes[o] =
        IF 4 * o < NumLeafs THEN <<buffer.nodes[2 * o], buffer.nodes[2 * o + 1]>>
        ELSE << <<buffer.leafs[4 * o - NumLeafs], buffer.leafs[4 * o + 1 - NumLeafs]>>,
                <<buffer.leafs[4 * o + 2 - NumLeafs], buffer.leafs[4 * o + 3 - NumLeafs]>> >>

LevelsInv ==
    buffer.phase \in {"levels"} \cup Finished =>
        /\ \E e \in 0 .. job.height - 2 : buffer.at = Pow2[e]
        /\ buffer.phase # "levels" => buffer.at = 1
        /\ \A o \in buffer.at .. (NumLeafs \div 2) - 1 : NodeIs(o)

\* Every attempt waits, is in the hands of a thread, or was tried, and the
\* winners that were tried are those that were found.
Attempts == Range0(job.start, job.count)

SearchInv ==
    buffer.phase = "mining" =>
        /\ pool = [pending |-> pool.pending, held |-> pool.held, found |-> pool.found, tried |-> pool.tried]
        /\ pool.pending \subseteq Attempts
        /\ pool.held \in [Threads -> SUBSET Attempts]
        /\ \A t \in Threads : \A m, n \in pool.held[t] : m = n
        /\ \A n \in Attempts :
              \/ n \in pool.pending
              \/ \E t \in Threads : n \in pool.held[t]
              \/ \E attempt \in pool.tried : attempt[1] = n
        /\ pool.tried \subseteq Attempts \X Threads
        /\ pool.found = pool.tried \cap job.wins

MinedInv ==
    /\ buffer.phase # "mined" => mined = {}
    /\ \A pow \in mined : \E nonce \in job.wins : pow = Pow(nonce)
    /\ buffer.phase = "mined" /\ mined = {} =>
          /\ {attempt[1] : attempt \in pool.tried} = Attempts
          /\ pool.tried \cap job.wins = {}

TreeInv ==
    /\ JobInv /\ StageInv /\ RoundsInv /\ ReversalInv /\ LeafsInv /\ LevelsInv
    /\ SearchInv /\ MinedInv


-----------------------------------------------------------------------------
(* What the steps use.                                                     *)

\* What a job is.
LEMMA JobIs ==
    ASSUME JobInv
    PROVE  /\ job.height \in Nat /\ job.height <= 29
           /\ NumBudLayers \in Nat /\ NumBudLayers >= 2 /\ NumBudLayers <= job.height
           /\ job.start \in Nat /\ job.count \in Nat
           /\ job.words \in [Attempts \X Threads -> Nat \X Nat]
           /\ job.wins \subseteq Attempts \X Threads
<1>1. PICK i \in DOMAIN Legacy : job = Legacy[i]
  BY DEF JobInv
<1>2. /\ job.height \in NumBudLayers .. HEIGHT
      /\ job.start \in Nat /\ job.count \in Nat
      /\ job.words \in [Attempts \X Threads -> Nat \X Nat]
      /\ job.wins \subseteq Attempts \X Threads
  BY <1>1, LegacyAssumption, Zenon DEF Attempts
<1>3. PICK h, b : h = job.height /\ b = NumBudLayers
  OBVIOUS
<1>4. b \in Nat /\ b >= 2 /\ h \in b .. 29
  BY <1>2, <1>3, GuesserBufferAssumption DEF HEIGHT
<1>5. h \in Nat /\ h <= 29 /\ b <= h
  BY <1>4
<1> QED
  BY <1>2, <1>3, <1>4, <1>5

\* The number of leaves is a multiple of four.
LEMMA LeafsAre ==
    ASSUME JobInv
    PROVE  /\ NumLeafs \in Nat /\ Pow2[job.height - 2] \in Nat /\ Pow2[job.height - 2] >= 1
           /\ NumLeafs = 4 * Pow2[job.height - 2] /\ job.height - 2 \in Nat
<1>1. job.height - 2 \in Nat /\ job.height - 2 + 1 + 1 = job.height
  BY JobIs
<1>2. /\ Pow2[job.height - 2] \in Nat /\ Pow2[job.height - 2] >= 1
      /\ Pow2[job.height - 2 + 1] = 2 * Pow2[job.height - 2]
      /\ Pow2[job.height - 2 + 1 + 1] = 2 * Pow2[job.height - 2 + 1]
  BY <1>1, PowersAre
<1> QED
  BY <1>1, <1>2 DEF NumLeafs

\* One turn round the end.
LEMMA TurnIs ==
    ASSUME NEW n \in Nat \ {0}, NEW a \in Nat, a < 2 * n
    PROVE  a % n = IF a < n THEN a ELSE a - n
<1> DEFINE q == a \div n
           r == a % n
<1>1. q \in Nat /\ r \in 0 .. n - 1
  OBVIOUS
<1>2. a = n * q + r
  OBVIOUS
<1> HIDE DEF q, r
<1>3. q = 0 \/ q = 1 \/ q >= 2
  BY <1>1
<1>4. q >= 2 => FALSE
  <2>1. SUFFICES ASSUME q >= 2 PROVE FALSE
    OBVIOUS
  <2>2. PICK m \in Nat : q = m + 2
    BY <1>1, <2>1, q - 2 \in Nat
  <2>3. n * q = n * m + n * 2 /\ n * m \in Nat
    BY <2>2
  <2> QED
    BY <1>1, <1>2, <2>3
<1>5. r = IF a < n THEN a ELSE a - n
  BY <1>1, <1>2, <1>3, <1>4
<1> QED
  BY <1>5 DEF r

\* The root over twice as many buds is the pair of the roots over either half.
LEMMA RoundDoubles ==
    ASSUME JobInv, NEW k \in Places
    PROVE  /\ RootOverBuds(k, 0) = Bud(k)
           /\ \A n \in Nat : n < job.height =>
                 /\ Partner(k, Pow2[n]) \in Places
                 /\ RootOverBuds(k, n + 1) =
                       <<RootOverBuds(k, n), RootOverBuds(Partner(k, Pow2[n]), n)>>
<1>1. PICK all \in Nat \ {0} : all = NumLeafs
  BY LeafsAre
<1>2. k \in Nat /\ k < all
  BY <1>1 DEF Places
<1>3. RootOverBuds(k, 0) = Bud(k)
  <2> DEFINE s == [i \in 1 .. Pow2[0] |-> Bud((k + i - 1) % NumLeafs)]
  <2>1. RootOverBuds(k, 0) = MerkleRoot(s, 0)
    BY DEF RootOverBuds
  <2>2. s[1] = Bud(k)
    <3>1. 1 \in 1 .. Pow2[0] /\ k + 1 - 1 = k
      BY <1>2, PowersAre
    <3>2. k % NumLeafs = k
      BY <1>1, <1>2, TurnIs
    <3> QED
      BY <3>1, <3>2
  <2> HIDE DEF s
  <2> QED
    BY <2>1, <2>2, RootIs DEF IsTree
<1>4. ASSUME NEW n \in Nat, n < job.height
      PROVE  /\ Partner(k, Pow2[n]) \in Places
             /\ RootOverBuds(k, n + 1) = <<RootOverBuds(k, n), RootOverBuds(Partner(k, Pow2[n]), n)>>
  <2>1. PICK p \in Nat \ {0} : p = Pow2[n] /\ Pow2[n + 1] = 2 * p
    BY PowersAre
  <2>2. 2 * p <= all
    <3>1. n + 1 \in 0 .. job.height
      BY <1>4, JobIs
    <3>2. Pow2[n + 1] <= Pow2[job.height]
      BY <3>1, JobIs, PowersGrow
    <3> QED
      BY <1>1, <2>1, <3>2 DEF NumLeafs
  <2>3. PICK j : j = Partner(k, p)
    OBVIOUS
  <2>4. j = IF k + p < all THEN k + p ELSE k + p - all
    BY <1>1, <1>2, <2>1, <2>2, <2>3, TurnIs DEF Partner
  <2>5. j \in 0 .. all - 1
    BY <1>2, <2>2, <2>4
  <2> DEFINE s == [i \in 1 .. Pow2[n + 1] |-> Bud((k + i - 1) % NumLeafs)]
             a == [i \in 1 .. Pow2[n] |-> Bud((k + i - 1) % NumLeafs)]
             b == [i \in 1 .. Pow2[n] |-> Bud((j + i - 1) % NumLeafs)]
  <2>6. /\ RootOverBuds(k, n + 1) = MerkleRoot(s, n + 1)
        /\ RootOverBuds(k, n) = MerkleRoot(a, n) /\ RootOverBuds(j, n) = MerkleRoot(b, n)
    BY DEF RootOverBuds
  <2>7. ASSUME NEW i \in 1 .. Pow2[n] PROVE s[i] = a[i] /\ s[Pow2[n] + i] = b[i]
    <3>1. i \in 1 .. 2 * p /\ p + i \in 1 .. 2 * p
      BY <2>1
    <3>2. s[i] = a[i] /\ s[p + i] = Bud((k + (p + i) - 1) % all) /\ b[i] = Bud((j + i - 1) % all)
      BY <1>1, <2>1, <3>1
    <3>3. (k + (p + i) - 1) % all = (j + i - 1) % all
      <4>1. CASE k + p < all
        <5>1. k + (p + i) - 1 = j + i - 1
          BY <1>2, <2>4, <3>1, <4>1
        <5> QED
          BY <5>1
      <4>2. CASE k + p >= all
        <5>1. PICK x \in Nat, y \in Nat : x = k + (p + i) - 1 /\ y = j + i - 1
          BY <1>2, <2>5, <3>1
        <5>2. y = x - all /\ x < 2 * all /\ x >= all
          <6>1. i <= p /\ i >= 1
            BY <2>1
          <6> QED
            BY <1>2, <2>2, <2>4, <4>2, <5>1, <6>1
        <5>3. x % all = x - all
          <6>1. x \in Nat /\ all \in Nat \ {0} /\ x < 2 * all /\ ~(x < all)
            BY <1>1, <5>1, <5>2
          <6> QED
            BY <6>1, TurnIs
        <5>4. y < all /\ y < 2 * all
          BY <5>1, <5>2
        <5>5. y % all = y
          BY <5>4, TurnIs
        <5> QED
          BY <5>1, <5>2, <5>3, <5>5
      <4> QED
        BY <1>2, <4>1, <4>2
    <3> HIDE DEF s, a, b
    <3> QED
      BY <2>1, <3>2, <3>3
  <2> HIDE DEF s, a, b
  <2>8. MerkleRoot(s, n + 1) = <<MerkleRoot(a, n), MerkleRoot(b, n)>>
    BY <2>7, Halves
  <2> QED
    BY <1>1, <2>1, <2>3, <2>5, <2>6, <2>8 DEF Places
<1> QED
  BY <1>3, <1>4

\* The order of the leaves.
LEMMA OrderIs ==
    ASSUME JobInv, NEW k \in Places
    PROVE  LET r == Rev(job.height, k)
           IN  /\ r \in Places /\ Rev(job.height, r) = k
               /\ BitReverse(k, job.height) = r
               /\ NativeLeaf(k) = RootOverBuds(IF job.reversed THEN r ELSE k, NumBudLayers)
<1>1. job.height \in Nat /\ job.height \in 0 .. 31
  <2>1. PICK h : h = job.height /\ h \in Nat /\ h <= 29
    BY JobIs
  <2>2. h \in 0 .. 31
    BY <2>1
  <2> QED
    BY <2>1, <2>2
<1>2. PICK all \in Nat : all = Pow2[job.height] /\ Places = 0 .. all - 1
  BY <1>1, PowersAre DEF Places, NumLeafs
<1>3. k \in Nat /\ k \in 0 .. Pow2[job.height] - 1
  BY <1>2
<1>4. PICK r : r = Rev(job.height, k)
  OBVIOUS
<1>5. r \in Nat /\ r < Pow2[job.height]
  BY <1>1, <1>3, <1>4, RevIs, RevFits
<1>6. r \in Places
  BY <1>2, <1>5
<1>7. Rev(job.height, r) = k
  BY <1>1, <1>3, <1>4, RevTwice
<1>8. BitReverse(k, job.height) = r
  BY <1>1, <1>3, <1>4, BitReverseIs
<1>9. NativeLeaf(k) = RootOverBuds(IF job.reversed THEN r ELSE k, NumBudLayers)
  BY <1>4 DEF NativeLeaf, ReversedIndex, Rev
<1> QED
  BY <1>4, <1>6, <1>7, <1>8, <1>9


-----------------------------------------------------------------------------
(* The steps that make the leaves.                                         *)

\* What is said of one phase does not matter in another.
LEMMA OtherPhase ==
    /\ buffer.phase # "rounds" => RoundsInv
    /\ buffer.phase # "reversal" => ReversalInv
    /\ buffer.phase \notin {"nodes", "levels"} \cup Finished => LeafsInv
    /\ buffer.phase \notin {"levels"} \cup Finished => LevelsInv
    /\ buffer.phase # "mining" => SearchInv
    /\ buffer.phase # "mined" /\ mined = {} => MinedInv
  BY DEF RoundsInv, ReversalInv, LeafsInv, LevelsInv, SearchInv, MinedInv, Finished

\* What is made of the job does not change with the buffer.
LEMMA JobStays ==
    ASSUME job' = job
    PROVE  /\ JobInv' <=> JobInv
           /\ NumLeafs' = NumLeafs /\ Places' = Places /\ Attempts' = Attempts
           /\ \A k, n : RootOverBuds(k, n)' = RootOverBuds(k, n)
           /\ \A k : NativeLeaf(k)' = NativeLeaf(k)
  BY DEF JobInv, NumLeafs, Places, Attempts, Range0, RootOverBuds, NativeLeaf, ReversedIndex

\* A step that makes a part of the buffer.
LEMMA Making ==
    ASSUME TreeInv, UNCHANGED <<job, mined, guess>>, buffer.phase # "off",
           NEW phase \in {"rounds", "reversal", "nodes", "levels", "built"}, NEW at, NEW leafs, NEW nodes,
           buffer' = [phase |-> phase, at |-> at, leafs |-> leafs, nodes |-> nodes],
           buffer.phase # "mined",
           RoundsInv', ReversalInv', LeafsInv', LevelsInv'
    PROVE  TreeInv'
<1>1. buffer'.phase = phase /\ buffer'.at = at /\ buffer'.leafs = leafs /\ buffer'.nodes = nodes
  OBVIOUS
<1>2. JobInv'
  BY JobStays DEF TreeInv
<1>3. StageInv'
  <2>1. buffer' = [phase |-> buffer'.phase, at |-> buffer'.at, leafs |-> buffer'.leafs, nodes |-> buffer'.nodes]
    BY <1>1
  <2>2. guess'.pc = "off"
    BY DEF TreeInv, StageInv
  <2>3. /\ buffer'.phase \in {"off", "buds", "rounds", "reversal", "nodes", "levels"} \cup Finished
        /\ buffer'.phase # "buds"
    BY <1>1 DEF Finished
  <2> QED
    BY <2>1, <2>2, <2>3 DEF StageInv
<1>4. SearchInv'
  BY <1>1 DEF SearchInv
<1>5. MinedInv'
  BY <1>1 DEF TreeInv, MinedInv
<1> QED
  BY <1>2, <1>3, <1>4, <1>5 DEF TreeInv

\* The fields of a buffer.
LEMMA FieldsAre ==
    ASSUME TreeInv, NEW phase, buffer.phase = phase
    PROVE  \E at, leafs, nodes :
              /\ buffer = [phase |-> phase, at |-> at, leafs |-> leafs, nodes |-> nodes]
              /\ buffer.at = at /\ buffer.leafs = leafs /\ buffer.nodes = nodes
  BY DEF TreeInv, StageInv

\* One lemma for each step that makes the leaves.
LEMMA BudsKeep ==
    ASSUME TreeInv, guess' = guess, Buds
    PROVE  TreeInv'
<1>1. buffer.phase = "buds" /\ job' = job /\ mined' = mined /\ JobInv
  BY DEF Buds, TreeInv
<1>2. PICK at, leafs, nodes :
         /\ buffer = [phase |-> "buds", at |-> at, leafs |-> leafs, nodes |-> nodes]
         /\ buffer.at = at /\ buffer.leafs = leafs /\ buffer.nodes = nodes
  BY <1>1, FieldsAre
<1>3. PICK made : made = [k \in Places |-> Bud(k)]
  OBVIOUS
<1>4. at = 0 /\ buffer' = [phase |-> "rounds", at |-> 0, leafs |-> made, nodes |-> nodes]
  BY <1>1, <1>2, <1>3 DEF Buds, TreeInv, StageInv, Places
<1>5. buffer'.phase = "rounds" /\ buffer'.at = 0 /\ buffer'.leafs = made
  BY <1>4
<1>6. made = [k \in Places |-> RootOverBuds(k, 0)]
  BY <1>1, <1>3, RoundDoubles
<1>7. RoundsInv'
  <2>1. 0 \in 0 .. NumBudLayers
    BY GuesserBufferAssumption
  <2> QED
    BY <1>1, <1>5, <1>6, <2>1, JobStays DEF RoundsInv
<1>8. ReversalInv' /\ LeafsInv' /\ LevelsInv'
  BY <1>5 DEF ReversalInv, LeafsInv, LevelsInv, Finished
<1> QED
  BY <1>1, <1>4, <1>7, <1>8, Making

LEMMA ButterflyKeeps ==
    ASSUME TreeInv, guess' = guess, Butterfly
    PROVE  TreeInv'
<1>1. buffer.phase = "rounds" /\ job' = job /\ mined' = mined /\ JobInv
  BY DEF Butterfly, TreeInv
<1>2. PICK at, leafs, nodes :
         /\ buffer = [phase |-> "rounds", at |-> at, leafs |-> leafs, nodes |-> nodes]
         /\ buffer.at = at /\ buffer.leafs = leafs /\ buffer.nodes = nodes
  BY <1>1, FieldsAre
<1>3. at \in 0 .. NumBudLayers /\ at < NumBudLayers /\ leafs = [k \in Places |-> RootOverBuds(k, at)]
  BY <1>1, <1>2 DEF Butterfly, TreeInv, RoundsInv
<1>4. at \in Nat /\ at < job.height /\ at + 1 \in 0 .. NumBudLayers
  BY <1>1, <1>3, JobIs
<1>5. PICK made : made = [k \in DOMAIN leafs |-> HashPair(leafs[k], leafs[Partner(k, Pow2[at])])]
  OBVIOUS
<1>6. buffer' = [phase |-> "rounds", at |-> at + 1, leafs |-> made, nodes |-> nodes]
  BY <1>2, <1>5 DEF Butterfly
<1>7. made = [k \in Places |-> RootOverBuds(k, at + 1)]
  <2>1. DOMAIN leafs = Places
    BY <1>3
  <2>2. ASSUME NEW k \in Places
        PROVE  HashPair(leafs[k], leafs[Partner(k, Pow2[at])]) = RootOverBuds(k, at + 1)
    <3>1. /\ Partner(k, Pow2[at]) \in Places
          /\ RootOverBuds(k, at + 1) = <<RootOverBuds(k, at), RootOverBuds(Partner(k, Pow2[at]), at)>>
      BY <1>1, <1>4, RoundDoubles
    <3>2. leafs[k] = RootOverBuds(k, at)
      BY <1>3
    <3>3. leafs[Partner(k, Pow2[at])] = RootOverBuds(Partner(k, Pow2[at]), at)
      BY <1>3, <3>1
    <3> QED
      BY <3>1, <3>2, <3>3 DEF HashPair
  <2> QED
    BY <1>5, <2>1, <2>2
<1>8. buffer'.phase = "rounds" /\ buffer'.at = at + 1 /\ buffer'.leafs = made
  BY <1>6
<1>9. RoundsInv'
  BY <1>1, <1>4, <1>7, <1>8, JobStays DEF RoundsInv
<1>10. ReversalInv' /\ LeafsInv' /\ LevelsInv'
  BY <1>8 DEF ReversalInv, LeafsInv, LevelsInv, Finished
<1> QED
  BY <1>1, <1>6, <1>9, <1>10, Making

LEMMA EndRoundsKeeps ==
    ASSUME TreeInv, guess' = guess, EndRounds
    PROVE  TreeInv'
<1>1. buffer.phase = "rounds" /\ job' = job /\ mined' = mined /\ JobInv
  BY DEF EndRounds, TreeInv
<1>2. PICK at, leafs, nodes :
         /\ buffer = [phase |-> "rounds", at |-> at, leafs |-> leafs, nodes |-> nodes]
         /\ buffer.at = at /\ buffer.leafs = leafs /\ buffer.nodes = nodes
  BY <1>1, FieldsAre
<1>3. leafs = [k \in Places |-> RootOverBuds(k, NumBudLayers)]
  BY <1>1, <1>2 DEF EndRounds, TreeInv, RoundsInv
<1>4. PICK phase : phase = IF job.reversed THEN "reversal" ELSE "nodes"
  OBVIOUS
<1>5. buffer' = [phase |-> phase, at |-> 0, leafs |-> leafs, nodes |-> nodes]
  BY <1>2, <1>4 DEF EndRounds
<1>6. buffer'.phase = phase /\ buffer'.at = 0 /\ buffer'.leafs = leafs
  BY <1>5
<1>7. RoundsInv' /\ LevelsInv'
  BY <1>4, <1>6 DEF RoundsInv, LevelsInv, Finished
<1>8. ReversalInv'
  <2> SUFFICES ASSUME job.reversed PROVE ReversalInv'
    BY <1>4, <1>6 DEF ReversalInv
  <2>1. NumLeafs \in Nat /\ 0 \in 0 .. NumLeafs
    BY <1>1, LeafsAre
  <2>2. ASSUME NEW k \in Places PROVE ~(k < 0 \/ Rev(job.height, k) < 0)
    <3>1. k \in Nat /\ Rev(job.height, k) \in Places
      BY <1>1, OrderIs DEF Places
    <3>2. \A r \in Places : ~(r < 0)
      BY DEF Places
    <3> QED
      BY <3>1, <3>2
  <2>3. leafs = [k \in Places |->
          RootOverBuds(IF k < 0 \/ Rev(job.height, k) < 0 THEN Rev(job.height, k) ELSE k, NumBudLayers)]
    BY <1>3, <2>2
  <2> QED
    BY <1>1, <1>6, <2>1, <2>3, JobStays DEF ReversalInv
<1>9. LeafsInv'
  <2> SUFFICES ASSUME ~job.reversed PROVE LeafsInv'
    BY <1>4, <1>6 DEF LeafsInv, Finished
  <2>1. leafs = [k \in Places |-> NativeLeaf(k)]
    BY <1>1, <1>3, OrderIs
  <2> QED
    BY <1>1, <1>6, <2>1, JobStays DEF LeafsInv
<1>10. phase \in {"reversal", "nodes"}
  BY <1>4
<1> QED
  BY <1>1, <1>5, <1>7, <1>8, <1>9, <1>10, Making

LEMMA SwapLeafKeeps ==
    ASSUME TreeInv, guess' = guess, SwapLeaf
    PROVE  TreeInv'
<1>1. buffer.phase = "reversal" /\ job' = job /\ mined' = mined /\ JobInv
  BY DEF SwapLeaf, TreeInv
<1>2. PICK at, leafs, nodes :
         /\ buffer = [phase |-> "reversal", at |-> at, leafs |-> leafs, nodes |-> nodes]
         /\ buffer.at = at /\ buffer.leafs = leafs /\ buffer.nodes = nodes
  BY <1>1, FieldsAre
<1> DEFINE R(k) == Rev(job.height, k)
           Leaf(k, n) == RootOverBuds(IF k < n \/ R(k) < n THEN R(k) ELSE k, NumBudLayers)
<1>3. job.reversed /\ at \in 0 .. NumLeafs /\ at < NumLeafs /\ leafs = [k \in Places |-> Leaf(k, at)]
  BY <1>1, <1>2 DEF SwapLeaf, TreeInv, ReversalInv
<1>4. at \in Places /\ at \in Nat /\ at + 1 \in 0 .. NumLeafs
  BY <1>1, <1>3, LeafsAre DEF Places
<1>5. PICK r : r = R(at)
  OBVIOUS
<1>6. r \in Places /\ R(r) = at /\ BitReverse(at, job.height) = r /\ r \in Nat
  <2>1. r \in Places /\ R(r) = at /\ BitReverse(at, job.height) = r
    BY <1>1, <1>4, <1>5, OrderIs
  <2> QED
    BY <2>1 DEF Places
<1>7. PICK made : made = IF r > at THEN [leafs EXCEPT ![at] = leafs[r], ![r] = leafs[at]] ELSE leafs
  OBVIOUS
<1>8. buffer' = [phase |-> "reversal", at |-> at + 1, leafs |-> made, nodes |-> nodes]
  BY <1>1, <1>2, <1>6, <1>7 DEF SwapLeaf
<1>9. \A k \in Places : R(k) \in Places /\ R(R(k)) = k /\ k \in Nat /\ R(k) \in Nat
  <2> SUFFICES ASSUME NEW k \in Places PROVE R(k) \in Places /\ R(R(k)) = k /\ k \in Nat /\ R(k) \in Nat
    OBVIOUS
  <2>1. R(k) \in Places /\ R(R(k)) = k
    BY <1>1, OrderIs
  <2>2. \A j \in Places : j \in Nat
    BY DEF Places
  <2> QED
    BY <2>1, <2>2
<1> HIDE DEF R
<1>10. \A k \in Places : leafs[k] = Leaf(k, at)
  BY <1>3
<1>11. DOMAIN made = Places /\ \A k \in Places : made[k] = Leaf(k, at + 1)
  <2>1. DOMAIN leafs = Places
    BY <1>3
  <2>2. made = [k \in Places |-> made[k]]
    <3>1. leafs = [k \in Places |-> leafs[k]]
      BY <1>3
    <3> QED
      BY <1>7, <3>1
  <2>3. ASSUME NEW k \in Places PROVE made[k] = Leaf(k, at + 1)
    <3>1. CASE r > at /\ k = at
      <4>1. made[k] = leafs[r]
        BY <1>4, <1>6, <1>7, <2>1, <3>1
      <4>2. leafs[r] = Leaf(r, at) /\ Leaf(r, at) = RootOverBuds(r, NumBudLayers)
        BY <1>6, <1>10, <3>1, <1>4
      <4>3. Leaf(k, at + 1) = RootOverBuds(r, NumBudLayers)
        BY <1>4, <1>5, <3>1
      <4> QED
        BY <4>1, <4>2, <4>3
    <3>2. CASE r > at /\ k = r
      <4>1. made[k] = leafs[at]
        BY <1>6, <1>7, <2>1, <3>2
      <4>2. leafs[at] = Leaf(at, at) /\ Leaf(at, at) = RootOverBuds(at, NumBudLayers)
        BY <1>4, <1>5, <1>6, <1>10, <3>2
      <4>3. Leaf(k, at + 1) = RootOverBuds(at, NumBudLayers)
        BY <1>4, <1>6, <3>2
      <4> QED
        BY <4>1, <4>2, <4>3
    <3>3. CASE r > at /\ k # at /\ k # r
      <4>1. made[k] = leafs[k]
        BY <1>7, <2>1, <3>3
      <4>2. R(k) # at
        BY <1>5, <1>9, <3>3
      <4>3. (k < at <=> k < at + 1) /\ (R(k) < at <=> R(k) < at + 1)
        BY <1>4, <1>9, <3>3, <4>2
      <4>4. Leaf(k, at + 1) = Leaf(k, at)
        BY <4>3
      <4> QED
        BY <1>10, <4>1, <4>4
    <3>4. CASE ~(r > at)
      <4>1. made[k] = leafs[k] /\ leafs[k] = Leaf(k, at)
        BY <1>7, <1>10, <3>4
      <4>2. CASE k = at
        <5>1. r < at \/ r = at
          BY <1>4, <1>6, <3>4
        <5> QED
          BY <1>4, <1>5, <4>1, <4>2, <5>1
      <4>3. CASE k # at /\ R(k) = at
        <5>1. k = r
          BY <1>5, <1>9, <4>3
        <5>2. k < at
          BY <1>4, <1>6, <3>4, <4>3, <5>1
        <5>3. k < at + 1
          BY <1>4, <1>6, <5>1, <5>2
        <5> QED
          BY <4>1, <5>2, <5>3
      <4>4. CASE k # at /\ R(k) # at
        <5>1. (k < at <=> k < at + 1) /\ (R(k) < at <=> R(k) < at + 1)
          BY <1>4, <1>9, <4>4
        <5> QED
          BY <4>1, <5>1
      <4> QED
        BY <4>2, <4>3, <4>4
    <3> QED
      BY <3>1, <3>2, <3>3, <3>4
  <2>4. DOMAIN made = Places
    BY <2>2
  <2> QED
    BY <2>3, <2>4
<1>12. made = [k \in Places |-> Leaf(k, at + 1)]
  <2>1. made = [k \in Places |-> made[k]]
    <3>1. leafs = [k \in Places |-> leafs[k]]
      BY <1>3
    <3> QED
      BY <1>7, <3>1
  <2> HIDE DEF Leaf
  <2> QED
    BY <1>11, <2>1
<1>13. buffer'.phase = "reversal" /\ buffer'.at = at + 1 /\ buffer'.leafs = made
  BY <1>8
<1>14. ReversalInv'
  BY <1>1, <1>3, <1>4, <1>12, <1>13, JobStays DEF ReversalInv, R
<1>15. RoundsInv' /\ LeafsInv' /\ LevelsInv'
  BY <1>13 DEF RoundsInv, LeafsInv, LevelsInv, Finished
<1> QED
  BY <1>1, <1>8, <1>14, <1>15, Making

LEMMA EndReversalKeeps ==
    ASSUME TreeInv, guess' = guess, EndReversal
    PROVE  TreeInv'
<1>1. buffer.phase = "reversal" /\ job' = job /\ mined' = mined /\ JobInv
  BY DEF EndReversal, TreeInv
<1>2. PICK at, leafs, nodes :
         /\ buffer = [phase |-> "reversal", at |-> at, leafs |-> leafs, nodes |-> nodes]
         /\ buffer.at = at /\ buffer.leafs = leafs /\ buffer.nodes = nodes
  BY <1>1, FieldsAre
<1>3. /\ at = NumLeafs /\ job.reversed
      /\ leafs = [k \in Places |-> RootOverBuds(IF k < at \/ Rev(job.height, k) < at
                                                THEN Rev(job.height, k) ELSE k, NumBudLayers)]
  BY <1>1, <1>2 DEF EndReversal, TreeInv, ReversalInv
<1>4. buffer' = [phase |-> "nodes", at |-> at, leafs |-> leafs, nodes |-> nodes]
  BY <1>2 DEF EndReversal
<1>5. buffer'.phase = "nodes" /\ buffer'.leafs = leafs
  BY <1>4
<1>6. \A k \in Places : k < at
  BY <1>1, <1>3, LeafsAre DEF Places
<1>7. leafs = [k \in Places |-> NativeLeaf(k)]
  BY <1>1, <1>3, <1>6, OrderIs
<1>8. LeafsInv'
  BY <1>1, <1>5, <1>7, JobStays DEF LeafsInv
<1>9. RoundsInv' /\ ReversalInv' /\ LevelsInv'
  BY <1>5 DEF RoundsInv, ReversalInv, LevelsInv, Finished
<1> QED
  BY <1>1, <1>4, <1>8, <1>9, Making


-----------------------------------------------------------------------------
(* The steps that make the nodes.                                          *)

\* The lowest level that is kept, straight from the leaves.
LEMMA LastLevelKeeps ==
    ASSUME TreeInv, guess' = guess, LastLevel
    PROVE  TreeInv'
<1>1. buffer.phase = "nodes" /\ job' = job /\ mined' = mined /\ JobInv
  BY DEF LastLevel, TreeInv
<1>2. PICK at, leafs, nodes :
         /\ buffer = [phase |-> "nodes", at |-> at, leafs |-> leafs, nodes |-> nodes]
         /\ buffer.at = at /\ buffer.leafs = leafs /\ buffer.nodes = nodes
  BY <1>1, FieldsAre
<1>3. PICK q \in Nat : q = Pow2[job.height - 2] /\ q >= 1 /\ NumLeafs = 4 * q
  BY <1>1, LeafsAre
<1>4. NumLeafs \div 2 = 2 * q /\ (2 * q) \div 2 = q
  BY <1>3
<1>5. PICK made : made = [o \in q .. 2 * q - 1 |->
          << <<leafs[(o - q) * 4 + 0], leafs[(o - q) * 4 + 1]>>,
             <<leafs[(o - q) * 4 + 2], leafs[(o - q) * 4 + 3]>> >>]
  OBVIOUS
<1>6. buffer' = [phase |-> "levels", at |-> q, leafs |-> leafs, nodes |-> made]
  BY <1>2, <1>4, <1>5 DEF LastLevel, HashPair
<1>7. buffer'.phase = "levels" /\ buffer'.at = q /\ buffer'.leafs = leafs /\ buffer'.nodes = made
  BY <1>6
<1>8. leafs = [k \in Places |-> NativeLeaf(k)]
  BY <1>1, <1>2 DEF TreeInv, LeafsInv
<1>9. LeafsInv'
  BY <1>1, <1>7, <1>8, JobStays DEF LeafsInv
<1>10. ASSUME NEW o \in q .. 2 * q - 1 PROVE NodeIs(o)'
  <2>1. ~(4 * o < 4 * q)
    BY <1>3
  <2>2. /\ 4 * o - 4 * q = (o - q) * 4 + 0 /\ 4 * o + 1 - 4 * q = (o - q) * 4 + 1
        /\ 4 * o + 2 - 4 * q = (o - q) * 4 + 2 /\ 4 * o + 3 - 4 * q = (o - q) * 4 + 3
    BY <1>3
  <2>3. made[o] = << <<leafs[4 * o - 4 * q], leafs[4 * o + 1 - 4 * q]>>,
                     <<leafs[4 * o + 2 - 4 * q], leafs[4 * o + 3 - 4 * q]>> >>
    BY <1>5, <2>2
  <2>4. NumLeafs' = 4 * q
    BY <1>1, <1>3, JobStays
  <2> QED
    BY <1>7, <2>1, <2>3, <2>4 DEF NodeIs
<1>11. LevelsInv'
  <2>1. NumLeafs' \div 2 = 2 * q /\ job'.height - 2 \in 0 .. job'.height - 2
    BY <1>1, <1>4, JobStays, LeafsAre
  <2>2. \E e \in 0 .. job'.height - 2 : buffer'.at = Pow2[e]
    BY <1>1, <1>3, <1>7, <2>1
  <2>3. \A o \in buffer'.at .. (NumLeafs' \div 2) - 1 : NodeIs(o)'
    BY <1>7, <1>10, <2>1
  <2> QED
    BY <1>7, <2>2, <2>3 DEF LevelsInv
<1>12. RoundsInv' /\ ReversalInv'
  BY <1>7 DEF RoundsInv, ReversalInv
<1> QED
  BY <1>1, <1>6, <1>9, <1>11, <1>12, Making

\* A level from the one below.
LEMMA LevelKeeps ==
    ASSUME TreeInv, guess' = guess, Level
    PROVE  TreeInv'
<1>1. buffer.phase = "levels" /\ job' = job /\ mined' = mined /\ JobInv
  BY DEF Level, TreeInv
<1>2. PICK at, leafs, nodes :
         /\ buffer = [phase |-> "levels", at |-> at, leafs |-> leafs, nodes |-> nodes]
         /\ buffer.at = at /\ buffer.leafs = leafs /\ buffer.nodes = nodes
  BY <1>1, FieldsAre
<1>3. PICK q \in Nat : q = Pow2[job.height - 2] /\ q >= 1 /\ NumLeafs = 4 * q
  BY <1>1, LeafsAre
<1>4. NumLeafs \div 2 = 2 * q
  BY <1>3
<1>5. PICK e \in 0 .. job.height - 2 : at = Pow2[e]
  BY <1>1, <1>2 DEF TreeInv, LevelsInv
<1>6. \A o \in at .. 2 * q - 1 : NodeIs(o)
  BY <1>1, <1>2, <1>4 DEF TreeInv, LevelsInv
<1>7. job.height - 2 \in Nat
  BY <1>1, LeafsAre
<1>8. e \in Nat /\ e # 0
  <2>1. at > 1
    BY <1>2 DEF Level
  <2> QED
    BY <1>5, <1>7, <2>1, PowersAre
<1>9. e - 1 \in Nat /\ e - 1 \in 0 .. job.height - 2 /\ e - 1 + 1 = e
  BY <1>5, <1>7, <1>8
<1>10. PICK r \in Nat : r = Pow2[e - 1] /\ r >= 1 /\ at = 2 * r
  BY <1>5, <1>9, PowersAre
<1>11. at <= q
  BY <1>3, <1>5, <1>7, PowersGrow
<1>12. at \div 2 = r
  BY <1>10
<1>13. PICK made : made = [o \in r .. 2 * q - 1 |->
          IF o < at THEN <<nodes[2 * o + 0], nodes[2 * o + 1]>> ELSE nodes[o]]
  OBVIOUS
<1>14. buffer' = [phase |-> "levels", at |-> r, leafs |-> leafs, nodes |-> made]
  BY <1>2, <1>4, <1>12, <1>13 DEF Level, HashPair
<1>15. buffer'.phase = "levels" /\ buffer'.at = r /\ buffer'.leafs = leafs /\ buffer'.nodes = made
  BY <1>14
<1>16. leafs = [k \in Places |-> NativeLeaf(k)]
  BY <1>1, <1>2 DEF TreeInv, LeafsInv
<1>17. LeafsInv'
  BY <1>1, <1>15, <1>16, JobStays DEF LeafsInv
<1>18. ASSUME NEW o \in r .. 2 * q - 1 PROVE NodeIs(o)'
  <2>1. o \in Nat /\ NumLeafs' = 4 * q
    BY <1>1, <1>3, JobStays
  <2>2. ASSUME 4 * o < 4 * q PROVE made[2 * o] = nodes[2 * o] /\ made[2 * o + 1] = nodes[2 * o + 1]
    <3>1. /\ 2 * o \in r .. 2 * q - 1 /\ 2 * o + 1 \in r .. 2 * q - 1
          /\ ~(2 * o < at) /\ ~(2 * o + 1 < at)
      BY <1>3, <1>10, <2>1, <2>2
    <3> QED
      BY <1>13, <3>1
  <2>3. CASE o < at
    <3>1. 4 * o < 4 * q /\ 2 * o + 0 = 2 * o
      BY <1>3, <1>10, <1>11, <2>1, <2>3
    <3>2. made[o] = <<nodes[2 * o], nodes[2 * o + 1]>>
      BY <1>13, <2>3, <3>1
    <3>3. made[o] = <<made[2 * o], made[2 * o + 1]>>
      BY <2>2, <3>1, <3>2
    <3> QED
      BY <1>15, <2>1, <3>1, <3>3 DEF NodeIs
  <2>4. CASE ~(o < at)
    <3>1. o \in at .. 2 * q - 1
      BY <1>10, <2>1, <2>4
    <3>2. made[o] = nodes[o]
      BY <1>13, <2>4
    <3>3. NodeIs(o)
      BY <1>6, <3>1
    <3>4. CASE 4 * o < 4 * q
      <4>1. nodes[o] = <<nodes[2 * o], nodes[2 * o + 1]>>
        BY <1>2, <1>3, <3>3, <3>4 DEF NodeIs
      <4>2. made[o] = <<made[2 * o], made[2 * o + 1]>>
        BY <2>2, <3>2, <3>4, <4>1
      <4> QED
        BY <1>15, <2>1, <3>4, <4>2 DEF NodeIs
    <3>5. CASE ~(4 * o < 4 * q)
      <4>1. nodes[o] = << <<leafs[4 * o - 4 * q], leafs[4 * o + 1 - 4 * q]>>,
                          <<leafs[4 * o + 2 - 4 * q], leafs[4 * o + 3 - 4 * q]>> >>
        BY <1>2, <1>3, <3>3, <3>5 DEF NodeIs
      <4> QED
        BY <1>15, <2>1, <3>2, <3>5, <4>1 DEF NodeIs
    <3> QED
      BY <3>4, <3>5
  <2> QED
    BY <2>3, <2>4
<1>19. LevelsInv'
  <2>1. NumLeafs' \div 2 = 2 * q /\ job'.height - 2 = job.height - 2
    BY <1>1, <1>4, JobStays
  <2>2. \E n \in 0 .. job'.height - 2 : buffer'.at = Pow2[n]
    BY <1>9, <1>10, <1>15, <2>1
  <2>3. \A o \in buffer'.at .. (NumLeafs' \div 2) - 1 : NodeIs(o)'
    BY <1>15, <1>18, <2>1
  <2> QED
    BY <1>15, <2>2, <2>3 DEF LevelsInv
<1>20. RoundsInv' /\ ReversalInv'
  BY <1>15 DEF RoundsInv, ReversalInv
<1> QED
  BY <1>1, <1>14, <1>17, <1>19, <1>20, Making

\* The tree is not touched after it was made.
LEMMA TreeStays ==
    ASSUME LeafsInv, LevelsInv, job' = job,
           buffer.phase \in {"levels"} \cup Finished, buffer.phase = "levels" => buffer.at = 1,
           buffer'.phase \in Finished,
           buffer'.at = buffer.at, buffer'.leafs = buffer.leafs, buffer'.nodes = buffer.nodes
    PROVE  LeafsInv' /\ LevelsInv' /\ RoundsInv' /\ ReversalInv'
<1>1. LeafsInv'
  BY JobStays DEF LeafsInv
<1>2. \A o : NodeIs(o)' <=> NodeIs(o)
  BY JobStays DEF NodeIs
<1>3. /\ \E e \in 0 .. job.height - 2 : buffer.at = Pow2[e]
      /\ buffer.at = 1
      /\ \A o \in buffer.at .. (NumLeafs \div 2) - 1 : NodeIs(o)
  BY DEF LevelsInv
<1>4. NumLeafs' = NumLeafs
  BY JobStays
<1>5. /\ \E e \in 0 .. job'.height - 2 : buffer'.at = Pow2[e]
      /\ buffer'.at = 1
      /\ \A o \in buffer'.at .. (NumLeafs' \div 2) - 1 : NodeIs(o)'
  BY <1>2, <1>3, <1>4
<1>6. LevelsInv'
  BY <1>5 DEF LevelsInv
<1> QED
  BY <1>1, <1>6 DEF RoundsInv, ReversalInv, Finished

\* The root was made.
LEMMA EndLevelsKeeps ==
    ASSUME TreeInv, guess' = guess, EndLevels
    PROVE  TreeInv'
<1>1. buffer.phase = "levels" /\ buffer.at = 1 /\ job' = job /\ mined' = mined
  BY DEF EndLevels, TreeInv
<1>2. PICK at, leafs, nodes :
         /\ buffer = [phase |-> "levels", at |-> at, leafs |-> leafs, nodes |-> nodes]
         /\ buffer.at = at /\ buffer.leafs = leafs /\ buffer.nodes = nodes
  BY <1>1, FieldsAre
<1>3. buffer' = [phase |-> "built", at |-> at, leafs |-> leafs, nodes |-> nodes]
  BY <1>2 DEF EndLevels
<1>4. buffer'.phase = "built" /\ buffer'.at = at /\ buffer'.leafs = leafs /\ buffer'.nodes = nodes
  BY <1>3
<1>5. RoundsInv' /\ ReversalInv' /\ LeafsInv' /\ LevelsInv'
  BY <1>1, <1>2, <1>4, TreeStays DEF TreeInv, Finished
<1> QED
  BY <1>1, <1>3, <1>5, Making


-----------------------------------------------------------------------------
(* The search.                                                             *)

\* A step that leaves the finished tree alone.
LEMMA Searches ==
    ASSUME TreeInv, UNCHANGED <<job, guess>>, buffer.phase \in Finished,
           NEW phase \in Finished, buffer' = [buffer EXCEPT !.phase = phase],
           SearchInv', MinedInv'
    PROVE  TreeInv'
<1>1. PICK at, leafs, nodes :
         /\ buffer = [phase |-> buffer.phase, at |-> at, leafs |-> leafs, nodes |-> nodes]
         /\ buffer.at = at /\ buffer.leafs = leafs /\ buffer.nodes = nodes
  BY FieldsAre
<1>2. buffer' = [phase |-> phase, at |-> at, leafs |-> leafs, nodes |-> nodes]
  BY <1>1
<1>3. buffer'.phase = phase /\ buffer'.at = at /\ buffer'.leafs = leafs /\ buffer'.nodes = nodes
  BY <1>2
<1>4. buffer.phase # "levels"
  BY DEF Finished
<1>5. RoundsInv' /\ ReversalInv' /\ LeafsInv' /\ LevelsInv'
  BY <1>1, <1>3, <1>4, TreeStays DEF TreeInv
<1>6. JobInv'
  BY JobStays DEF TreeInv
<1>7. StageInv'
  <2>1. buffer' = [phase |-> buffer'.phase, at |-> buffer'.at, leafs |-> buffer'.leafs, nodes |-> buffer'.nodes]
    BY <1>2, <1>3
  <2>2. guess'.pc = "off"
    BY DEF TreeInv, StageInv, Finished
  <2>3. /\ buffer'.phase \in {"off", "buds", "rounds", "reversal", "nodes", "levels"} \cup Finished
        /\ buffer'.phase # "buds"
    BY <1>3 DEF Finished
  <2> QED
    BY <2>1, <2>2, <2>3 DEF StageInv
<1> QED
  BY <1>5, <1>6, <1>7 DEF TreeInv

LEMMA MineLegacyRangeKeeps ==
    ASSUME TreeInv, guess' = guess, MineLegacyRange
    PROVE  TreeInv'
<1>1. buffer.phase = "built" /\ job' = job /\ mined' = mined /\ mined = {}
  BY DEF MineLegacyRange, TreeInv, MinedInv
<1>2. buffer.phase \in Finished /\ {"panicked", "mining"} \subseteq Finished
  BY <1>1 DEF Finished
<1>3. PICK at, leafs, nodes :
         /\ buffer = [phase |-> "built", at |-> at, leafs |-> leafs, nodes |-> nodes]
         /\ buffer.at = at /\ buffer.leafs = leafs /\ buffer.nodes = nodes
  BY <1>1, FieldsAre
<1>4. CASE buffer' = [buffer EXCEPT !.phase = "panicked"]
  <2>1. buffer'.phase = "panicked"
    BY <1>3, <1>4
  <2>2. SearchInv' /\ MinedInv'
    BY <1>1, <2>1 DEF SearchInv, MinedInv
  <2> QED
    BY <1>1, <1>2, <1>4, <2>2, Searches
<1>5. CASE buffer' = [buffer EXCEPT !.phase = "mining"] /\ pool' = PoolOver(Attempts)
  <2>1. buffer'.phase = "mining"
    BY <1>3, <1>5
  <2>2. MinedInv'
    BY <1>1, <2>1 DEF MinedInv
  <2>3. /\ pool' = [pending |-> Attempts, held |-> [t \in Threads |-> {}], found |-> {}, tried |-> {}]
        /\ pool'.pending = Attempts /\ pool'.held = [t \in Threads |-> {}]
        /\ pool'.found = {} /\ pool'.tried = {}
    BY <1>5 DEF PoolOver
  <2>4. /\ pool' = [pending |-> pool'.pending, held |-> pool'.held, found |-> pool'.found, tried |-> pool'.tried]
        /\ pool'.pending \subseteq Attempts
        /\ pool'.held \in [Threads -> SUBSET Attempts]
        /\ \A t \in Threads : \A m, n \in pool'.held[t] : m = n
        /\ \A n \in Attempts : n \in pool'.pending
        /\ pool'.tried \subseteq Attempts \X Threads
        /\ pool'.found = pool'.tried \cap job.wins
    BY <2>3
  <2>5. SearchInv'
    BY <1>1, <2>4, JobStays DEF SearchInv
  <2> QED
    BY <1>1, <1>2, <1>5, <2>2, <2>5, Searches
<1> QED
  BY <1>4, <1>5 DEF MineLegacyRange, Attempts

\* A step of a thread.
LEMMA ThreadKeeps ==
    ASSUME TreeInv, guess' = guess, buffer.phase = "mining", UNCHANGED <<job, buffer, mined>>, SearchInv'
    PROVE  TreeInv'
<1>1. mined = {}
  BY DEF TreeInv, MinedInv
<1>2. MinedInv'
  BY <1>1 DEF MinedInv
<1>3. "mining" \in Finished
  BY DEF Finished
<1>4. buffer' = [buffer EXCEPT !.phase = "mining"]
  BY DEF TreeInv, StageInv
<1> QED
  BY <1>2, <1>3, <1>4, Searches

LEMMA TakeAttemptKeeps ==
    ASSUME TreeInv, guess' = guess, NEW t \in Threads, TakeAttempt(t)
    PROVE  TreeInv'
<1>1. PICK item \in pool.pending :
          pool' = [pool EXCEPT !.pending = @ \ {item}, !.held = [@ EXCEPT ![t] = {item}]]
  BY DEF TakeAttempt, Take
<1>2. buffer.phase = "mining" /\ UNCHANGED <<job, buffer, mined>> /\ pool.held[t] = {}
  BY DEF TakeAttempt, Take
<1>3. PICK pending, held, found, tried :
          /\ pool = [pending |-> pending, held |-> held, found |-> found, tried |-> tried]
          /\ pool.pending = pending /\ pool.held = held /\ pool.found = found /\ pool.tried = tried
  BY <1>2 DEF TreeInv, SearchInv
<1>4. /\ pool' = [pending |-> pending \ {item}, held |-> [held EXCEPT ![t] = {item}],
                  found |-> found, tried |-> tried]
      /\ pool'.pending = pending \ {item} /\ pool'.held = [held EXCEPT ![t] = {item}]
      /\ pool'.found = found /\ pool'.tried = tried
  BY <1>1, <1>3
<1>5. /\ item \in pending /\ item \in Attempts /\ pending \subseteq Attempts
      /\ held \in [Threads -> SUBSET Attempts] /\ held[t] = {}
      /\ tried \subseteq Attempts \X Threads /\ found = tried \cap job.wins
  BY <1>1, <1>2, <1>3 DEF TreeInv, SearchInv
<1>6. pool'.held \in [Threads -> SUBSET Attempts]
  BY <1>4, <1>5
<1>7. \A u \in Threads : \A m, n \in pool'.held[u] : m = n
  BY <1>2, <1>3, <1>4, <1>5 DEF TreeInv, SearchInv
<1>8. ASSUME NEW n \in Attempts
      PROVE  \/ n \in pool'.pending
             \/ \E u \in Threads : n \in pool'.held[u]
             \/ \E attempt \in pool'.tried : attempt[1] = n
  <2>1. CASE n = item
    <3>1. n \in pool'.held[t]
      BY <2>1, <1>4, <1>5
    <3> QED
      BY <3>1
  <2>2. CASE n \in pending /\ n # item
    BY <2>2, <1>4
  <2>3. CASE \E u \in Threads : n \in held[u]
    <3>1. PICK u \in Threads : n \in held[u]
      BY <2>3
    <3>2. n \in pool'.held[u]
      BY <3>1, <1>4, <1>5
    <3> QED
      BY <3>2
  <2>4. CASE \E attempt \in tried : attempt[1] = n
    BY <2>4, <1>4
  <2> QED
    BY <1>2, <1>3, <2>1, <2>2, <2>3, <2>4 DEF TreeInv, SearchInv
<1>9. SearchInv'
  <2>1. pool'.pending \subseteq Attempts
    BY <1>4, <1>5
  <2>2. pool' = [pending |-> pool'.pending, held |-> pool'.held, found |-> pool'.found, tried |-> pool'.tried]
    BY <1>4
  <2>3. pool'.tried \subseteq Attempts \X Threads /\ pool'.found = pool'.tried \cap job.wins
    BY <1>4, <1>5
  <2> QED
    BY <1>2, <1>6, <1>7, <1>8, <2>1, <2>2, <2>3, JobStays DEF SearchInv
<1> QED
  BY <1>2, <1>9, ThreadKeeps

LEMMA TryAttemptKeeps ==
    ASSUME TreeInv, guess' = guess, NEW t \in Threads, TryAttempt(t)
    PROVE  TreeInv'
<1>1. buffer.phase = "mining" /\ UNCHANGED <<job, buffer, mined>> /\ pool.held[t] # {}
  BY DEF TryAttempt
<1>2. PICK pending, held, found, tried :
          /\ pool = [pending |-> pending, held |-> held, found |-> found, tried |-> tried]
          /\ pool.pending = pending /\ pool.held = held /\ pool.found = found /\ pool.tried = tried
  BY <1>1 DEF TreeInv, SearchInv
<1>3. /\ held \in [Threads -> SUBSET Attempts] /\ \A m, n \in held[t] : m = n
      /\ pending \subseteq Attempts /\ tried \subseteq Attempts \X Threads /\ found = tried \cap job.wins
  BY <1>1, <1>2 DEF TreeInv, SearchInv
<1>4. PICK item : item = Held(t)
  OBVIOUS
<1>5. item \in held[t] /\ item \in Attempts /\ \A n \in held[t] : n = item
  <2>1. held[t] # {}
    BY <1>1, <1>2
  <2>2. item \in held[t]
    BY <1>2, <1>4, <2>1 DEF Held
  <2> QED
    BY <1>3, <2>2
<1>6. PICK attempt : attempt = <<item, t>> /\ attempt[1] = item /\ attempt \in Attempts \X Threads
  <2>1. <<item, t>>[1] = item /\ <<item, t>> \in Attempts \X Threads
    BY <1>5
  <2> QED
    BY <2>1
<1>7. PICK more : more = IF attempt \in job.wins THEN found \cup {attempt} ELSE found
  OBVIOUS
<1>8. pool' = [pool EXCEPT !.held = [@ EXCEPT ![t] = {}], !.tried = @ \cup {attempt},
                           !.found = IF attempt \in job.wins THEN @ \cup {attempt} ELSE @]
  BY <1>4, <1>6 DEF TryAttempt, Try
<1>9. /\ pool' = [pending |-> pending, held |-> [held EXCEPT ![t] = {}],
                  found |-> more, tried |-> tried \cup {attempt}]
      /\ pool'.pending = pending /\ pool'.held = [held EXCEPT ![t] = {}]
      /\ pool'.found = more /\ pool'.tried = tried \cup {attempt}
  BY <1>2, <1>7, <1>8
<1>10. pool'.held \in [Threads -> SUBSET Attempts]
  BY <1>3, <1>9
<1>11. \A u \in Threads : \A m, n \in pool'.held[u] : m = n
  BY <1>1, <1>2, <1>3, <1>9 DEF TreeInv, SearchInv
<1>12. ASSUME NEW n \in Attempts
       PROVE  \/ n \in pool'.pending
              \/ \E u \in Threads : n \in pool'.held[u]
              \/ \E a \in pool'.tried : a[1] = n
  <2>1. CASE n = item
    <3>1. attempt \in pool'.tried /\ attempt[1] = n
      BY <2>1, <1>6, <1>9
    <3> QED
      BY <3>1
  <2>2. CASE n \in pending
    BY <2>2, <1>9
  <2>3. CASE n # item /\ \E u \in Threads : n \in held[u]
    <3>1. PICK u \in Threads : n \in held[u]
      BY <2>3
    <3>2. u # t
      BY <2>3, <3>1, <1>5
    <3>3. n \in pool'.held[u]
      BY <3>1, <3>2, <1>3, <1>9
    <3> QED
      BY <3>3
  <2>4. CASE \E a \in tried : a[1] = n
    <3>1. PICK a \in tried : a[1] = n
      BY <2>4
    <3>2. a \in pool'.tried
      BY <1>9
    <3> QED
      BY <3>1, <3>2
  <2> QED
    BY <1>1, <1>2, <2>1, <2>2, <2>3, <2>4 DEF TreeInv, SearchInv
<1>13. SearchInv'
  <2>1. pool'.tried \subseteq Attempts \X Threads /\ pool'.found = pool'.tried \cap job.wins
    BY <1>3, <1>6, <1>7, <1>9
  <2>2. pool'.pending \subseteq Attempts
    BY <1>3, <1>9
  <2>3. pool' = [pending |-> pool'.pending, held |-> pool'.held, found |-> pool'.found, tried |-> pool'.tried]
    BY <1>9
  <2> QED
    BY <1>1, <1>10, <1>11, <1>12, <2>1, <2>2, <2>3, JobStays DEF SearchInv
<1> QED
  BY <1>1, <1>13, ThreadKeeps

\* A proof of work is made of the job and of the tree.
LEMMA PowStays ==
    ASSUME job' = job, buffer'.leafs = buffer.leafs, buffer'.nodes = buffer.nodes
    PROVE  \A nonce : Pow(nonce)' = Pow(nonce)
  BY JobStays DEF Pow, Root, Indices, PathAtHeight

LEMMA EndMiningKeeps ==
    ASSUME TreeInv, guess' = guess, EndMining
    PROVE  TreeInv'
<1>1. buffer.phase = "mining" /\ UNCHANGED <<job, pool>> /\ Returns
      /\ buffer' = [buffer EXCEPT !.phase = "mined"]
  BY DEF EndMining
<1>2. buffer.phase \in Finished /\ "mined" \in Finished
  BY <1>1 DEF Finished
<1>3. PICK at, leafs, nodes :
         /\ buffer = [phase |-> "mining", at |-> at, leafs |-> leafs, nodes |-> nodes]
         /\ buffer.at = at /\ buffer.leafs = leafs /\ buffer.nodes = nodes
  BY <1>1, FieldsAre
<1>4. buffer'.phase = "mined" /\ buffer'.leafs = buffer.leafs /\ buffer'.nodes = buffer.nodes
  <2>1. buffer' = [phase |-> "mined", at |-> at, leafs |-> leafs, nodes |-> nodes]
    BY <1>1, <1>3
  <2> QED
    BY <1>3, <2>1
<1>5. /\ pool.found = pool.tried \cap job.wins /\ pool.tried \subseteq Attempts \X Threads
      /\ \A n \in Attempts :
            \/ n \in pool.pending
            \/ \E t \in Threads : n \in pool.held[t]
            \/ \E attempt \in pool.tried : attempt[1] = n
  BY <1>1 DEF TreeInv, SearchInv
<1>6. MinedInv'
  <2>1. CASE pool.found = {}
    <3>1. mined' = {}
      BY <2>1 DEF EndMining
    <3>2. \A n \in Attempts : \E attempt \in pool.tried : attempt[1] = n
      BY <1>1, <1>5, <2>1 DEF Returns
    <3>3. \A attempt \in pool.tried : attempt[1] \in Attempts
      BY <1>5
    <3>4. {attempt[1] : attempt \in pool.tried} = Attempts
      BY <3>2, <3>3
    <3> QED
      BY <1>1, <1>4, <1>5, <2>1, <3>1, <3>4, JobStays DEF MinedInv
  <2>2. CASE pool.found # {}
    <3>1. PICK nonce \in pool.found : mined' = {Pow(nonce)}
      BY <2>2 DEF EndMining
    <3>2. nonce \in job.wins
      BY <1>5, <3>1
    <3>3. Pow(nonce)' = Pow(nonce)
      BY <1>1, <1>4, PowStays
    <3>4. mined' # {} /\ \A pow \in mined' : pow = Pow(nonce)'
      BY <3>1, <3>3
    <3>5. \A pow \in mined' : \E n \in job'.wins : pow = Pow(n)'
      BY <1>1, <3>2, <3>4
    <3> QED
      BY <1>4, <3>4, <3>5 DEF MinedInv
  <2> QED
    BY <2>1, <2>2
<1>7. SearchInv'
  BY <1>4 DEF SearchInv
<1> QED
  BY <1>1, <1>2, <1>6, <1>7, Searches


-----------------------------------------------------------------------------
(* All steps.                                                              *)

LEMMA TreeInvInit == Init => TreeInv
<1> SUFFICES ASSUME Init PROVE TreeInv
  OBVIOUS
<1>1. JobInv /\ mined = {}
  BY DEF Init, JobInv
<1>2. Off = [phase |-> "off", at |-> 0, leafs |-> <<>>, nodes |-> <<>>]
  BY DEF Off
<1>3. \/ /\ buffer = [phase |-> "buds", at |-> 0, leafs |-> <<>>, nodes |-> <<>>]
         /\ guess = [pc |-> "off", at |-> 0, answer |-> {}]
      \/ buffer = [phase |-> "off", at |-> 0, leafs |-> <<>>, nodes |-> <<>>]
  BY <1>2 DEF Init
<1>4. StageInv /\ buffer.phase \in {"off", "buds"}
  BY <1>3 DEF StageInv
<1> QED
  BY <1>1, <1>4, OtherPhase DEF TreeInv, Finished

\* The step of the other search of the command.
LEMMA GuessKeeps ==
    ASSUME TreeInv, GuessStep, UNCHANGED <<job, buffer, mined>>
    PROVE  TreeInv'
<1>1. guess.pc # "off"
  BY DEF GuessStep, Refuse, StartPool, StartAlone, EndPool, LoopTry, LoopEnd, Dispatch, GiveUp,
         Readback, TakeNonce, TryNonce, LaneStart, LaneExchange, LaneNonce, LaneDigest
<1>2. buffer.phase = "off" /\ mined = {}
  BY <1>1 DEF TreeInv, StageInv, MinedInv
<1>3. JobInv' /\ StageInv'
  BY <1>2, JobStays DEF TreeInv, StageInv
<1>4. RoundsInv' /\ ReversalInv' /\ LeafsInv' /\ LevelsInv' /\ SearchInv' /\ MinedInv'
  BY <1>2 DEF RoundsInv, ReversalInv, LeafsInv, LevelsInv, SearchInv, MinedInv, Finished
<1> QED
  BY <1>3, <1>4 DEF TreeInv

\* No step.
LEMMA StutterKeeps ==
    ASSUME TreeInv, UNCHANGED vars
    PROVE  TreeInv'
<1>1. UNCHANGED <<job, buffer, mined, guess, pool>>
  BY DEF vars
<1>2. \A o : NodeIs(o)' <=> NodeIs(o)
  BY <1>1, JobStays DEF NodeIs
<1>3. \A nonce : Pow(nonce)' = Pow(nonce)
  BY <1>1, PowStays
<1>4. JobInv' /\ StageInv' /\ RoundsInv' /\ ReversalInv' /\ LeafsInv'
  BY <1>1, JobStays DEF TreeInv, StageInv, RoundsInv, ReversalInv, LeafsInv
<1>5. LevelsInv'
  BY <1>1, <1>2, JobStays DEF TreeInv, LevelsInv
<1>6. SearchInv'
  BY <1>1, JobStays DEF TreeInv, SearchInv
<1>7. MinedInv'
  BY <1>1, <1>3, JobStays DEF TreeInv, MinedInv
<1> QED
  BY <1>4, <1>5, <1>6, <1>7 DEF TreeInv

LEMMA TreeInvStep == TreeInv /\ [Next]_vars => TreeInv'
<1> SUFFICES ASSUME TreeInv, [Next]_vars PROVE TreeInv'
  OBVIOUS
<1>1. CASE UNCHANGED vars
  BY <1>1, StutterKeeps
<1>2. CASE BufferStep /\ UNCHANGED <<asked, guess, result, lanes, history>>
  <2>1. guess' = guess
    BY <1>2
  <2> QED
    BY <1>2, <2>1, BudsKeep, ButterflyKeeps, EndRoundsKeeps, SwapLeafKeeps, EndReversalKeeps,
       LastLevelKeeps, LevelKeeps, EndLevelsKeeps, MineLegacyRangeKeeps, EndMiningKeeps,
       TakeAttemptKeeps, TryAttemptKeeps
       DEF BufferStep
<1>3. CASE GuessStep /\ UNCHANGED <<job, buffer, mined>>
  BY <1>3, GuessKeeps
<1> QED
  BY <1>1, <1>2, <1>3 DEF Next

\* The inductive invariant of the tree and of the search on it: what each
\* round, exchange and level of honeycrisp/neptune_mine.rs has made so far.
THEOREM TreeIsSound == Spec => []TreeInv
<1> QED
  BY TreeInvInit, TreeInvStep, PTL DEF Spec

-----------------------------------------------------------------------------
(* The finished tree.                                                      *)

\* A sibling is on the same level.
LEMMA SiblingIs ==
    ASSUME NEW p \in Nat, p >= 1, NEW x \in 2 * p .. 4 * p - 1
    PROVE  Sibling(x) \in 2 * p .. 4 * p - 1
<1>1. x \in Nat /\ x \div 2 \in Nat /\ x % 2 \in {0, 1} /\ x = 2 * (x \div 2) + (x % 2)
  OBVIOUS
<1>2. CASE x % 2 = 0
  <2>1. x + 1 \in 2 * p .. 4 * p - 1
    BY <1>1, <1>2
  <2> QED
    BY <1>2, <2>1 DEF Sibling
<1>3. CASE x % 2 = 1
  <2>1. x - 1 \in 2 * p .. 4 * p - 1
    BY <1>1, <1>3
  <2> QED
    BY <1>3, <2>1 DEF Sibling
<1> QED
  BY <1>1, <1>2, <1>3

\* The nodes of the tree with those that are not kept, numbered from the root;
\* a path has the siblings on the way up from its leaf.
LEMMA HeapIs ==
    ASSUME JobInv, LevelsInv, buffer.phase \in Finished
    PROVE  \E F : /\ IsHeap(F, job.height) /\ F[1] = Root
                  /\ \A index \in Places :
                        /\ F[NumLeafs + index] = buffer.leafs[index]
                        /\ \A k \in 1 .. job.height :
                              PathAtHeight(index)[k] = F[Sibling(Shifted(NumLeafs + index, k - 1))]
<1>1. PICK h \in Nat : h = job.height /\ h >= 2 /\ Pow2[h] = NumLeafs
  <2>1. PICK h : h = job.height
    OBVIOUS
  <2>2. h \in Nat /\ h >= 2
    BY <2>1, JobIs
  <2> QED
    BY <2>1, <2>2 DEF NumLeafs
<1>2. PICK q \in Nat : q = Pow2[h - 2] /\ q >= 1 /\ NumLeafs = 4 * q
  BY <1>1, LeafsAre
<1>3. NumLeafs \div 2 = 2 * q
  BY <1>2
<1>4. PICK leafs, nodes : leafs = buffer.leafs /\ nodes = buffer.nodes
  OBVIOUS
<1>5. \A o \in 1 .. 2 * q - 1 : nodes[o] =
        IF 4 * o < 4 * q THEN <<nodes[2 * o], nodes[2 * o + 1]>>
        ELSE << <<leafs[4 * o - 4 * q], leafs[4 * o + 1 - 4 * q]>>,
                <<leafs[4 * o + 2 - 4 * q], leafs[4 * o + 3 - 4 * q]>> >>
  <2>1. buffer.at = 1 /\ \A o \in buffer.at .. (NumLeafs \div 2) - 1 : NodeIs(o)
    BY DEF LevelsInv, Finished
  <2>2. \A o \in 1 .. 2 * q - 1 : NodeIs(o)
    BY <1>3, <2>1
  <2> QED
    BY <1>2, <1>4, <2>2 DEF NodeIs
<1> DEFINE F == [o \in 1 .. 8 * q - 1 |->
                    IF o < 2 * q THEN nodes[o]
                    ELSE IF o < 4 * q THEN <<leafs[2 * o - 4 * q], leafs[2 * o + 1 - 4 * q]>>
                    ELSE leafs[o - 4 * q]]
<1>6. /\ \A o \in 1 .. 2 * q - 1 : F[o] = nodes[o]
      /\ \A o \in 2 * q .. 4 * q - 1 : F[o] = <<leafs[2 * o - 4 * q], leafs[2 * o + 1 - 4 * q]>>
      /\ \A o \in 4 * q .. 8 * q - 1 : F[o] = leafs[o - 4 * q]
  <2>1. ASSUME NEW o \in 1 .. 2 * q - 1 PROVE o \in 1 .. 8 * q - 1 /\ o < 2 * q
    BY <1>2
  <2>2. ASSUME NEW o \in 2 * q .. 4 * q - 1 PROVE o \in 1 .. 8 * q - 1 /\ ~(o < 2 * q) /\ o < 4 * q
    BY <1>2
  <2>3. ASSUME NEW o \in 4 * q .. 8 * q - 1 PROVE o \in 1 .. 8 * q - 1 /\ ~(o < 2 * q) /\ ~(o < 4 * q)
    BY <1>2
  <2> QED
    BY <2>1, <2>2, <2>3
<1> HIDE DEF F
<1>7. IsHeap(F, job.height)
  <2> SUFFICES ASSUME NEW o \in 1 .. 4 * q - 1 PROVE F[o] = <<F[2 * o], F[2 * o + 1]>>
    BY <1>1, <1>2 DEF IsHeap
  <2>1. CASE o < q
    <3>1. o \in 1 .. 2 * q - 1 /\ 2 * o \in 1 .. 2 * q - 1 /\ 2 * o + 1 \in 1 .. 2 * q - 1 /\ 4 * o < 4 * q
      BY <1>2, <2>1
    <3> QED
      BY <1>5, <1>6, <3>1
  <2>2. CASE o >= q /\ o < 2 * q
    <3>1. /\ o \in 1 .. 2 * q - 1 /\ ~(4 * o < 4 * q)
          /\ 2 * o \in 2 * q .. 4 * q - 1 /\ 2 * o + 1 \in 2 * q .. 4 * q - 1
          /\ 2 * (2 * o) - 4 * q = 4 * o - 4 * q /\ 2 * (2 * o) + 1 - 4 * q = 4 * o + 1 - 4 * q
          /\ 2 * (2 * o + 1) - 4 * q = 4 * o + 2 - 4 * q
          /\ 2 * (2 * o + 1) + 1 - 4 * q = 4 * o + 3 - 4 * q
      BY <1>2, <2>2
    <3>2. F[2 * o] = <<leafs[4 * o - 4 * q], leafs[4 * o + 1 - 4 * q]>>
      BY <1>6, <3>1
    <3>3. F[2 * o + 1] = <<leafs[4 * o + 2 - 4 * q], leafs[4 * o + 3 - 4 * q]>>
      BY <1>6, <3>1
    <3>4. F[o] = << <<leafs[4 * o - 4 * q], leafs[4 * o + 1 - 4 * q]>>,
                    <<leafs[4 * o + 2 - 4 * q], leafs[4 * o + 3 - 4 * q]>> >>
      BY <1>5, <1>6, <3>1
    <3> QED
      BY <3>2, <3>3, <3>4
  <2>3. CASE o >= 2 * q
    <3>1. o \in 2 * q .. 4 * q - 1 /\ 2 * o \in 4 * q .. 8 * q - 1 /\ 2 * o + 1 \in 4 * q .. 8 * q - 1
      BY <1>2, <2>3
    <3> QED
      BY <1>6, <3>1
  <2> QED
    BY <1>2, <2>1, <2>2, <2>3
<1>8. F[1] = Root
  <2>1. 1 \in 1 .. 2 * q - 1
    BY <1>2
  <2> QED
    BY <1>4, <1>6, <2>1 DEF Root
<1>9. ASSUME NEW index \in Places
      PROVE  /\ F[NumLeafs + index] = leafs[index]
             /\ \A k \in 1 .. h : PathAtHeight(index)[k] = F[Sibling(Shifted(NumLeafs + index, k - 1))]
  <2>1. index \in Nat /\ index < 4 * q
    BY <1>2 DEF Places
  <2>2. PICK n \in Nat : n = NumLeafs + index /\ n = index + NumLeafs /\ n = 4 * q + index
    BY <1>2, <2>1
  <2>3. F[n] = leafs[index]
    <3>1. n \in 4 * q .. 8 * q - 1 /\ n - 4 * q = index
      BY <1>2, <2>1, <2>2
    <3> QED
      BY <1>6, <3>1
  <2>4. /\ Shifted(n, 0) = n /\ Shifted(n, 1) = n \div 2
    BY <2>2, ShiftsAre, 0 \in Nat, 0 + 1 = 1
  <2>5. ASSUME NEW k \in 1 .. h
        PROVE  PathAtHeight(index)[k] = F[Sibling(Shifted(n, k - 1))]
    <3>1. PICK j : j = Sibling(n \div 2) - 2 * q
      OBVIOUS
    <3>2. PathAtHeight(index)[k] =
            IF k = 1 THEN leafs[Sibling(index)]
            ELSE IF k = 2 THEN <<leafs[2 * j], leafs[2 * j + 1]>>
            ELSE nodes[Sibling(Shifted(n, k - 1))]
      BY <1>1, <1>3, <1>4, <2>2, <2>4, <3>1 DEF PathAtHeight, HashPair
    <3>3. CASE k = 1
      <4>1. n \in 2 * (2 * q) .. 4 * (2 * q) - 1 /\ 2 * q \in Nat /\ 2 * q >= 1
        BY <1>2, <2>1, <2>2
      <4>2. Sibling(n) \in 4 * q .. 8 * q - 1
        <5>1. Sibling(n) \in 2 * (2 * q) .. 4 * (2 * q) - 1
          BY <4>1, SiblingIs
        <5> QED
          BY <1>2, <5>1
      <4>3. Sibling(n) - 4 * q = Sibling(index)
        <5>1. n % 2 = index % 2
          BY <2>1, <2>2
        <5> QED
          BY <2>1, <2>2, <5>1 DEF Sibling
      <4> QED
        BY <1>6, <2>4, <3>2, <3>3, <4>2, <4>3
    <3>4. CASE k = 2
      <4>1. n \div 2 \in 2 * q .. 4 * q - 1
        BY <1>2, <2>1, <2>2
      <4>2. PICK s \in 2 * q .. 4 * q - 1 : s = Sibling(n \div 2)
        BY <1>2, <4>1, SiblingIs
      <4>3. 2 * j = 2 * s - 4 * q /\ 2 * j + 1 = 2 * s + 1 - 4 * q
        BY <1>2, <3>1, <4>2
      <4>4. PathAtHeight(index)[k] = <<leafs[2 * s - 4 * q], leafs[2 * s + 1 - 4 * q]>>
        BY <3>2, <3>4, <4>3
      <4>5. F[s] = <<leafs[2 * s - 4 * q], leafs[2 * s + 1 - 4 * q]>>
        BY <1>6, <4>2
      <4> QED
        BY <2>4, <3>4, <4>2, <4>4, <4>5
    <3>5. CASE k > 2
      <4>1. k - 1 \in 0 .. h /\ h - (k - 1) \in 0 .. h - 2 /\ h - k \in Nat /\ h - k + 1 = h - (k - 1)
            /\ h - 2 \in Nat
        BY <1>1, <3>5
      <4>2. PICK p \in Nat : p = Pow2[h - k] /\ p >= 1 /\ Pow2[h - (k - 1)] = 2 * p
        BY <4>1, PowersAre
      <4>3. 2 * p <= q
        BY <1>2, <4>1, <4>2, PowersGrow
      <4>4. PICK x \in Nat : x = Shifted(index, k - 1)
        BY <2>1, <4>1, ShiftsAre
      <4>5. Shifted(n, k - 1) = 2 * p + x /\ x < 2 * p
        <5>1. index < Pow2[h] /\ n = Pow2[h] + index
          BY <1>1, <1>2, <2>1, <2>2
        <5>2. Shifted(index, k - 1) < Pow2[h - (k - 1)]
              /\ Shifted(Pow2[h] + index, k - 1) = Pow2[h - (k - 1)] + Shifted(index, k - 1)
          BY <2>1, <4>1, <5>1, ShiftsFit
        <5> QED
          BY <4>2, <4>4, <5>1, <5>2, Zenon
      <4>6. Shifted(n, k - 1) \in 2 * p .. 4 * p - 1
        BY <4>2, <4>4, <4>5
      <4>7. PICK s \in 2 * p .. 4 * p - 1 : s = Sibling(Shifted(n, k - 1))
        BY <4>2, <4>6, SiblingIs
      <4>8. s \in 1 .. 2 * q - 1
        BY <1>2, <4>2, <4>3
      <4> QED
        BY <1>6, <3>2, <3>5, <4>7, <4>8
    <3> QED
      BY <1>1, <3>3, <3>4, <3>5
  <2> QED
    BY <2>2, <2>3, <2>5
<1> QED
  BY <1>1, <1>4, <1>7, <1>8, <1>9

\* The finished tree is the tree that a verifier has.
LEMMA FinishedIs ==
    ASSUME JobInv, LeafsInv, LevelsInv, buffer.phase \in Finished
    PROVE  /\ Root = MerkleRoot([i \in 1 .. NumLeafs |-> buffer.leafs[i - 1]], job.height)
           /\ \A index \in Places :
                 /\ buffer.leafs[index] = NativeLeaf(index)
                 /\ Authenticates(NativeLeaf(index), index, PathAtHeight(index), Root)
<1>1. PICK F :
         /\ IsHeap(F, job.height) /\ F[1] = Root
         /\ \A index \in Places :
               /\ F[NumLeafs + index] = buffer.leafs[index]
               /\ \A k \in 1 .. job.height :
                     PathAtHeight(index)[k] = F[Sibling(Shifted(NumLeafs + index, k - 1))]
  BY HeapIs
<1>2. PICK h \in Nat : h = job.height /\ Pow2[h] = NumLeafs
  BY JobIs DEF NumLeafs
<1>3. PICK all \in Nat : all = NumLeafs
  BY LeafsAre
<1>4. PICK s : s = [i \in 1 .. NumLeafs |-> buffer.leafs[i - 1]]
  OBVIOUS
<1>5. ASSUME NEW i \in 1 .. all PROVE s[i] = F[all + i - 1]
  <2>1. i - 1 \in Places /\ all + (i - 1) = all + i - 1
    BY <1>3 DEF Places
  <2>2. F[all + (i - 1)] = buffer.leafs[i - 1]
    BY <1>1, <1>3, <2>1
  <2> QED
    BY <1>3, <1>4, <2>1, <2>2
<1>6. MerkleRoot(s, h) = F[1]
  BY <1>1, <1>2, <1>3, <1>5, HeapRoot
<1>7. ASSUME NEW index \in Places
      PROVE  /\ buffer.leafs[index] = NativeLeaf(index)
             /\ Authenticates(NativeLeaf(index), index, PathAtHeight(index), Root)
  <2>1. buffer.leafs[index] = NativeLeaf(index)
    BY <1>7 DEF LeafsInv
  <2>2. PICK path : path = PathAtHeight(index)
    OBVIOUS
  <2>3. Len(path) = h
    <3>1. path = [k \in 1 .. h |-> path[k]]
      BY <1>2, <2>2 DEF PathAtHeight
    <3> QED
      BY <3>1
  <2>4. index \in 0 .. Pow2[h] - 1
    BY <1>2 DEF Places
  <2>5. \A k \in 1 .. h : path[k] = F[Sibling(Shifted(Pow2[h] + index, k - 1))]
    BY <1>1, <1>2, <2>2
  <2>6. Authenticates(F[Pow2[h] + index], index, path, F[1])
    BY <1>1, <1>2, <2>3, <2>4, <2>5, PathLeads
  <2> QED
    BY <1>1, <1>2, <2>1, <2>2, <2>6
<1> QED
  BY <1>1, <1>2, <1>4, <1>6, <1>7

\* The words of a nonce lead to places in the tree.
LEMMA IndicesFit ==
    ASSUME JobInv, NEW nonce \in job.wins
    PROVE  Indices(nonce)[1] \in Places /\ Indices(nonce)[2] \in Places
<1>1. PICK all \in Nat \ {0} : all = NumLeafs
  BY LeafsAre
<1>2. nonce \in Attempts \X Threads /\ job.words \in [Attempts \X Threads -> Nat \X Nat]
  BY JobIs
<1>3. job.words[nonce] \in Nat \X Nat
  BY <1>2
<1>4. PICK a \in Nat, b \in Nat : a = job.words[nonce][1] /\ b = job.words[nonce][2]
  BY <1>3
<1>5. a % all \in 0 .. all - 1 /\ b % all \in 0 .. all - 1
  OBVIOUS
<1> QED
  BY <1>1, <1>4, <1>5 DEF Indices, Places

\* At any height, in either order and with any number of rounds: every leaf of
\* the finished tree is the root over its own buds, its path leads to the root
\* over all leaves, and what the search returns has both paths of its own nonce
\* and a hash within the target; and nothing is returned only after every
\* attempt was tried and none won (honeycrisp/neptune_mine.rs).
THEOREM PathsAlwaysAuthenticate == Spec => []PathsAuthenticate
<1>1. TreeInv => PathsAuthenticate
  <2> SUFFICES ASSUME TreeInv PROVE PathsAuthenticate
    OBVIOUS
  <2>1. ASSUME buffer.phase \in Finished
        PROVE  /\ Root = MerkleRoot([i \in 1 .. NumLeafs |-> buffer.leafs[i - 1]], job.height)
               /\ \A index \in Places :
                     /\ buffer.leafs[index] = NativeLeaf(index)
                     /\ Authenticates(NativeLeaf(index), index, PathAtHeight(index), Root)
    BY <2>1, FinishedIs DEF TreeInv
  <2>2. ASSUME NEW pow \in mined
        PROVE  LET leaf == Indices(pow.nonce)
               IN  /\ Authenticates(NativeLeaf(leaf[1]), leaf[1], pow.path_a, pow.root)
                   /\ Authenticates(NativeLeaf(leaf[2]), leaf[2], pow.path_b, pow.root)
                   /\ pow.root = Root /\ pow.nonce \in job.wins
    <3>1. buffer.phase \in Finished
      BY DEF TreeInv, MinedInv, Finished
    <3>2. PICK nonce \in job.wins : pow = Pow(nonce)
      BY DEF TreeInv, MinedInv
    <3>3. /\ pow.nonce = nonce /\ pow.root = Root
          /\ pow.path_a = PathAtHeight(Indices(nonce)[1]) /\ pow.path_b = PathAtHeight(Indices(nonce)[2])
      BY <3>2 DEF Pow
    <3>4. Indices(nonce)[1] \in Places /\ Indices(nonce)[2] \in Places
      BY IndicesFit DEF TreeInv
    <3> QED
      BY <2>1, <3>1, <3>2, <3>3, <3>4
  <2>3. buffer.phase = "mined" /\ mined = {} =>
          /\ {attempt[1] : attempt \in pool.tried} = Range0(job.start, job.count)
          /\ pool.tried \cap job.wins = {}
    BY DEF TreeInv, MinedInv, Attempts
  <2>4. buffer.phase = "built" => buffer.phase \in Finished
    BY DEF Finished
  <2> QED
    BY <2>1, <2>2, <2>3, <2>4 DEF PathsAuthenticate, Places
<1> QED
  BY <1>1, TreeIsSound, PTL

===============================================================================
