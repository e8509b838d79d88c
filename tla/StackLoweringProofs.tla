-------------------------- MODULE StackLoweringProofs --------------------------
(***************************************************************************)
(* Proofs about the code that reaches words below the window of the stack: *)
(* that it does what the operation means, keeps every cell that is in use  *)
(* and fails only where no cells are free, at every depth, from every      *)
(* stack and RAM, for every field, every window of more than three words   *)
(* and every chunk of more than one.                                       *)
(*                                                                         *)
(* The code is reasoned about from its end to its beginning.  A state is   *)
(* good for a piece of code if the machine, from there on, stays where it  *)
(* may be until it is at the end of the piece, in the state it should end  *)
(* in.  Each instruction has a rule that says what makes the state before  *)
(* it good; the rules make those of CountZeros, borrow, search, Batch and  *)
(* restore, these the ones of a dup and a swap, and these the inductive    *)
(* invariant of a program of one of them.  Loops, in the machine and in    *)
(* the lowerer, take an induction over a set of numbers (Stepwise).        *)
(***************************************************************************)
EXTENDS StackLowering, SequenceTheorems, WellFoundedInduction, TLAPS

-----------------------------------------------------------------------------
(* Numbers.                                                                *)

Smaller == {pair \in Nat \X Nat : pair[1] < pair[2]}

\* A set of numbers has a least one.
LEMMA Least ==
    ASSUME NEW T \in SUBSET Nat, T # {}
    PROVE  \E n \in T : \A m \in T : n <= m
<1>1. OpToRel(<, Nat) = Smaller
  BY Zenon DEF OpToRel, Smaller
<1>2. IsWellFoundedOn(Smaller, Nat)
  BY <1>1, NatLessThanWellFounded, Zenon
<1>3. PICK x \in T : \A y \in T : ~ (<<y, x>> \in Smaller)
  BY <1>2, WFMin, Zenon
<1>4. ASSUME NEW y \in Nat, y < x PROVE <<y, x>> \in Smaller
  <2>1. <<y, x>> \in Nat \X Nat /\ <<y, x>>[1] = y /\ <<y, x>>[2] = x
    OBVIOUS
  <2> QED
    BY <1>4, <2>1 DEF Smaller
<1>5. \A y \in T : ~(y < x)
  BY <1>3, <1>4, Zenon
<1> QED
  BY <1>5

\* What holds of 0, and of the next number if of one, holds of all.
LEMMA Stepwise ==
    ASSUME NEW T \in SUBSET Nat, 0 \in T, \A n \in T : n + 1 \in T
    PROVE  T = Nat
<1> DEFINE U == {n \in Nat : n \notin T}
<1> SUFFICES ASSUME U # {} PROVE FALSE
  BY Zenon
<1>1. PICK m \in U : \A n \in U : m <= n
  BY Least, Zenon
<1>2. m \in Nat /\ m \notin T /\ m # 0
  OBVIOUS
<1>3. m - 1 \in Nat /\ ~(m <= m - 1)
  BY <1>2
<1>4. m - 1 \in T
  BY <1>1, <1>3
<1>5. m - 1 + 1 = m
  BY <1>2
<1> QED
  BY <1>2, <1>4, <1>5

-----------------------------------------------------------------------------
(* The machine as a function.                                              *)

\* The state of the machine as a value.
Processor == [ip |-> ip, stack |-> stack, ram |-> ram, calls |-> calls, halt |-> halt]

At(p, s, r, c) == [ip |-> p, stack |-> s, ram |-> r, calls |-> c, halt |-> "no"]

\* A word on top of a stack.
Put(a, s) == <<a>> \o s

\* A stack without its first n words.
Over(s, n) == SubSeq(s, n + 1, Len(s))

\* What read_mem of n words from address a down finds, and what RAM is after
\* write_mem of the words from a up.
Cellwise(r, a, n) == [k \in 1 .. n |-> r[(a - (n - k)) % Order]]
Written(r, a, n, w) == [b \in Words |-> IF (b - a) % Order < n THEN w[((b - a) % Order) + 2] ELSE r[b]]

\* The instruction can be executed on stack s (Holds of TritonMachine).
CanRun(i, s) ==
    /\ Encodable(i)
    /\ Len(s) - Taken(i) >= Window
    /\ i[1] = "assert" => s[1] = 1

\* The stack that a plain instruction leaves.
Result(i, s, r) ==
    IF i[1] = "push" THEN <<i[2]>> \o s
    ELSE IF i[1] = "pop" THEN Over(s, i[2])
    ELSE IF i[1] = "dup" THEN <<s[i[2] + 1]>> \o s
    ELSE IF i[1] = "swap" THEN [s EXCEPT ![1] = s[i[2] + 1], ![i[2] + 1] = s[1]]
    ELSE IF i[1] = "add" THEN <<(s[1] + s[2]) % Order>> \o Over(s, 2)
    ELSE IF i[1] = "mul" THEN <<(s[1] * s[2]) % Order>> \o Over(s, 2)
    ELSE IF i[1] = "eq" THEN <<IF s[1] = s[2] THEN 1 ELSE 0>> \o Over(s, 2)
    ELSE IF i[1] = "assert" THEN Over(s, 1)
    ELSE IF i[1] = "read_mem" THEN <<(s[1] - i[2]) % Order>> \o Cellwise(r, s[1], i[2]) \o Over(s, 1)
    ELSE IF i[1] = "write_mem" THEN <<(s[1] + i[2]) % Order>> \o Over(s, i[2] + 1)
    ELSE IF i[1] = "skiz" THEN Over(s, 1)
    ELSE s

\* The instruction failed.
Crashed(y) ==
    [ip |-> y.ip, stack |-> y.stack, ram |-> y.ram, calls |-> y.calls, halt |-> "crashed"]

\* The state after one instruction: what Execute of TritonMachine does.
After(i, e, y) ==
    IF ~ CanRun(i, y.stack) THEN Crashed(y)
    ELSE [ip |-> IF i[1] = "skiz" THEN IF y.stack[1] = 0 THEN y.ip + 2 ELSE y.ip + 1
                 ELSE IF i[1] = "call" THEN e[i[2]]
                 ELSE IF i[1] = "return" THEN y.calls[1][1]
                 ELSE IF i[1] = "recurse" THEN y.calls[1][2]
                 ELSE IF i[1] = "halt" THEN y.ip
                 ELSE y.ip + 1,
          stack |-> Result(i, y.stack, y.ram),
          ram |-> IF i[1] = "write_mem" THEN Written(y.ram, y.stack[1], i[2], y.stack) ELSE y.ram,
          calls |-> IF i[1] = "call" THEN <<<<y.ip + 1, e[i[2]]>>>> \o y.calls
                    ELSE IF i[1] = "return" THEN Tail(y.calls)
                    ELSE y.calls,
          halt |-> IF i[1] = "halt" THEN "yes" ELSE y.halt]

\* After is Execute, for the instructions the lowerer emits.
LEMMA ExecuteIsAfter ==
    ASSUME NEW i, NEW e, Execute(i, e)
    PROVE  Processor' = After(i, e, Processor)
<1> DEFINE y == Processor
<1>1. y.ip = ip /\ y.stack = stack /\ y.ram = ram /\ y.calls = calls /\ y.halt = halt
  BY DEF Processor
<1>2. CASE ~ Holds(i)
  <2>1. ~ CanRun(i, y.stack) /\ Crash
    BY <1>1, <1>2 DEF Execute, Holds, CanRun
  <2>2. Processor' = Crashed(y)
    BY <2>1 DEF Crash, Crashed, Processor
  <2> QED
    BY <2>1, <2>2 DEF After
<1>3. CASE Holds(i)
  <2>1. CanRun(i, y.stack)
    BY <1>1, <1>3 DEF Holds, CanRun
  <2>2. CASE DoPush(i)
    BY <2>1, <2>2 DEF DoPush, Leave, Processor, After, Result, Over
  <2>3. CASE DoPop(i)
    BY <2>1, <2>3 DEF DoPop, Leave, Processor, After, Result, Over, Below
  <2>4. CASE DoDup(i)
    BY <2>1, <2>4 DEF DoDup, Leave, Processor, After, Result, Over
  <2>5. CASE DoSwap(i)
    BY <2>1, <2>5 DEF DoSwap, Leave, Processor, After, Result, Over
  <2>6. CASE DoAdd(i)
    BY <2>1, <2>6 DEF DoAdd, Leave, Processor, After, Result, Over, Below
  <2>7. CASE DoMul(i)
    BY <2>1, <2>7 DEF DoMul, Leave, Processor, After, Result, Over, Below
  <2>8. CASE DoEq(i)
    BY <2>1, <2>8 DEF DoEq, Leave, Processor, After, Result, Over, Below
  <2>9. CASE DoAssert(i)
    BY <2>1, <2>9 DEF DoAssert, Leave, Processor, After, Result, Over, Below
  <2>10. CASE DoReadMem(i)
    BY <2>1, <2>10 DEF DoReadMem, Leave, Processor, After, Result, Over, Below, Cellwise
  <2>11. CASE DoWriteMem(i)
    BY <2>1, <2>11 DEF DoWriteMem, Processor, After, Result, Over, Below, Written
  <2>12. CASE DoSkiz(i)
    BY <2>1, <2>12 DEF DoSkiz, Processor, After, Result, Over, Below
  <2>13. CASE DoCall(i, e)
    BY <2>1, <2>13 DEF DoCall, Processor, After, Result
  <2>14. CASE DoReturn(i)
    BY <2>1, <2>14 DEF DoReturn, Processor, After, Result
  <2>15. CASE DoRecurse(i)
    BY <2>1, <2>15 DEF DoRecurse, Processor, After, Result
  <2>16. CASE DoHalt(i)
    BY <2>1, <2>16 DEF DoHalt, Processor, After, Result
  <2> QED
    BY <1>3, <2>2, <2>3, <2>4, <2>5, <2>6, <2>7, <2>8, <2>9, <2>10, <2>11, <2>12,
       <2>13, <2>14, <2>15, <2>16, Zenon DEF Execute
<1> QED
  BY <1>2, <1>3

-----------------------------------------------------------------------------
(* Stacks.                                                                 *)

\* Stacks the native window fits into, and contents of RAM.
Deep == {s \in Seq(Words) : Len(s) >= Window}
Memory == [Words -> Words]

\* A word on top of a stack moves the others down by one.
LEMMA PutFacts ==
    ASSUME NEW a \in Words, NEW s \in Seq(Words)
    PROVE  /\ Put(a, s) \in Seq(Words)
           /\ Len(Put(a, s)) = Len(s) + 1
           /\ Put(a, s)[1] = a
           /\ \A i \in 1 .. Len(s) : Put(a, s)[i + 1] = s[i]
<1>1. <<a>> \in Seq(Words) /\ Len(<<a>>) = 1 /\ <<a>>[1] = a
  OBVIOUS
<1>2. Len(s) \in Nat
  OBVIOUS
<1>3. /\ <<a>> \o s \in Seq(Words)
      /\ Len(<<a>> \o s) = 1 + Len(s)
      /\ \A i \in 1 .. 1 + Len(s) : (<<a>> \o s)[i] = IF i <= 1 THEN <<a>>[i] ELSE s[i - 1]
  BY <1>1, ConcatProperties
<1> QED
  BY <1>1, <1>2, <1>3 DEF Put

\* What a deep stack has.
LEMMA DeepFacts ==
    ASSUME NEW s \in Deep
    PROVE  /\ s \in Seq(Words) /\ Len(s) \in Nat /\ Len(s) >= Window /\ Window >= 3 /\ Window \in Nat
           /\ Order \in Nat \ {0} /\ Chunk \in Nat \ {0} /\ Window > Chunk + 1
           /\ \A a \in Words : Put(a, s) \in Deep
<1>1. s \in Seq(Words) /\ Len(s) \in Nat /\ Len(s) >= Window
  BY DEF Deep
<1>2. ASSUME NEW a \in Words PROVE Put(a, s) \in Deep
  BY <1>1, <1>2, PutFacts, MachineAssumption DEF Deep
<1> QED
  BY <1>1, <1>2, MachineAssumption

\* What is left below the first n words.
LEMMA OverIs ==
    ASSUME NEW t \in Seq(Words), NEW n \in Nat, n <= Len(t)
    PROVE  /\ Over(t, n) \in Seq(Words)
           /\ Len(Over(t, n)) = Len(t) - n
           /\ \A i \in 1 .. Len(t) - n : Over(t, n)[i] = t[i + n]
<1>1. Len(t) \in Nat /\ n + 1 \in Int
  OBVIOUS
<1>2. \A i \in n + 1 .. Len(t) : t[i] \in Words
  BY <1>1, ElementOfSeq
<1>3. /\ Over(t, n) \in Seq(Words)
      /\ Len(Over(t, n)) = IF n + 1 <= Len(t) THEN Len(t) - (n + 1) + 1 ELSE 0
      /\ \A i \in 1 .. Len(t) - (n + 1) + 1 : Over(t, n)[i] = t[n + 1 + i - 1]
  BY <1>1, <1>2 DEF Over
<1>4. \A i \in 1 .. Len(t) - n : n + 1 + i - 1 = i + n /\ i \in 1 .. Len(t) - (n + 1) + 1
  BY <1>1
<1> QED
  BY <1>1, <1>3, <1>4

\* The words below others.
LEMMA OverConcat ==
    ASSUME NEW w \in Seq(Words), NEW s \in Seq(Words)
    PROVE  Over(w \o s, Len(w)) = s
<1> DEFINE t == w \o s
           n == Len(w)
           m == Len(s)
<1>1. n \in Nat /\ m \in Nat
  OBVIOUS
<1>2. t \in Seq(Words) /\ Len(t) = n + m
      /\ \A i \in 1 .. n + m : t[i] = IF i <= n THEN w[i] ELSE s[i - n]
  BY ConcatProperties
<1>3. \A i \in 1 .. n + m : ~(i <= n) => t[i] = s[i - n]
  BY <1>2, Zenon
<1>4. Len(s) = m
  OBVIOUS
<1> HIDE DEF t, n, m
<1>5. n <= Len(t) /\ Len(t) - n = m
  BY <1>1, <1>2
<1>6. /\ Over(t, n) \in Seq(Words) /\ Len(Over(t, n)) = m
      /\ \A i \in 1 .. m : Over(t, n)[i] = t[i + n]
  BY <1>1, <1>2, <1>5, OverIs, Zenon
<1>7. ASSUME NEW i \in 1 .. m PROVE Over(t, n)[i] = s[i]
  <2>1. i + n \in 1 .. n + m /\ ~(i + n <= n) /\ i + n - n = i
    BY <1>1
  <2>2. t[i + n] = s[i + n - n]
    BY <1>1, <1>3, <2>1
  <2>3. t[i + n] = s[i]
    BY <2>1, <2>2
  <2> QED
    BY <1>6, <2>3
<1>8. Over(t, n) = s
  BY <1>4, <1>6, <1>7, SeqEqual
<1> QED
  BY <1>8 DEF t, n

\* Without the word that was put there, the stack is what it was.
LEMMA OverPut ==
    ASSUME NEW a \in Words, NEW s \in Seq(Words)
    PROVE  Over(Put(a, s), 1) = s
<1>1. <<a>> \in Seq(Words) /\ Len(<<a>>) = 1
  OBVIOUS
<1> QED
  BY <1>1, OverConcat, Zenon DEF Put

\* The words of a sequence go onto a stack one by one.
LEMMA PutOrder ==
    ASSUME NEW a \in Words, NEW w \in Seq(Words), NEW s \in Seq(Words)
    PROVE  Put(a, w) \o s = Put(a, w \o s)
<1>1. <<a>> \in Seq(Words)
  OBVIOUS
<1> QED
  BY <1>1, ConcatAssociative DEF Put

\* The same for two words.
LEMMA OverPutPut ==
    ASSUME NEW a \in Words, NEW b \in Words, NEW s \in Seq(Words)
    PROVE  Over(Put(a, Put(b, s)), 2) = s
<1> DEFINE w == <<b>>
<1>1. w \in Seq(Words) /\ Len(w) = 1 /\ w \o s = Put(b, s)
  BY DEF Put
<1> HIDE DEF w
<1>2. Put(a, w) \o s = Put(a, Put(b, s))
  <2>1. w \in Seq(Words) /\ w \o s = Put(b, s)
    BY <1>1
  <2>2. Put(a, w) \o s = Put(a, w \o s)
    BY <2>1, PutOrder, Zenon
  <2> QED
    BY <2>1, <2>2, Zenon
<1>3. Put(a, w) \in Seq(Words) /\ Len(Put(a, w)) = Len(w) + 1
  BY <1>1, PutFacts, Zenon
<1>4. Len(Put(a, w)) = 2
  BY <1>1, <1>3
<1> QED
  BY <1>2, <1>3, <1>4, OverConcat, Zenon

-----------------------------------------------------------------------------
(* Executions of a piece of code.                                          *)

\* No run of n zero cells is in this RAM.
Full(r, n) == \A a \in 0 .. Order - n : \E k \in 0 .. n - 1 : r[a + k] # 0

\* Cells that are in use in RAM old are the same in RAM r.
Kept(old, r) == \A a \in Words : old[a] # 0 => r[a] = old[a]

\* Where the machine may be while it executes piece x: where it began, or
\* inside it with the cells in use as they were.
Safe(x, y) ==
    \/ y = x.start
    \/ /\ y.ip \in x.inside
       /\ x.cells > 0 => Kept(x.start.ram, y.ram)
       /\ y.halt = "no" \/ (y.halt = "crashed" /\ x.cells > 0 /\ Full(x.start.ram, x.cells))

\* From y the machine stays inside the piece unless it comes to its end as it
\* should.
Good(x, y) ==
    \E I : /\ y \in I
           /\ \A z \in I : \/ z = x.exit
                           \/ /\ Safe(x, z)
                              /\ z.halt = "no" => After(x.code[z.ip], x.entry, z) \in I

\* The end of a piece is good.
LEMMA ExitIsGood ==
    ASSUME NEW x
    PROVE  Good(x, x.exit)
<1> DEFINE I == {x.exit}
<1>1. x.exit \in I /\ \A z \in I : z = x.exit
  OBVIOUS
<1> HIDE DEF I
<1> QED
  BY <1>1, Zenon DEF Good

\* What may stay where it is, and goes on to a good state, is good.
LEMMA StepIsGood ==
    ASSUME NEW x, NEW y, Safe(x, y), y.halt = "no" => Good(x, After(x.code[y.ip], x.entry, y))
    PROVE  Good(x, y)
<1>1. CASE y.halt = "no"
  <2>1. PICK I : /\ After(x.code[y.ip], x.entry, y) \in I
                 /\ \A z \in I : \/ z = x.exit
                                 \/ /\ Safe(x, z)
                                    /\ z.halt = "no" => After(x.code[z.ip], x.entry, z) \in I
    BY <1>1, Zenon DEF Good
  <2> DEFINE J == I \cup {y}
  <2>2. y \in J
    OBVIOUS
  <2>3. \A z \in J : \/ z = x.exit
                     \/ /\ Safe(x, z)
                        /\ z.halt = "no" => After(x.code[z.ip], x.entry, z) \in J
    BY <2>1, Zenon
  <2> QED
    BY <2>2, <2>3, Zenon DEF Good
<1>2. CASE y.halt # "no"
  <2> DEFINE I == {y}
  <2>1. y \in I /\ \A z \in I : Safe(x, z) /\ (z.halt = "no" => After(x.code[z.ip], x.entry, z) \in I)
    BY <1>2
  <2> HIDE DEF I
  <2> QED
    BY <2>1, Zenon DEF Good
<1> QED
  BY <1>1, <1>2

\* What good states are for.
LEMMA GoodIsSafe ==
    ASSUME NEW x, NEW y, Good(x, y), y # x.exit
    PROVE  Safe(x, y) /\ (y.halt = "no" => Good(x, After(x.code[y.ip], x.entry, y)))
  BY Zenon DEF Good

\* The parts of a running machine.
LEMMA AtFields ==
    ASSUME NEW p, NEW s, NEW r, NEW c
    PROVE  /\ At(p, s, r, c).ip = p /\ At(p, s, r, c).stack = s /\ At(p, s, r, c).ram = r
           /\ At(p, s, r, c).calls = c /\ At(p, s, r, c).halt = "no"
  BY DEF At

\* Inside the piece, with RAM in order.
Calm(x, p, r) == p \in x.inside /\ (x.cells > 0 => Kept(x.start.ram, r))

\* There the machine is safe, whatever its stack.
LEMMA CalmIsSafe ==
    ASSUME NEW x, NEW p, NEW s, NEW r, NEW c, Calm(x, p, r)
    PROVE  Safe(x, At(p, s, r, c))
  BY AtFields DEF Calm, Safe

\* A plain instruction leaves the next one to be executed.
LEMMA PlainRule ==
    ASSUME NEW x, NEW p, NEW s, NEW r, NEW c, NEW i, NEW t, NEW m,
           x.code[p] = i, CanRun(i, s),
           i[1] \notin {"skiz", "call", "return", "recurse", "halt"},
           Result(i, s, r) = t,
           (IF i[1] = "write_mem" THEN Written(r, s[1], i[2], s) ELSE r) = m,
           Safe(x, At(p, s, r, c)), Good(x, At(p + 1, t, m, c))
    PROVE  Good(x, At(p, s, r, c))
<1>1. After(i, x.entry, At(p, s, r, c)) = At(p + 1, t, m, c)
  BY AtFields DEF After, At
<1> DEFINE y == At(p, s, r, c)
<1>2. y.ip = p
  BY AtFields
<1>3. After(i, x.entry, y) = At(p + 1, t, m, c) /\ Safe(x, y)
  BY <1>1
<1> HIDE DEF y
<1>4. Good(x, After(x.code[y.ip], x.entry, y))
  BY <1>2, <1>3, Zenon
<1>5. Good(x, y)
  BY <1>3, <1>4, StepIsGood, Zenon
<1> QED
  BY <1>5 DEF y

\* The instructions, each from behind it to before it: if the machine is good
\* after the instruction, it is good before it.
LEMMA PushRule ==
    ASSUME NEW x, NEW p, NEW s \in Deep, NEW r, NEW c, NEW k,
           x.code[p] = <<"push", k>>,
           Safe(x, At(p, s, r, c)), Good(x, At(p + 1, Put(k, s), r, c))
    PROVE  Good(x, At(p, s, r, c))
<1> DEFINE i == <<"push", k>>
<1>1. i[1] = "push" /\ i[2] = k
  OBVIOUS
<1>2. Result(i, s, r) = Put(k, s)
  BY <1>1 DEF Result, Put
<1>3. CanRun(i, s)
  BY <1>1, DeepFacts DEF CanRun, Taken, Encodable
<1>4. (IF i[1] = "write_mem" THEN Written(r, s[1], i[2], s) ELSE r) = r
  BY <1>1
<1> HIDE DEF i
<1>5. i[1] \notin {"skiz", "call", "return", "recurse", "halt"}
  BY <1>1
<1>6. x.code[p] = i
  BY DEF i
<1> QED
  BY <1>2, <1>3, <1>4, <1>5, <1>6, PlainRule

\* pop of n words.
LEMMA PopRule ==
    ASSUME NEW x, NEW p, NEW w \in Seq(Words), NEW s \in Deep, NEW r, NEW c, NEW n \in 1 .. Chunk,
           Len(w) = n, x.code[p] = <<"pop", n>>,
           Safe(x, At(p, w \o s, r, c)), Good(x, At(p + 1, s, r, c))
    PROVE  Good(x, At(p, w \o s, r, c))
<1> DEFINE i == <<"pop", n>>
<1>1. i[1] = "pop" /\ i[2] = n
  OBVIOUS
<1>2. Result(i, w \o s, r) = s
  <2>1. s \in Seq(Words)
    BY DEF Deep
  <2>2. Over(w \o s, n) = s
    BY <2>1, OverConcat
  <2> QED
    BY <1>1, <2>2 DEF Result
<1>3. CanRun(i, w \o s)
  <2>1. Len(w \o s) = n + Len(s)
    BY ConcatProperties, Zenon DEF Deep
  <2> QED
    BY <1>1, <2>1, DeepFacts DEF CanRun, Taken, Encodable
<1>4. (IF i[1] = "write_mem" THEN Written(r, (w \o s)[1], i[2], w \o s) ELSE r) = r
  BY <1>1
<1> HIDE DEF i
<1>5. i[1] \notin {"skiz", "call", "return", "recurse", "halt"}
  BY <1>1
<1>6. x.code[p] = i
  BY DEF i
<1> QED
  BY <1>2, <1>3, <1>4, <1>5, <1>6, PlainRule, Zenon

\* pop 1.
LEMMA PopOneRule ==
    ASSUME NEW x, NEW p, NEW a \in Words, NEW s \in Deep, NEW r, NEW c,
           x.code[p] = <<"pop", 1>>,
           Safe(x, At(p, Put(a, s), r, c)), Good(x, At(p + 1, s, r, c))
    PROVE  Good(x, At(p, Put(a, s), r, c))
<1> DEFINE w == <<a>>
<1>1. w \in Seq(Words) /\ Len(w) = 1 /\ w \o s = Put(a, s)
  BY DEF Put
<1> HIDE DEF w
<1>2. 1 \in 1 .. Chunk
  BY MachineAssumption
<1>3. Safe(x, At(p, w \o s, r, c))
  BY <1>1
<1>4. Good(x, At(p, w \o s, r, c))
  BY <1>1, <1>2, <1>3, PopRule, Zenon
<1> QED
  BY <1>1, <1>4

\* dup of a word in the window.
LEMMA DupRule ==
    ASSUME NEW x, NEW p, NEW s \in Deep, NEW r, NEW c, NEW n \in 0 .. Window - 1, NEW a \in Words,
           x.code[p] = <<"dup", n>>, s[n + 1] = a,
           Safe(x, At(p, s, r, c)), Good(x, At(p + 1, Put(a, s), r, c))
    PROVE  Good(x, At(p, s, r, c))
<1> DEFINE i == <<"dup", n>>
<1>1. i[1] = "dup" /\ i[2] = n
  OBVIOUS
<1>2. Result(i, s, r) = Put(a, s)
  BY <1>1 DEF Result, Put
<1>3. CanRun(i, s)
  BY <1>1, DeepFacts DEF CanRun, Taken, Encodable
<1>4. (IF i[1] = "write_mem" THEN Written(r, s[1], i[2], s) ELSE r) = r
  BY <1>1
<1> HIDE DEF i
<1>5. i[1] \notin {"skiz", "call", "return", "recurse", "halt"}
  BY <1>1
<1>6. x.code[p] = i
  BY DEF i
<1> QED
  BY <1>2, <1>3, <1>4, <1>5, <1>6, PlainRule

\* Words a and b with the words w between them.
Around(a, w, b, s) == Put(a, w \o Put(b, s))

\* Where the words of such a stack are.
LEMMA AroundIs ==
    ASSUME NEW a \in Words, NEW b \in Words, NEW w \in Seq(Words), NEW s \in Seq(Words)
    PROVE  /\ Around(a, w, b, s) \in Seq(Words)
           /\ Len(Around(a, w, b, s)) = Len(w) + Len(s) + 2
           /\ Around(a, w, b, s)[1] = a
           /\ Around(a, w, b, s)[Len(w) + 2] = b
           /\ \A i \in 1 .. Len(w) : Around(a, w, b, s)[i + 1] = w[i]
           /\ \A i \in 1 .. Len(s) : Around(a, w, b, s)[Len(w) + 2 + i] = s[i]
<1> DEFINE u == Put(b, s)
           v == w \o u
           t == Around(a, w, b, s)
           n == Len(w)
           m == Len(s)
<1>1. t = Put(a, v)
  BY DEF Around
<1>2. n \in Nat /\ m \in Nat
  OBVIOUS
<1>3. u \in Seq(Words) /\ Len(u) = m + 1 /\ u[1] = b /\ \A i \in 1 .. m : u[i + 1] = s[i]
  BY PutFacts, Zenon
<1> HIDE DEF u
<1>4. v \in Seq(Words) /\ Len(v) = n + Len(u)
      /\ \A i \in 1 .. n + Len(u) : v[i] = IF i <= n THEN w[i] ELSE u[i - n]
  BY <1>3, ConcatProperties, Zenon
<1>5. t = Around(a, w, b, s) /\ n = Len(w) /\ m = Len(s)
  OBVIOUS
<1> HIDE DEF v, t, n, m
<1>6. t \in Seq(Words) /\ Len(t) = Len(v) + 1 /\ t[1] = a /\ \A i \in 1 .. Len(v) : t[i + 1] = v[i]
  <2>1. v \in Seq(Words)
    BY <1>4
  <2>2. Put(a, v) \in Seq(Words) /\ Len(Put(a, v)) = Len(v) + 1 /\ Put(a, v)[1] = a
        /\ \A i \in 1 .. Len(v) : Put(a, v)[i + 1] = v[i]
    BY <2>1, PutFacts, Zenon
  <2> QED
    BY <1>1, <2>2, Zenon
<1>7. Len(v) = n + m + 1 /\ Len(t) = n + m + 2
  <2> DEFINE x == Len(u)
             y == Len(v)
             z == Len(t)
  <2>1. x = m + 1 /\ y = n + x /\ z = y + 1
    BY <1>3, <1>4, <1>6, Zenon
  <2> HIDE DEF x, y, z
  <2>2. y = n + m + 1 /\ z = n + m + 2
    BY <1>2, <2>1
  <2> QED
    BY <2>2 DEF y, z
<1>8. t[n + 2] = b
  <2>1. n + 1 \in 1 .. Len(v) /\ n + 1 + 1 = n + 2 /\ n + 1 \in 1 .. n + Len(u) /\ ~(n + 1 <= n) /\ n + 1 - n = 1
    BY <1>2, <1>3, <1>7
  <2>2. t[n + 1 + 1] = v[n + 1]
    BY <1>6, <2>1, Zenon
  <2>3. v[n + 1] = u[n + 1 - n]
    BY <1>2, <1>4, <2>1
  <2> QED
    BY <1>3, <2>1, <2>2, <2>3, Zenon
<1>9. ASSUME NEW i \in 1 .. n PROVE t[i + 1] = w[i]
  <2>1. i \in 1 .. Len(v) /\ i \in 1 .. n + Len(u) /\ i <= n
    BY <1>2, <1>3, <1>7
  <2> QED
    BY <1>4, <1>6, <2>1
<1>10. ASSUME NEW i \in 1 .. m PROVE t[n + 2 + i] = s[i]
  <2> DEFINE j == n + 1 + i
  <2>1. j \in 1 .. Len(v) /\ j + 1 = n + 2 + i /\ j \in 1 .. n + Len(u) /\ ~(j <= n) /\ j - n = i + 1
    BY <1>2, <1>3, <1>7
  <2> HIDE DEF j
  <2>2. t[j + 1] = v[j]
    BY <1>6, <2>1
  <2>3. v[j] = u[j - n]
    BY <1>4, <2>1, Zenon
  <2>4. u[i + 1] = s[i]
    BY <1>3
  <2> QED
    BY <2>1, <2>2, <2>3, <2>4
<1> QED
  BY <1>2, <1>6, <1>7, <1>8, <1>9, <1>10, <1>5

\* A swap exchanges a and b and leaves the words between them.
LEMMA Swapped ==
    ASSUME NEW a \in Words, NEW b \in Words, NEW w \in Seq(Words), NEW s \in Seq(Words)
    PROVE  [Around(a, w, b, s) EXCEPT ![1] = Around(a, w, b, s)[Len(w) + 2],
                                      ![Len(w) + 2] = Around(a, w, b, s)[1]]
             = Around(b, w, a, s)
<1> DEFINE t == Around(a, w, b, s)
           u == Around(b, w, a, s)
           m == Len(s)
           n == Len(w)
           v == [t EXCEPT ![1] = t[n + 2]]
           o == [v EXCEPT ![n + 2] = t[1]]
<1>1. /\ t \in Seq(Words) /\ Len(t) = n + m + 2 /\ n \in Nat /\ m \in Nat
      /\ t[1] = a /\ t[n + 2] = b
      /\ \A i \in 1 .. n : t[i + 1] = w[i]
      /\ \A i \in 1 .. m : t[n + 2 + i] = s[i]
  <2>1. t \in Seq(Words) /\ Len(t) = n + m + 2
    BY AroundIs
  <2>2. t[1] = a /\ t[n + 2] = b
    BY AroundIs
  <2>3. \A i \in 1 .. n : t[i + 1] = w[i]
    BY AroundIs
  <2>4. \A i \in 1 .. m : t[n + 2 + i] = s[i]
    BY AroundIs
  <2>5. n \in Nat /\ m \in Nat
    OBVIOUS
  <2> QED
    BY <2>1, <2>2, <2>3, <2>4, <2>5, Zenon
<1>2. /\ u \in Seq(Words) /\ Len(u) = n + m + 2 /\ n \in Nat /\ m \in Nat
      /\ u[1] = b /\ u[n + 2] = a
      /\ \A i \in 1 .. n : u[i + 1] = w[i]
      /\ \A i \in 1 .. m : u[n + 2 + i] = s[i]
  <2>1. u \in Seq(Words) /\ Len(u) = n + m + 2
    BY AroundIs
  <2>2. u[1] = b /\ u[n + 2] = a
    BY AroundIs
  <2>3. \A i \in 1 .. n : u[i + 1] = w[i]
    BY AroundIs
  <2>4. \A i \in 1 .. m : u[n + 2 + i] = s[i]
    BY AroundIs
  <2>5. n \in Nat /\ m \in Nat
    OBVIOUS
  <2> QED
    BY <2>1, <2>2, <2>3, <2>4, <2>5, Zenon
<1>3. n = Len(w)
  OBVIOUS
<1> HIDE DEF m, n, t, u
<1>4. 1 \in 1 .. Len(t) /\ n + 2 \in 1 .. Len(t)
  BY <1>1
<1>5. /\ v \in Seq(Words) /\ Len(v) = Len(t)
      /\ \A j \in 1 .. Len(t) : v[j] = IF j = 1 THEN b ELSE t[j]
  BY <1>1, <1>4, ExceptSeq
<1> HIDE DEF v
<1>6. /\ o \in Seq(Words) /\ Len(o) = Len(v)
      /\ \A j \in 1 .. Len(v) : o[j] = IF j = n + 2 THEN a ELSE v[j]
  BY <1>1, <1>4, <1>5, ExceptSeq
<1> HIDE DEF o
<1>7. ASSUME NEW j \in 1 .. Len(o) PROVE o[j] = u[j]
  <2>1. Len(o) = n + m + 2 /\ j \in 1 .. Len(v) /\ j \in 1 .. Len(t)
    BY <1>1, <1>5, <1>6
  <2>2. CASE j = 1
    <3>1. j # n + 2
      BY <1>1, <2>2
    <3> QED
      BY <1>2, <1>5, <1>6, <2>1, <2>2, <3>1
  <2>3. CASE j = n + 2
    BY <1>2, <1>6, <2>1, <2>3
  <2>4. CASE j > 1 /\ j < n + 2
    <3>1. j - 1 \in 1 .. n /\ j - 1 + 1 = j /\ j # n + 2 /\ j # 1
      BY <1>1, <2>1, <2>4
    <3>2. t[j] = w[j - 1] /\ u[j] = w[j - 1]
      BY <1>1, <1>2, <3>1
    <3> QED
      BY <1>5, <1>6, <2>1, <3>1, <3>2
  <2>5. CASE j > n + 2
    <3>1. j - n - 2 \in 1 .. m /\ n + 2 + (j - n - 2) = j /\ j # n + 2 /\ j # 1
      BY <1>1, <2>1, <2>5
    <3>2. t[j] = s[j - n - 2] /\ u[j] = s[j - n - 2]
      BY <1>1, <1>2, <3>1
    <3> QED
      BY <1>5, <1>6, <2>1, <3>1, <3>2
  <2> QED
    BY <1>1, <2>1, <2>2, <2>3, <2>4, <2>5
<1>8. o = u
  <2>1. Len(o) = Len(u)
    BY <1>1, <1>2, <1>5, <1>6
  <2> QED
    BY <1>2, <1>6, <1>7, <2>1, SeqEqual
<1>9. o = [t EXCEPT ![1] = t[n + 2], ![n + 2] = t[1]]
  BY DEF o, v
<1> QED
  BY <1>8, <1>9, <1>3 DEF t, u

\* swap of two words that have words between them.
LEMMA SwapRule ==
    ASSUME NEW x, NEW p, NEW a \in Words, NEW b \in Words, NEW w \in Seq(Words), NEW s \in Deep,
           NEW r, NEW c, NEW n \in 1 .. Window - 1, Len(w) + 1 = n,
           x.code[p] = <<"swap", n>>,
           Safe(x, At(p, Around(a, w, b, s), r, c)),
           Good(x, At(p + 1, Around(b, w, a, s), r, c))
    PROVE  Good(x, At(p, Around(a, w, b, s), r, c))
<1> DEFINE i == <<"swap", n>>
           t == Around(a, w, b, s)
           u == Around(b, w, a, s)
<1>1. i[1] = "swap" /\ i[2] = n
  OBVIOUS
<1>2. s \in Seq(Words) /\ Len(s) \in Nat /\ Len(s) >= Window /\ Window \in Nat /\ n \in 0 .. Window - 1
  BY DeepFacts
<1>3. Len(t) >= Window /\ Len(t) \in Nat
  <2>1. Len(t) = Len(w) + Len(s) + 2 /\ Len(w) \in Nat
    BY <1>2, AroundIs
  <2> QED
    BY <1>2, <2>1
<1>4. [t EXCEPT ![1] = t[n + 1], ![n + 1] = t[1]] = u
  <2> DEFINE l == Len(w)
  <2>1. l \in Nat /\ l + 1 = n
    OBVIOUS
  <2>2. [t EXCEPT ![1] = t[l + 2], ![l + 2] = t[1]] = u
    BY <1>2, Swapped
  <2> HIDE DEF l, t, u
  <2>3. l + 2 = n + 1
    BY <2>1
  <2> QED
    BY <2>2, <2>3
<1> HIDE DEF t, u
<1>5. Result(i, t, r) = u
  BY <1>1, <1>4 DEF Result
<1>6. CanRun(i, t)
  BY <1>1, <1>2, <1>3 DEF CanRun, Taken, Encodable
<1>7. (IF i[1] = "write_mem" THEN Written(r, t[1], i[2], t) ELSE r) = r
  BY <1>1
<1>8. Safe(x, At(p, t, r, c)) /\ Good(x, At(p + 1, u, r, c))
  BY DEF t, u
<1> HIDE DEF i
<1>9. i[1] \notin {"skiz", "call", "return", "recurse", "halt"}
  BY <1>1
<1>10. x.code[p] = i
  BY DEF i
<1>11. Good(x, At(p, t, r, c))
  BY <1>5, <1>6, <1>7, <1>8, <1>9, <1>10, PlainRule, Zenon
<1> QED
  BY <1>11 DEF t

\* swap 1.
LEMMA SwapOneRule ==
    ASSUME NEW x, NEW p, NEW a \in Words, NEW b \in Words, NEW s \in Deep, NEW r, NEW c,
           x.code[p] = <<"swap", 1>>,
           Safe(x, At(p, Put(a, Put(b, s)), r, c)),
           Good(x, At(p + 1, Put(b, Put(a, s)), r, c))
    PROVE  Good(x, At(p, Put(a, Put(b, s)), r, c))
<1> DEFINE w == <<>>
<1>1. w \in Seq(Words) /\ Len(w) + 1 = 1
  OBVIOUS
<1>2. 1 \in 1 .. Window - 1 /\ s \in Seq(Words)
  BY DeepFacts
<1>3. w \o Put(b, s) = Put(b, s) /\ w \o Put(a, s) = Put(a, s)
  <2>1. Put(b, s) \in Seq(Words) /\ Put(a, s) \in Seq(Words)
    BY <1>2, PutFacts
  <2> QED
    BY <2>1, ConcatEmptySeq
<1> HIDE DEF w
<1>4. Around(a, w, b, s) = Put(a, Put(b, s)) /\ Around(b, w, a, s) = Put(b, Put(a, s))
  BY <1>3 DEF Around
<1>5. Good(x, At(p, Around(a, w, b, s), r, c))
  BY <1>1, <1>2, <1>4, SwapRule, Zenon
<1> QED
  BY <1>4, <1>5

\* Two words become one.
LEMMA BinaryRule ==
    ASSUME NEW x, NEW p, NEW a \in Words, NEW b \in Words, NEW s \in Deep, NEW r, NEW c,
           NEW name \in {"add", "mul", "eq"}, NEW d,
           x.code[p] = <<name, 0>>,
           d = IF name = "add" THEN (a + b) % Order
               ELSE IF name = "mul" THEN (a * b) % Order
               ELSE IF a = b THEN 1 ELSE 0,
           Safe(x, At(p, Put(a, Put(b, s)), r, c)),
           Good(x, At(p + 1, Put(d, s), r, c))
    PROVE  Good(x, At(p, Put(a, Put(b, s)), r, c))
<1> DEFINE i == <<name, 0>>
           t == Put(a, Put(b, s))
<1>1. i[1] = name /\ i[2] = 0
  OBVIOUS
<1>2. s \in Seq(Words) /\ Len(s) \in Nat /\ Len(s) >= Window /\ Window \in Nat
  BY DeepFacts
<1>3. t[1] = a /\ t[2] = b /\ Len(t) = Len(s) + 2
  <2> DEFINE u == Put(b, s)
  <2>1. u \in Seq(Words) /\ Len(u) = Len(s) + 1 /\ u[1] = b
    BY <1>2, PutFacts
  <2> HIDE DEF u
  <2>2. Put(a, u)[1] = a /\ Len(Put(a, u)) = Len(u) + 1 /\ \A j \in 1 .. Len(u) : Put(a, u)[j + 1] = u[j]
    BY <2>1, PutFacts, Zenon
  <2>3. Put(a, u)[1 + 1] = u[1]
    BY <1>2, <2>1, <2>2
  <2>4. Put(a, u)[2] = b /\ Len(Put(a, u)) = Len(s) + 2
    BY <1>2, <2>1, <2>2, <2>3
  <2> QED
    BY <2>2, <2>4 DEF u
<1>4. Over(t, 2) = s
  BY <1>2, OverPutPut
<1> HIDE DEF t
<1>5. Result(i, t, r) = Put(d, s)
  <2>1. CASE name = "add"
    BY <1>1, <1>3, <1>4, <2>1 DEF Result, Put
  <2>2. CASE name = "mul"
    BY <1>1, <1>3, <1>4, <2>2 DEF Result, Put
  <2>3. CASE name = "eq"
    BY <1>1, <1>3, <1>4, <2>3 DEF Result, Put
  <2> QED
    BY <2>1, <2>2, <2>3
<1>6. CanRun(i, t)
  BY <1>1, <1>2, <1>3 DEF CanRun, Taken, Encodable
<1>7. (IF i[1] = "write_mem" THEN Written(r, t[1], i[2], t) ELSE r) = r
  BY <1>1
<1>8. Safe(x, At(p, t, r, c))
  BY DEF t
<1> HIDE DEF i
<1>9. i[1] \notin {"skiz", "call", "return", "recurse", "halt"}
  BY <1>1
<1>10. x.code[p] = i
  BY DEF i
<1>11. Good(x, At(p, t, r, c))
  BY <1>5, <1>6, <1>7, <1>8, <1>9, <1>10, PlainRule
<1> QED
  BY <1>11 DEF t

\* Words are their own residues, and every residue is a word.
LEMMA Residues ==
    ASSUME NEW k \in Int
    PROVE  k % Order \in Words /\ (k \in Words => k % Order = k)
  BY MachineAssumption DEF Words

\* assert of a one.
LEMMA AssertRule ==
    ASSUME NEW x, NEW p, NEW s \in Deep, NEW r, NEW c, 1 \in Words,
           x.code[p] = <<"assert", 0>>,
           Safe(x, At(p, Put(1, s), r, c)), Good(x, At(p + 1, s, r, c))
    PROVE  Good(x, At(p, Put(1, s), r, c))
<1> DEFINE i == <<"assert", 0>>
           t == Put(1, s)
<1>1. i[1] = "assert" /\ i[2] = 0
  OBVIOUS
<1>2. s \in Seq(Words) /\ Len(s) \in Nat /\ Len(s) >= Window /\ Window \in Nat
  BY DeepFacts
<1>3. t[1] = 1 /\ Len(t) = Len(s) + 1 /\ Over(t, 1) = s
  BY <1>2, PutFacts, OverPut
<1> HIDE DEF t
<1>4. Result(i, t, r) = s
  BY <1>1, <1>3 DEF Result
<1>5. CanRun(i, t)
  BY <1>1, <1>2, <1>3 DEF CanRun, Taken, Encodable
<1>6. (IF i[1] = "write_mem" THEN Written(r, t[1], i[2], t) ELSE r) = r
  BY <1>1
<1>7. Safe(x, At(p, t, r, c))
  BY DEF t
<1> HIDE DEF i
<1>8. i[1] \notin {"skiz", "call", "return", "recurse", "halt"}
  BY <1>1
<1>9. x.code[p] = i
  BY DEF i
<1>10. Good(x, At(p, t, r, c))
  BY <1>4, <1>5, <1>6, <1>7, <1>8, <1>9, PlainRule
<1> QED
  BY <1>10 DEF t

\* It may fail where the piece may fail.
LEMMA AssertFailRule ==
    ASSUME NEW x, NEW p, NEW s \in Deep, NEW r, NEW c, 0 \in Words,
           x.code[p] = <<"assert", 0>>,
           Calm(x, p, r), x.cells > 0, Full(x.start.ram, x.cells)
    PROVE  Good(x, At(p, Put(0, s), r, c))
<1> DEFINE i == <<"assert", 0>>
           y == At(p, Put(0, s), r, c)
<1>1. i[1] = "assert"
  OBVIOUS
<1>2. Put(0, s)[1] = 0
  BY PutFacts DEF Deep
<1>3. ~ CanRun(i, Put(0, s))
  BY <1>1, <1>2 DEF CanRun
<1>4. After(i, x.entry, y) = Crashed(y)
  BY <1>3, AtFields DEF After
<1>5. Safe(x, y)
  BY CalmIsSafe
<1>6. Crashed(y).ip = p /\ Crashed(y).ram = r /\ Crashed(y).halt = "crashed" /\ y.ip = p
  BY AtFields DEF Crashed
<1> HIDE DEF y, i
<1>7. Safe(x, Crashed(y))
  BY <1>6 DEF Safe, Calm
<1>8. Crashed(y).halt # "no"
  BY <1>6
<1>9. Good(x, Crashed(y))
  BY <1>7, <1>8, StepIsGood, Zenon
<1>10. After(x.code[y.ip], x.entry, y) = Crashed(y)
  BY <1>4, <1>6 DEF i
<1>11. Good(x, y)
  BY <1>5, <1>9, <1>10, StepIsGood, Zenon
<1> QED
  BY <1>11 DEF y

\* What is read are words.
LEMMA CellwiseIs ==
    ASSUME NEW r \in Memory, NEW a \in Words, NEW n \in Nat
    PROVE  Cellwise(r, a, n) \in Seq(Words) /\ Len(Cellwise(r, a, n)) = n
<1>1. \A k \in 1 .. n : r[(a - (n - k)) % Order] \in Words
  BY MachineAssumption DEF Memory, Words
<1> QED
  BY <1>1 DEF Cellwise

\* read_mem of n words.
LEMMA ReadRule ==
    ASSUME NEW x, NEW p, NEW a \in Words, NEW s \in Deep, NEW r \in Memory, NEW c,
           NEW n \in 1 .. Chunk, x.code[p] = <<"read_mem", n>>,
           Safe(x, At(p, Put(a, s), r, c)),
           Good(x, At(p + 1, Put((a - n) % Order, Cellwise(r, a, n) \o s), r, c))
    PROVE  Good(x, At(p, Put(a, s), r, c))
<1> DEFINE i == <<"read_mem", n>>
           t == Put(a, s)
           w == Cellwise(r, a, n)
           b == (a - n) % Order
<1>1. i[1] = "read_mem" /\ i[2] = n
  OBVIOUS
<1>2. s \in Seq(Words) /\ Len(s) \in Nat /\ Len(s) >= Window /\ Window \in Nat /\ n \in Nat
  BY DeepFacts
<1>3. t[1] = a /\ Len(t) = Len(s) + 1 /\ Over(t, 1) = s
  BY <1>2, PutFacts, OverPut
<1>4. w \in Seq(Words)
  BY <1>2, CellwiseIs
<1>5. b \in Words
  BY <1>2, Residues DEF Words
<1>6. Put(b, w) \o s = Put(b, w \o s)
  BY <1>2, <1>4, <1>5, PutOrder, Zenon
<1> HIDE DEF t
<1>7. Result(i, t, r) = Put(b, w \o s)
  BY <1>1, <1>3, <1>6, Zenon DEF Result, Put
<1> HIDE DEF w, b
<1>8. CanRun(i, t)
  BY <1>1, <1>2, <1>3 DEF CanRun, Taken, Encodable
<1>9. (IF i[1] = "write_mem" THEN Written(r, t[1], i[2], t) ELSE r) = r
  BY <1>1
<1>10. Safe(x, At(p, t, r, c)) /\ Good(x, At(p + 1, Put(b, w \o s), r, c))
  BY DEF t, w, b
<1> HIDE DEF i
<1>11. i[1] \notin {"skiz", "call", "return", "recurse", "halt"}
  BY <1>1
<1>12. x.code[p] = i
  BY DEF i
<1>13. Good(x, At(p, t, r, c))
  BY <1>7, <1>8, <1>9, <1>10, <1>11, <1>12, PlainRule, Zenon
<1> QED
  BY <1>13 DEF t

\* RAM with the words w from address a up.
Stored(r, a, w) ==
    [b \in Words |-> IF (b - a) % Order < Len(w) THEN w[((b - a) % Order) + 1] ELSE r[b]]

\* write_mem of the words w.
LEMMA WriteRule ==
    ASSUME NEW x, NEW p, NEW a \in Words, NEW w \in Seq(Words), NEW s \in Deep, NEW r, NEW c,
           NEW n \in 1 .. Chunk, Len(w) = n, x.code[p] = <<"write_mem", n>>,
           Safe(x, At(p, Put(a, w \o s), r, c)),
           Good(x, At(p + 1, Put((a + n) % Order, s), Stored(r, a, w), c))
    PROVE  Good(x, At(p, Put(a, w \o s), r, c))
<1> DEFINE i == <<"write_mem", n>>
           t == Put(a, w \o s)
           b == (a + n) % Order
<1>1. i[1] = "write_mem" /\ i[2] = n
  OBVIOUS
<1>2. s \in Seq(Words) /\ Len(s) \in Nat /\ Len(s) >= Window /\ Window \in Nat /\ n \in Nat
  BY DeepFacts
<1>3. w \o s \in Seq(Words) /\ Len(w \o s) = n + Len(s)
      /\ \A k \in 1 .. n + Len(s) : (w \o s)[k] = IF k <= n THEN w[k] ELSE s[k - n]
  BY <1>2, ConcatProperties, Zenon
<1>4. t[1] = a /\ Len(t) = n + Len(s) + 1
  <2>1. Len(t) = Len(w \o s) + 1 /\ t[1] = a
    BY <1>3, PutFacts, Zenon
  <2> QED
    BY <1>2, <1>3, <2>1
<1>5. \A k \in 1 .. n : t[k + 1] = w[k]
  <2> SUFFICES ASSUME NEW k \in 1 .. n PROVE t[k + 1] = w[k]
    BY Zenon
  <2>1. k \in 1 .. n + Len(s) /\ k <= n
    BY <1>2
  <2>2. (w \o s)[k] = w[k]
    BY <1>3, <2>1
  <2> DEFINE v == w \o s
  <2>3. v \in Seq(Words) /\ k \in 1 .. Len(v)
    BY <1>3, <2>1
  <2> HIDE DEF v
  <2>4. Put(a, v)[k + 1] = v[k]
    BY <2>3, PutFacts
  <2> QED
    BY <2>2, <2>4 DEF v
<1>6. Over(t, n + 1) = s
  <2>1. t = Put(a, w) \o s
    BY <1>2, PutOrder, Zenon
  <2>2. Put(a, w) \in Seq(Words) /\ Len(Put(a, w)) = n + 1
    BY PutFacts
  <2> HIDE DEF t
  <2>3. Over(Put(a, w) \o s, n + 1) = s
    BY <1>2, <2>2, OverConcat
  <2> QED
    BY <2>1, <2>3
<1> HIDE DEF t
<1>7. Result(i, t, r) = Put(b, s)
  BY <1>1, <1>4, <1>6, Zenon DEF Result, Put
<1> HIDE DEF b
<1>8. CanRun(i, t)
  <2>1. i[1] = "write_mem" /\ i[2] = n
    BY <1>1
  <2>2. Taken(i) = n
    BY <2>1 DEF Taken
  <2>3. Encodable(i)
    BY <2>1 DEF Encodable
  <2>4. Len(t) - Taken(i) >= Window
    BY <1>1, <1>2, <1>4, <2>2
  <2> QED
    BY <2>1, <2>3, <2>4 DEF CanRun
<1>9. (IF i[1] = "write_mem" THEN Written(r, t[1], i[2], t) ELSE r) = Stored(r, a, w)
  <2>1. ASSUME NEW e \in Words, (e - a) % Order < n
        PROVE  t[((e - a) % Order) + 2] = w[((e - a) % Order) + 1]
    <3> DEFINE d == (e - a) % Order
    <3>1. d \in Nat
      <4> DEFINE f == e - a
      <4>1. f \in Int /\ Order \in Nat \ {0}
        BY MachineAssumption DEF Words
      <4> HIDE DEF f
      <4>2. f % Order \in Nat
        BY <4>1
      <4> QED
        BY <4>2 DEF f
    <3>2. d < n
      BY <2>1
    <3> HIDE DEF d
    <3>3. d + 1 \in 1 .. n /\ d + 1 + 1 = d + 2
      BY <1>2, <3>1, <3>2
    <3>4. t[d + 2] = w[d + 1]
      BY <1>5, <3>3
    <3> QED
      BY <3>4 DEF d
  <2>2. Written(r, a, n, t) = Stored(r, a, w)
    BY <2>1 DEF Written, Stored
  <2> QED
    BY <1>1, <1>4, <2>2
<1>10. Safe(x, At(p, t, r, c)) /\ Good(x, At(p + 1, Put(b, s), Stored(r, a, w), c))
  BY DEF t, b
<1> HIDE DEF i
<1>11. i[1] \notin {"skiz", "call", "return", "recurse", "halt"}
  BY <1>1
<1>12. x.code[p] = i
  BY DEF i
<1>13. Good(x, At(p, t, r, c))
  BY <1>7, <1>8, <1>9, <1>10, <1>11, <1>12, PlainRule, Zenon
<1> QED
  BY <1>13 DEF t

\* skiz, for either case.
LEMMA SkizRule ==
    ASSUME NEW x, NEW p, NEW a \in Words, NEW s \in Deep, NEW r, NEW c,
           x.code[p] = <<"skiz", 0>>,
           Safe(x, At(p, Put(a, s), r, c)),
           Good(x, At(IF a = 0 THEN p + 2 ELSE p + 1, s, r, c))
    PROVE  Good(x, At(p, Put(a, s), r, c))
<1> DEFINE i == <<"skiz", 0>>
           t == Put(a, s)
           y == At(p, t, r, c)
<1>1. i[1] = "skiz"
  OBVIOUS
<1>2. s \in Seq(Words) /\ Len(s) \in Nat /\ Len(s) >= Window /\ Window \in Nat
  BY DeepFacts
<1>3. t[1] = a /\ Len(t) = Len(s) + 1 /\ Over(t, 1) = s
  BY <1>2, PutFacts, OverPut
<1> HIDE DEF t
<1>4. CanRun(i, t)
  BY <1>1, <1>2, <1>3 DEF CanRun, Taken, Encodable
<1>5. After(i, x.entry, y) = At(IF a = 0 THEN p + 2 ELSE p + 1, s, r, c)
  BY <1>1, <1>3, <1>4, AtFields DEF After, At, Result
<1>6. y.ip = p /\ Safe(x, y)
  BY AtFields DEF t
<1> HIDE DEF y
<1>7. Good(x, After(x.code[y.ip], x.entry, y))
  BY <1>5, <1>6
<1> QED
  BY <1>6, <1>7, StepIsGood DEF y, t

\* call, return and recurse.
LEMMA CallRule ==
    ASSUME NEW x, NEW p, NEW s \in Deep, NEW r, NEW c, NEW label,
           x.code[p] = <<"call", label>>, Safe(x, At(p, s, r, c)),
           Good(x, At(x.entry[label], s, r, <<<<p + 1, x.entry[label]>>>> \o c))
    PROVE  Good(x, At(p, s, r, c))
<1> DEFINE i == <<"call", label>>
           y == At(p, s, r, c)
<1>1. i[1] = "call" /\ i[2] = label
  OBVIOUS
<1>2. CanRun(i, s)
  BY <1>1, DeepFacts DEF CanRun, Taken, Encodable
<1>3. After(i, x.entry, y) = At(x.entry[label], s, r, <<<<p + 1, x.entry[label]>>>> \o c)
  BY <1>1, <1>2, AtFields DEF After, At, Result
<1>4. y.ip = p /\ Safe(x, y)
  BY AtFields
<1> HIDE DEF y
<1>5. Good(x, After(x.code[y.ip], x.entry, y))
  BY <1>3, <1>4
<1> QED
  BY <1>4, <1>5, StepIsGood DEF y

LEMMA ReturnRule ==
    ASSUME NEW x, NEW p, NEW s \in Deep, NEW r, NEW c,
           x.code[p] = <<"return", 0>>, Safe(x, At(p, s, r, c)),
           Good(x, At(c[1][1], s, r, Tail(c)))
    PROVE  Good(x, At(p, s, r, c))
<1> DEFINE i == <<"return", 0>>
           y == At(p, s, r, c)
<1>1. i[1] = "return"
  OBVIOUS
<1>2. CanRun(i, s)
  BY <1>1, DeepFacts DEF CanRun, Taken, Encodable
<1>3. After(i, x.entry, y) = At(c[1][1], s, r, Tail(c))
  BY <1>1, <1>2, AtFields DEF After, At, Result
<1>4. y.ip = p /\ Safe(x, y)
  BY AtFields
<1> HIDE DEF y
<1>5. Good(x, After(x.code[y.ip], x.entry, y))
  BY <1>3, <1>4
<1> QED
  BY <1>4, <1>5, StepIsGood DEF y

LEMMA RecurseRule ==
    ASSUME NEW x, NEW p, NEW s \in Deep, NEW r, NEW c,
           x.code[p] = <<"recurse", 0>>, Safe(x, At(p, s, r, c)),
           Good(x, At(c[1][2], s, r, c))
    PROVE  Good(x, At(p, s, r, c))
<1> DEFINE i == <<"recurse", 0>>
           y == At(p, s, r, c)
<1>1. i[1] = "recurse"
  OBVIOUS
<1>2. CanRun(i, s)
  BY <1>1, DeepFacts DEF CanRun, Taken, Encodable
<1>3. After(i, x.entry, y) = At(c[1][2], s, r, c)
  BY <1>1, <1>2, AtFields DEF After, At, Result
<1>4. y.ip = p /\ Safe(x, y)
  BY AtFields
<1> HIDE DEF y
<1>5. Good(x, After(x.code[y.ip], x.entry, y))
  BY <1>3, <1>4
<1> QED
  BY <1>4, <1>5, StepIsGood DEF y

-----------------------------------------------------------------------------
(* Pieces of code.                                                         *)

\* A property of the numbers up to n, from the last down.
LEMMA Downwards ==
    ASSUME NEW n \in Nat, NEW T \in SUBSET (0 .. n), n \in T,
           \A k \in 1 .. n : k \in T => k - 1 \in T
    PROVE  T = 0 .. n
<1> DEFINE U == {k \in Nat : k <= n => n - k \in T}
<1>1. 0 \in U
  OBVIOUS
<1>2. ASSUME NEW k \in U PROVE k + 1 \in U
  <2>1. CASE k + 1 <= n
    <3>1. k \in Nat /\ k <= n /\ n - k \in 1 .. n /\ n - k - 1 = n - (k + 1)
      BY <2>1
    <3>2. n - k \in T
      BY <3>1
    <3>3. n - (k + 1) \in T
      BY <3>1, <3>2
    <3> QED
      BY <3>3
  <2>2. CASE ~(k + 1 <= n)
    BY <2>2
  <2> QED
    BY <2>1, <2>2
<1>3. U \in SUBSET Nat
  OBVIOUS
<1> HIDE DEF U
<1>4. U = Nat
  BY <1>1, <1>2, <1>3, Stepwise
<1>5. ASSUME NEW k \in 0 .. n PROVE k \in T
  <2>1. n - k \in Nat /\ n - k <= n /\ n - (n - k) = k
    OBVIOUS
  <2>2. n - k \in U
    BY <1>4, <2>1
  <2> QED
    BY <2>1, <2>2 DEF U
<1> QED
  BY <1>5, Zenon

\* The same from 0 up.
LEMMA Upwards ==
    ASSUME NEW n \in Nat, NEW T \in SUBSET (0 .. n), 0 \in T,
           \A k \in 1 .. n : k - 1 \in T => k \in T
    PROVE  T = 0 .. n
<1> DEFINE U == {k \in Nat : k <= n => k \in T}
<1>1. 0 \in U
  OBVIOUS
<1>2. ASSUME NEW k \in U PROVE k + 1 \in U
  <2>1. CASE k + 1 <= n
    <3>1. k + 1 \in 1 .. n /\ k + 1 - 1 = k /\ k \in T
      BY <2>1
    <3> QED
      BY <3>1
  <2>2. CASE ~(k + 1 <= n)
    BY <2>2
  <2> QED
    BY <2>1, <2>2
<1>3. U \in SUBSET Nat
  OBVIOUS
<1> HIDE DEF U
<1>4. U = Nat
  BY <1>1, <1>2, <1>3, Stepwise
<1>5. ASSUME NEW k \in 0 .. n PROVE k \in T
  <2>1. k \in U /\ k <= n
    BY <1>4
  <2> QED
    BY <2>1 DEF U
<1> QED
  BY <1>5, Zenon

\* The sequences of seqs one after the other, up to each of them.
IsFlat(f, n, seqs) == f = [i \in 1 .. n |-> IF i = 1 THEN seqs[i] ELSE f[i - 1] \o seqs[i]]

\* There are such sequences.
LEMMA FlatsExist ==
    ASSUME NEW V, NEW n \in Nat, NEW seqs \in [1 .. n -> Seq(V)]
    PROVE  \E f \in [1 .. n -> Seq(V)] : IsFlat(f, n, seqs)
<1> DEFINE T == {m \in 0 .. n : \E f \in [1 .. m -> Seq(V)] : IsFlat(f, m, seqs)}
<1>1. 0 \in T
  <2> DEFINE f == [i \in 1 .. 0 |-> seqs[i]]
  <2>1. f \in [1 .. 0 -> Seq(V)] /\ IsFlat(f, 0, seqs)
    BY DEF IsFlat
  <2> HIDE DEF f
  <2>2. \E h \in [1 .. 0 -> Seq(V)] : IsFlat(h, 0, seqs)
    BY <2>1, Zenon
  <2>3. 0 \in 0 .. n
    OBVIOUS
  <2> QED
    BY <2>2, <2>3, Zenon
<1>2. ASSUME NEW k \in 1 .. n, k - 1 \in T PROVE k \in T
  <2>1. PICK g \in [1 .. k - 1 -> Seq(V)] : IsFlat(g, k - 1, seqs)
    BY <1>2
  <2> DEFINE last == IF k = 1 THEN seqs[k] ELSE g[k - 1] \o seqs[k]
             f == [i \in 1 .. k |-> IF i = k THEN last ELSE g[i]]
  <2>2. last \in Seq(V)
    <3>1. CASE k = 1
      BY <3>1
    <3>2. CASE k # 1
      <4>1. g[k - 1] \in Seq(V) /\ seqs[k] \in Seq(V)
        BY <3>2
      <4> QED
        BY <3>2, <4>1, ConcatProperties
    <3> QED
      BY <3>1, <3>2
  <2>3. f \in [1 .. k -> Seq(V)]
    BY <2>2
  <2>4. ASSUME NEW i \in 1 .. k PROVE f[i] = IF i = 1 THEN seqs[i] ELSE f[i - 1] \o seqs[i]
    <3>1. CASE i = k
      <4>1. i # 1 => i - 1 \in 1 .. k /\ i - 1 # k
        BY <3>1
      <4> QED
        BY <3>1, <4>1
    <3>2. CASE i # k
      <4>1. i \in 1 .. k - 1 /\ (i # 1 => i - 1 \in 1 .. k /\ i - 1 # k)
        BY <3>2
      <4>2. g[i] = IF i = 1 THEN seqs[i] ELSE g[i - 1] \o seqs[i]
        BY <2>1, <4>1, Zenon DEF IsFlat
      <4> QED
        BY <3>2, <4>1, <4>2, Zenon
    <3> QED
      BY <3>1, <3>2
  <2>5. f = [i \in 1 .. k |-> f[i]]
    OBVIOUS
  <2> HIDE DEF f
  <2>6. IsFlat(f, k, seqs)
    BY <2>4, <2>5, Zenon DEF IsFlat
  <2>7. \E h \in [1 .. k -> Seq(V)] : IsFlat(h, k, seqs)
    BY <2>3, <2>6, Zenon
  <2> QED
    BY <2>7
<1>3. T \in SUBSET (0 .. n)
  OBVIOUS
<1> HIDE DEF T
<1>4. T = 0 .. n
  BY <1>1, <1>2, <1>3, Upwards
<1>5. n \in T
  BY <1>4
<1> QED
  BY <1>5 DEF T

\* f has the sequences of seqs joined one by one.
Joins(f, n, seqs) ==
    /\ FlattenSeq(seqs) = f[n]
    /\ f[1] = seqs[1]
    /\ \A i \in 2 .. n : f[i] = f[i - 1] \o seqs[i]

\* FlattenSeq joins them so.
LEMMA FlattenSeqIs ==
    ASSUME NEW V, NEW n \in Nat \ {0}, NEW seqs \in [1 .. n -> Seq(V)]
    PROVE  \E f \in [1 .. n -> Seq(V)] : Joins(f, n, seqs)
<1>1. Len(seqs) = n /\ n # 0
  <2>1. seqs \in Seq(Seq(V))
    OBVIOUS
  <2> QED
    BY <2>1
<1> DEFINE g == CHOOSE f : f = [i \in 1 .. n |-> IF i = 1 THEN seqs[i] ELSE f[i - 1] \o seqs[i]]
<1>2. PICK f \in [1 .. n -> Seq(V)] : IsFlat(f, n, seqs)
  BY FlatsExist, Zenon
<1>3. g = [i \in 1 .. n |-> IF i = 1 THEN seqs[i] ELSE g[i - 1] \o seqs[i]]
  <2>1. \E h : IsFlat(h, n, seqs)
    BY <1>2, Zenon
  <2>2. IsFlat(CHOOSE h : IsFlat(h, n, seqs), n, seqs)
    BY <2>1, Zenon
  <2>3. g = CHOOSE h : IsFlat(h, n, seqs)
    BY DEF IsFlat
  <2> HIDE DEF g
  <2>4. IsFlat(g, n, seqs)
    BY <2>2, <2>3, Zenon
  <2> QED
    BY <2>4 DEF IsFlat
<1>4. FlattenSeq(seqs) = g[n]
  BY <1>1 DEF FlattenSeq
<1> HIDE DEF g
<1>5. /\ g[1] = seqs[1]
      /\ \A i \in 2 .. n : g[i] = g[i - 1] \o seqs[i]
  <2>1. \A i \in 1 .. n : g[i] = IF i = 1 THEN seqs[i] ELSE g[i - 1] \o seqs[i]
    BY <1>3, Zenon
  <2>2. g[1] = seqs[1]
    <3>1. 1 \in 1 .. n
      OBVIOUS
    <3> QED
      BY <2>1, <3>1
  <2>3. ASSUME NEW i \in 2 .. n PROVE g[i] = g[i - 1] \o seqs[i]
    <3>1. i \in 1 .. n /\ i # 1
      OBVIOUS
    <3> QED
      BY <2>1, <3>1, Zenon
  <2> QED
    BY <2>2, <2>3, Zenon
<1>6. \A i \in 1 .. n : g[i] = f[i]
  <2> DEFINE T == {i \in 0 .. n : i > 0 => g[i] = f[i]}
  <2>1. 0 \in T
    OBVIOUS
  <2>2. ASSUME NEW i \in 1 .. n, i - 1 \in T PROVE i \in T
    <3>1. f[i] = IF i = 1 THEN seqs[i] ELSE f[i - 1] \o seqs[i]
      BY <1>2, Zenon DEF IsFlat
    <3>2. CASE i = 1
      BY <1>5, <3>1, <3>2
    <3>3. CASE i # 1
      <4>1. i \in 2 .. n /\ i - 1 > 0
        BY <3>3
      <4>2. g[i - 1] = f[i - 1]
        BY <2>2, <4>1
      <4>3. g[i] = g[i - 1] \o seqs[i]
        BY <1>5, <4>1, Zenon
      <4>4. f[i] = f[i - 1] \o seqs[i]
        BY <3>1, <3>3, Zenon
      <4>5. g[i] = f[i]
        BY <4>2, <4>3, <4>4
      <4> QED
        BY <4>5
    <3> QED
      BY <3>2, <3>3
  <2>3. T \in SUBSET (0 .. n)
    OBVIOUS
  <2> HIDE DEF T
  <2>4. T = 0 .. n
    BY <2>1, <2>2, <2>3, Upwards, Zenon
  <2>5. \A i \in 1 .. n : i \in T /\ i > 0
    BY <2>4
  <2> QED
    BY <2>5 DEF T
<1>7. g[n] = f[n] /\ f[1] = seqs[1] /\ \A i \in 2 .. n : f[i] = f[i - 1] \o seqs[i]
  <2>1. n \in 1 .. n /\ 1 \in 1 .. n
    OBVIOUS
  <2>2. g[n] = f[n] /\ f[1] = seqs[1]
    BY <1>5, <1>6, <2>1
  <2>3. ASSUME NEW i \in 2 .. n PROVE f[i] = f[i - 1] \o seqs[i]
    <3>1. i \in 1 .. n /\ i - 1 \in 1 .. n
      OBVIOUS
    <3>2. g[i] = f[i] /\ g[i - 1] = f[i - 1]
      BY <1>6, <3>1
    <3>3. g[i] = g[i - 1] \o seqs[i]
      BY <1>5, Zenon
    <3> QED
      BY <3>2, <3>3
  <2> QED
    BY <2>2, <2>3, Zenon
<1>8. Joins(f, n, seqs)
  BY <1>4, <1>7, Zenon DEF Joins
<1> QED
  BY <1>2, <1>8

\* Nothing to join.
LEMMA FlattenNone ==
    ASSUME NEW V, NEW seqs \in [1 .. 0 -> Seq(V)]
    PROVE  FlattenSeq(seqs) = <<>>
<1>1. seqs = <<>> /\ Len(seqs) = 0
  OBVIOUS
<1> QED
  BY <1>1 DEF FlattenSeq

\* What is joined is a sequence of the same kind.
LEMMA FlattenType ==
    ASSUME NEW V, NEW n \in Nat, NEW seqs \in [1 .. n -> Seq(V)]
    PROVE  FlattenSeq(seqs) \in Seq(V)
<1>1. CASE n = 0
  <2>1. seqs \in [1 .. 0 -> Seq(V)]
    BY <1>1
  <2>2. FlattenSeq(seqs) = <<>>
    BY <2>1, FlattenNone, Zenon
  <2> QED
    BY <2>2
<1>2. CASE n # 0
  <2>1. n \in Nat \ {0} /\ n \in 1 .. n
    BY <1>2
  <2>2. PICK f \in [1 .. n -> Seq(V)] : Joins(f, n, seqs)
    BY <2>1, FlattenSeqIs
  <2> QED
    BY <2>1, <2>2 DEF Joins
<1> QED
  BY <1>1, <1>2

\* This code is at position p.
Placed(x, p, code) == \A j \in 1 .. Len(code) : x.code[p + j - 1] = code[j]

\* Two pieces of code are placed one behind the other.
LEMMA PlacedConcat ==
    ASSUME NEW V, NEW x, NEW p \in Nat, NEW a \in Seq(V), NEW b \in Seq(V), Placed(x, p, a \o b)
    PROVE  /\ Placed(x, p, a) /\ Placed(x, p + Len(a), b)
           /\ a \o b \in Seq(V) /\ Len(a \o b) = Len(a) + Len(b) /\ Len(a) \in Nat /\ Len(b) \in Nat
<1> DEFINE n == Len(a)
           m == Len(b)
           t == a \o b
<1>1. n \in Nat /\ m \in Nat
  OBVIOUS
<1>2. t \in Seq(V) /\ Len(t) = n + m /\ \A i \in 1 .. n + m : t[i] = IF i <= n THEN a[i] ELSE b[i - n]
  BY ConcatProperties
<1>3. Placed(x, p, t)
  OBVIOUS
<1>4. n = Len(a) /\ m = Len(b)
  OBVIOUS
<1>5. t = a \o b
  OBVIOUS
<1> HIDE DEF t, n, m
<1>6. ASSUME NEW j \in 1 .. n PROVE x.code[p + j - 1] = a[j]
  <2>1. j \in 1 .. n + m /\ j <= n /\ j \in 1 .. Len(t)
    BY <1>1, <1>2
  <2>2. t[j] = a[j]
    BY <1>2, <2>1
  <2> QED
    BY <1>3, <2>1, <2>2 DEF Placed
<1>7. ASSUME NEW j \in 1 .. m PROVE x.code[p + n + j - 1] = b[j]
  <2> DEFINE k == n + j
  <2>1. k \in 1 .. n + m /\ ~(k <= n) /\ k \in 1 .. Len(t) /\ k - n = j /\ p + k - 1 = p + n + j - 1
    BY <1>1, <1>2
  <2> HIDE DEF k
  <2>2. t[k] = b[k - n]
    BY <1>1, <1>2, <2>1
  <2>3. x.code[p + k - 1] = t[k]
    BY <1>3, <2>1 DEF Placed
  <2> QED
    BY <2>1, <2>2, <2>3
<1>8. Placed(x, p, a)
  BY <1>4, <1>6, Zenon DEF Placed
<1>9. Placed(x, p + n, b)
  BY <1>4, <1>7 DEF Placed
<1> QED
  BY <1>1, <1>2, <1>4, <1>5, <1>8, <1>9

\* Where each of several pieces begins.
Begins(x, p, n, seqs, off) ==
    /\ off[0] = 0 /\ off[n] = Len(FlattenSeq(seqs))
    /\ \A i \in 1 .. n : off[i] = off[i - 1] + Len(seqs[i])
                         /\ Placed(x, p + off[i - 1], seqs[i])

\* So are the pieces that FlattenSeq joins.
LEMMA PlacedFlat ==
    ASSUME NEW V, NEW n \in Nat, NEW seqs \in [1 .. n -> Seq(V)], NEW x, NEW p \in Nat,
           Placed(x, p, FlattenSeq(seqs))
    PROVE  \E off \in [0 .. n -> Nat] : Begins(x, p, n, seqs, off)
<1>1. CASE n = 0
  <2>1. Len(FlattenSeq(seqs)) = 0
    <3>1. seqs \in [1 .. 0 -> Seq(V)]
      BY <1>1
    <3>2. FlattenSeq(seqs) = <<>>
      BY <3>1, FlattenNone, Zenon
    <3> QED
      BY <3>2
  <2> DEFINE off == [i \in 0 .. n |-> 0]
  <2>2. off \in [0 .. n -> Nat] /\ off[0] = 0 /\ off[n] = 0 /\ 1 .. n = {}
    BY <1>1
  <2> HIDE DEF off
  <2>3. \A i \in 1 .. n : off[i] = off[i - 1] + Len(seqs[i]) /\ Placed(x, p + off[i - 1], seqs[i])
    BY <2>2, Zenon
  <2>4. Begins(x, p, n, seqs, off)
    BY <2>1, <2>2, <2>3 DEF Begins
  <2> QED
    BY <2>2, <2>4
<1>2. CASE n # 0
  <2>1. n \in Nat \ {0}
    BY <1>2
  <2>2. PICK f \in [1 .. n -> Seq(V)] : Joins(f, n, seqs)
    BY <2>1, FlattenSeqIs
  <2>3. /\ FlattenSeq(seqs) = f[n]
        /\ f[1] = seqs[1]
        /\ \A i \in 2 .. n : f[i] = f[i - 1] \o seqs[i]
    BY <2>2, Zenon DEF Joins
  <2> DEFINE off == [i \in 0 .. n |-> IF i = 0 THEN 0 ELSE Len(f[i])]
             T == {i \in 0 .. n : i > 0 => Placed(x, p, f[i])}
  <2>4. n \in T
    BY <2>1, <2>3
  <2>5. ASSUME NEW i \in 1 .. n, i \in T PROVE i - 1 \in T
    <3>1. CASE i = 1
      BY <3>1
    <3>2. CASE i # 1
      <4>1. i \in 2 .. n /\ i - 1 \in 1 .. n /\ i > 0 /\ i - 1 \in 0 .. n
        BY <3>2
      <4>2. f[i] = f[i - 1] \o seqs[i] /\ f[i - 1] \in Seq(V) /\ seqs[i] \in Seq(V)
        BY <2>3, <4>1, Zenon
      <4>3. Placed(x, p, f[i - 1] \o seqs[i])
        BY <2>5, <4>1, <4>2, Zenon
      <4>4. Placed(x, p, f[i - 1])
        BY <4>2, <4>3, PlacedConcat
      <4> QED
        BY <4>1, <4>4
    <3> QED
      BY <3>1, <3>2
  <2>6. T \in SUBSET (0 .. n)
    OBVIOUS
  <2> HIDE DEF T
  <2>7. T = 0 .. n
    BY <2>4, <2>5, <2>6, Downwards, Zenon
  <2>8. \A i \in 1 .. n : Placed(x, p, f[i])
    <3> SUFFICES ASSUME NEW i \in 1 .. n PROVE Placed(x, p, f[i])
      OBVIOUS
    <3>1. i \in T /\ i > 0
      BY <2>7
    <3> QED
      BY <3>1 DEF T
  <2>9. \A i \in 1 .. n : Len(f[i]) \in Nat
    OBVIOUS
  <2>10. off \in [0 .. n -> Nat] /\ off[0] = 0 /\ off[n] = Len(FlattenSeq(seqs))
    BY <2>1, <2>3, <2>9
  <2>11. ASSUME NEW i \in 1 .. n
         PROVE  off[i] = off[i - 1] + Len(seqs[i]) /\ Placed(x, p + off[i - 1], seqs[i])
    <3>1. Len(seqs[i]) \in Nat
      OBVIOUS
    <3>2. CASE i = 1
      <4>1. off[i] = Len(f[1]) /\ off[i - 1] = 0
        BY <3>2
      <4>2. Placed(x, p, seqs[i]) /\ p + 0 = p
        BY <2>3, <2>8, <3>2
      <4> QED
        BY <2>3, <3>1, <3>2, <4>1, <4>2
    <3>3. CASE i # 1
      <4>1. i \in 2 .. n /\ i - 1 \in 1 .. n /\ i - 1 # 0 /\ i # 0 /\ i - 1 \in 0 .. n /\ i \in 0 .. n
        BY <3>3
      <4>2. f[i] = f[i - 1] \o seqs[i] /\ f[i - 1] \in Seq(V) /\ seqs[i] \in Seq(V)
        BY <2>3, <4>1, Zenon
      <4>3. off[i] = Len(f[i]) /\ off[i - 1] = Len(f[i - 1])
        BY <4>1
      <4>4. Placed(x, p, f[i - 1] \o seqs[i])
        BY <2>8, <4>2, Zenon
      <4> HIDE DEF off
      <4> DEFINE a == f[i - 1]
                 b == seqs[i]
      <4>5. a \in Seq(V) /\ b \in Seq(V) /\ Placed(x, p, a \o b)
        BY <4>2, <4>4
      <4>6. a = f[i - 1] /\ b = seqs[i]
        OBVIOUS
      <4> HIDE DEF a, b
      <4>7. Placed(x, p + Len(a), b) /\ Len(a \o b) = Len(a) + Len(b)
        BY <4>5, PlacedConcat
      <4> QED
        BY <4>2, <4>3, <4>6, <4>7
    <3> QED
      BY <3>2, <3>3
  <2> HIDE DEF off
  <2>12. Begins(x, p, n, seqs, off)
    BY <2>10, <2>11 DEF Begins
  <2> QED
    BY <2>10, <2>12, Zenon
<1> QED
  BY <1>1, <1>2, Zenon

-----------------------------------------------------------------------------
(* Numbers modulo others.                                                  *)

\* Arithmetic of quotients and residues.
LEMMA DivMod ==
    ASSUME NEW a \in Nat, NEW b \in Nat \ {0}
    PROVE  /\ a \div b \in Nat /\ a % b \in 0 .. b - 1
           /\ a = (a \div b) * b + (a % b)
<1> DEFINE q == a \div b
           r == a % b
<1>1. q \in Nat /\ r \in 0 .. b - 1
  OBVIOUS
<1>2. a = b * q + r
  OBVIOUS
<1>3. b * q = q * b
  BY <1>1
<1> HIDE DEF q, r
<1>4. q \in Nat /\ r \in 0 .. b - 1 /\ a = q * b + r
  BY <1>1, <1>2, <1>3
<1> QED
  BY <1>4 DEF q, r

LEMMA Product ==
    ASSUME NEW m \in Nat, NEW n \in Nat, NEW b \in Nat, m <= n
    PROVE  m * b \in Nat /\ n * b \in Nat /\ m * b <= n * b
<1>1. PICK d \in Nat : n = m + d
  BY n - m \in Nat
<1>2. n * b = m * b + d * b
  BY <1>1
<1>3. m * b \in Nat /\ d * b \in Nat
  OBVIOUS
<1> QED
  BY <1>2, <1>3

LEMMA Remainder ==
    ASSUME NEW k \in Nat, NEW b \in Nat \ {0}, NEW q \in 0 .. b - 1
    PROVE  (k * b + q) % b = q
<1> DEFINE a == k * b + q
           l == a \div b
           r == a % b
<1>1. k * b \in Nat /\ a \in Nat
  OBVIOUS
<1>2. l \in Nat /\ r \in 0 .. b - 1 /\ a = l * b + r
  BY <1>1, DivMod, Zenon
<1>3. a = k * b + q /\ r = a % b
  OBVIOUS
<1> HIDE DEF a, l, r
<1>4. ASSUME l < k PROVE FALSE
  <2>1. (l + 1) * b <= k * b
    BY <1>2, <1>4, Product, l + 1 \in Nat, l + 1 <= k
  <2>2. (l + 1) * b = l * b + b /\ l * b \in Nat /\ k * b \in Nat
    BY <1>2
  <2> QED
    BY <1>2, <1>3, <2>1, <2>2
<1>5. ASSUME k < l PROVE FALSE
  <2>1. (k + 1) * b <= l * b
    BY <1>2, <1>5, Product, k + 1 \in Nat, k + 1 <= l
  <2>2. (k + 1) * b = k * b + b /\ l * b \in Nat /\ k * b \in Nat
    BY <1>2
  <2> QED
    BY <1>2, <1>3, <2>1, <2>2
<1>6. l = k
  BY <1>2, <1>4, <1>5
<1>7. r = q
  <2>1. l * b \in Nat
    BY <1>2
  <2> QED
    BY <1>2, <1>3, <1>6, <2>1
<1> QED
  BY <1>3, <1>7 DEF a

\* A number below 0 and above - Order wraps around once.
LEMMA Negative ==
    ASSUME NEW k \in Int, - Order <= k, k < 0
    PROVE  k % Order = k + Order
  BY MachineAssumption

\* A number from Order on wraps around once.
LEMMA BeyondOrder ==
    ASSUME NEW k \in Int, Order <= k, k < 2 * Order
    PROVE  k % Order = k - Order
  BY MachineAssumption

-----------------------------------------------------------------------------
(* Words taken a chunk at a time.                                          *)

\* upto says how many words the first chunks have.
Split(n, count, upto) ==
    /\ Chunks(n) \in [1 .. count -> 1 .. Chunk]
    /\ upto[0] = 0 /\ upto[count] = n
    /\ \A i \in 1 .. count : upto[i] = upto[i - 1] + Chunks(n)[i]

\* The chunks of n words are n words together.
LEMMA ChunksSplit ==
    ASSUME NEW n \in Nat
    PROVE  \E count \in Nat : \E upto \in [0 .. count -> 0 .. n] : Split(n, count, upto)
<1> DEFINE d == Chunk
           count == (n + d - 1) \div d
           upto == [i \in 0 .. count |-> IF i * d <= n THEN i * d ELSE n]
<1>1. d \in Nat \ {0}
  BY MachineAssumption
<1>2. PICK r \in 0 .. d - 1 : count \in Nat /\ n + d - 1 = count * d + r
  <2>1. n + d - 1 \in Nat
    BY <1>1
  <2> QED
    BY <1>1, <2>1, DivMod, Zenon
<1>3. Chunks(n) = [i \in 1 .. count |-> IF i * d <= n THEN d ELSE n % d]
  BY DEF Chunks
<1>4. Chunk = d
  OBVIOUS
<1>5. upto = [i \in 0 .. count |-> IF i * d <= n THEN i * d ELSE n]
  OBVIOUS
<1> HIDE DEF d, count, upto
<1>6. \A i \in Nat : i * d \in Nat /\ (i + 1) * d = i * d + d
  BY <1>1
<1>7. ASSUME NEW i \in 0 .. count, i < count PROVE i * d < n /\ (~((i + 1) * d <= n) => i + 1 = count)
  <2>1. (i + 1) * d <= count * d
    <3>1. i + 1 \in Nat /\ i + 1 <= count
      BY <1>2, <1>7
    <3> QED
      BY <1>1, <1>2, <3>1, Product
  <2>2. i * d \in Nat /\ (i + 1) * d = i * d + d /\ count * d \in Nat
    BY <1>2, <1>6
  <2>3. i * d < n
    BY <1>1, <1>2, <2>1, <2>2
  <2>4. ASSUME i + 1 # count PROVE (i + 1) * d <= n
    <3>1. i + 2 \in Nat /\ i + 2 <= count /\ i + 1 \in Nat
      BY <1>2, <1>7, <2>4
    <3>2. (i + 2) * d <= count * d
      BY <1>1, <1>2, <3>1, Product
    <3>3. (i + 2) * d = (i + 1) * d + d
      BY <1>1, <3>1
    <3> QED
      BY <1>1, <1>2, <2>2, <3>2, <3>3
  <2> QED
    BY <2>3, <2>4
<1>8. upto \in [0 .. count -> 0 .. n]
  BY <1>5, <1>6
<1>9. upto[0] = 0
  <2>1. 0 * d = 0 /\ 0 \in 0 .. count
    BY <1>1, <1>2
  <2> QED
    BY <1>5, <2>1
<1>10. upto[count] = n
  <2>1. count * d >= n /\ count \in 0 .. count
    BY <1>1, <1>2, <1>6
  <2>2. upto[count] = IF count * d <= n THEN count * d ELSE n
    BY <1>5, <2>1
  <2> QED
    BY <1>2, <1>6, <2>1, <2>2
<1>11. ASSUME NEW i \in 1 .. count
       PROVE  upto[i] = upto[i - 1] + Chunks(n)[i] /\ Chunks(n)[i] \in 1 .. d
  <2> DEFINE h == i - 1
             a == h * d
  <2>1. h \in 0 .. count /\ h < count /\ h + 1 = i /\ i \in 0 .. count
    BY <1>2
  <2>2. a \in Nat /\ i * d = a + d /\ a < n /\ (~(i * d <= n) => i = count)
    <3> HIDE DEF h
    <3>1. h * d \in Nat /\ (h + 1) * d = h * d + d
      BY <1>2, <1>6, <2>1
    <3>2. h * d < n /\ (~((h + 1) * d <= n) => h + 1 = count)
      BY <1>7, <2>1
    <3> QED
      BY <2>1, <3>1, <3>2
  <2>3. a = h * d
    OBVIOUS
  <2> HIDE DEF a
  <2>4. upto[h] = a
    <3>1. upto[h] = IF h * d <= n THEN h * d ELSE n
      BY <1>5, <2>1
    <3> QED
      BY <2>2, <2>3, <3>1
  <2>5. CASE i * d <= n
    <3>1. upto[i] = a + d /\ Chunks(n)[i] = d
      BY <1>3, <1>5, <2>1, <2>2, <2>5
    <3> QED
      BY <1>1, <2>4, <3>1
  <2>6. CASE ~(i * d <= n)
    <3> DEFINE q == n - a
    <3>1. q \in 1 .. d - 1 /\ q \in 0 .. d - 1 /\ n = a + q
      BY <1>1, <2>2, <2>6
    <3> HIDE DEF q
    <3>2. h \in Nat
      BY <1>2, <2>1
    <3>3. (h * d + q) % d = q
      BY <1>1, <3>1, <3>2, Remainder
    <3>4. n % d = q
      BY <2>3, <3>1, <3>3
    <3>5. upto[i] = n /\ Chunks(n)[i] = n % d
      BY <1>3, <1>5, <2>1, <2>6
    <3> QED
      BY <1>1, <2>2, <2>4, <3>1, <3>4, <3>5
  <2> QED
    BY <2>5, <2>6
<1>12. Chunks(n) \in [1 .. count -> 1 .. Chunk]
  <2>1. DOMAIN Chunks(n) = 1 .. count /\ Chunks(n) = [i \in 1 .. count |-> Chunks(n)[i]]
    BY <1>3
  <2> QED
    BY <1>4, <1>11, <2>1
<1>13. Split(n, count, upto)
  BY <1>9, <1>10, <1>11, <1>12 DEF Split
<1> QED
  BY <1>2, <1>8, <1>13

\* What is on top of a stack.
LEMMA Tops ==
    ASSUME NEW a \in Words, NEW s \in Deep
    PROVE  /\ Put(a, s)[1] = a
           /\ \A i \in 1 .. Window : Put(a, s)[i + 1] = s[i]
<1>1. s \in Seq(Words) /\ Len(s) \in Nat /\ Len(s) >= Window /\ Window \in Nat
  BY DeepFacts
<1>2. \A i \in 1 .. Window : i \in 1 .. Len(s)
  BY <1>1
<1> QED
  BY <1>1, <1>2, PutFacts

\* The same for four words.
LEMMA TopFour ==
    ASSUME NEW a \in Words, NEW b \in Words, NEW c \in Words, NEW d \in Words, NEW s \in Deep
    PROVE  /\ Put(a, s)[1] = a
           /\ Put(a, Put(b, s))[2] = b
           /\ Put(a, Put(b, Put(c, Put(d, s))))[4] = d
<1> DEFINE s1 == Put(d, s)
           s2 == Put(c, s1)
           s3 == Put(b, s2)
           s4 == Put(a, s3)
           t == Put(b, s)
           u == Put(a, t)
<1>1. s1 \in Deep /\ s1[1] = d /\ t \in Deep /\ t[1] = b
  BY DeepFacts, Tops
<1>2. 1 \in 1 .. Window /\ 2 \in 1 .. Window /\ 3 \in 1 .. Window
  BY MachineAssumption
<1>3. s2 \in Deep
  BY <1>1, DeepFacts
<1>4. s3 \in Deep
  BY <1>3, DeepFacts
<1>5. s2[2] = s1[1]
  BY <1>1, <1>2, Tops
<1>6. s3[3] = s2[2]
  BY <1>3, <1>2, Tops
<1>7. s4[4] = s3[3]
  BY <1>4, <1>2, Tops
<1>8. u[2] = t[1]
  BY <1>1, <1>2, Tops
<1>9. Put(a, s)[1] = a
  BY Tops
<1> HIDE DEF s1, s2, s3, s4, t, u
<1>10. s4[4] = d /\ u[2] = b
  BY <1>1, <1>5, <1>6, <1>7, <1>8
<1> QED
  BY <1>9, <1>10 DEF s4, s3, s2, s1, u, t

-----------------------------------------------------------------------------
(* Straight pieces of code.                                                *)

\* What add, mul, a subtraction and eq leave.
Plus(a, b) == (a + b) % Order
Mult(a, b) == (a * b) % Order
Less(a, b) == (a - b) % Order
Same(a, b) == IF a = b THEN 1 ELSE 0

\* add, mul and eq.
LEMMA AddRule ==
    ASSUME NEW x, NEW p, NEW a \in Words, NEW b \in Words, NEW s \in Deep, NEW r, NEW c,
           x.code[p] = <<"add", 0>>, Safe(x, At(p, Put(a, Put(b, s)), r, c)),
           Good(x, At(p + 1, Put(Plus(a, b), s), r, c))
    PROVE  Good(x, At(p, Put(a, Put(b, s)), r, c))
<1>1. "add" \in {"add", "mul", "eq"} /\ Plus(a, b) = (a + b) % Order
  BY DEF Plus
<1> QED
  BY <1>1, BinaryRule, Zenon

LEMMA MulRule ==
    ASSUME NEW x, NEW p, NEW a \in Words, NEW b \in Words, NEW s \in Deep, NEW r, NEW c,
           x.code[p] = <<"mul", 0>>, Safe(x, At(p, Put(a, Put(b, s)), r, c)),
           Good(x, At(p + 1, Put(Mult(a, b), s), r, c))
    PROVE  Good(x, At(p, Put(a, Put(b, s)), r, c))
<1>1. "mul" \in {"add", "mul", "eq"} /\ Mult(a, b) = (a * b) % Order /\ "mul" # "add"
  BY DEF Mult
<1> QED
  BY <1>1, BinaryRule, Zenon

LEMMA EqRule ==
    ASSUME NEW x, NEW p, NEW a \in Words, NEW b \in Words, NEW s \in Deep, NEW r, NEW c,
           x.code[p] = <<"eq", 0>>, Safe(x, At(p, Put(a, Put(b, s)), r, c)),
           Good(x, At(p + 1, Put(Same(a, b), s), r, c))
    PROVE  Good(x, At(p, Put(a, Put(b, s)), r, c))
<1>1. "eq" \in {"add", "mul", "eq"} /\ Same(a, b) = (IF a = b THEN 1 ELSE 0) /\ "eq" # "add" /\ "eq" # "mul"
  BY DEF Same
<1> QED
  BY <1>1, BinaryRule, Zenon

\* All of lo .. hi is in the piece, and RAM is in order.
Clear(x, lo, hi, r) == \A i \in lo .. hi : Calm(x, i, r)

\* There the machine is safe.
LEMMA ClearIsSafe ==
    ASSUME NEW x, NEW lo, NEW hi, NEW r, NEW c, NEW i \in lo .. hi, NEW s, Clear(x, lo, hi, r)
    PROVE  Safe(x, At(i, s, r, c))
  BY CalmIsSafe DEF Clear

\* dup 0, dup 1 and dup 3.
LEMMA DupZeroRule ==
    ASSUME NEW x, NEW p, NEW a \in Words, NEW s \in Deep, NEW r, NEW c,
           x.code[p] = <<"dup", 0>>, Safe(x, At(p, Put(a, s), r, c)),
           Good(x, At(p + 1, Put(a, Put(a, s)), r, c))
    PROVE  Good(x, At(p, Put(a, s), r, c))
<1> DEFINE t == Put(a, s)
<1>1. t \in Deep /\ t[0 + 1] = a
  BY DeepFacts, TopFour
<1>2. 0 \in 0 .. Window - 1
  BY MachineAssumption
<1>3. Safe(x, At(p, t, r, c)) /\ Good(x, At(p + 1, Put(a, t), r, c))
  OBVIOUS
<1> HIDE DEF t
<1>4. Good(x, At(p, t, r, c))
  BY <1>1, <1>2, <1>3, DupRule
<1> QED
  BY <1>4 DEF t

LEMMA DupOneRule ==
    ASSUME NEW x, NEW p, NEW a \in Words, NEW b \in Words, NEW s \in Deep, NEW r, NEW c,
           x.code[p] = <<"dup", 1>>, Safe(x, At(p, Put(a, Put(b, s)), r, c)),
           Good(x, At(p + 1, Put(b, Put(a, Put(b, s))), r, c))
    PROVE  Good(x, At(p, Put(a, Put(b, s)), r, c))
<1> DEFINE t == Put(a, Put(b, s))
<1>1. t \in Deep /\ t[1 + 1] = b
  BY DeepFacts, TopFour
<1>2. 1 \in 0 .. Window - 1
  BY MachineAssumption
<1>3. Safe(x, At(p, t, r, c)) /\ Good(x, At(p + 1, Put(b, t), r, c))
  OBVIOUS
<1> HIDE DEF t
<1>4. Good(x, At(p, t, r, c))
  BY <1>1, <1>2, <1>3, DupRule
<1> QED
  BY <1>4 DEF t

LEMMA DupThreeRule ==
    ASSUME NEW x, NEW p, NEW a \in Words, NEW b \in Words, NEW d \in Words, NEW e \in Words, NEW s \in Deep,
           NEW r, NEW c, 3 \in 0 .. Window - 1,
           x.code[p] = <<"dup", 3>>, Safe(x, At(p, Put(a, Put(b, Put(d, Put(e, s)))), r, c)),
           Good(x, At(p + 1, Put(e, Put(a, Put(b, Put(d, Put(e, s))))), r, c))
    PROVE  Good(x, At(p, Put(a, Put(b, Put(d, Put(e, s)))), r, c))
<1> DEFINE t == Put(a, Put(b, Put(d, Put(e, s))))
<1>1. t \in Deep
  BY DeepFacts, Zenon
<1>2. t[3 + 1] = e
  BY TopFour
<1>3. Safe(x, At(p, t, r, c)) /\ Good(x, At(p + 1, Put(e, t), r, c))
  OBVIOUS
<1> HIDE DEF t
<1>4. Good(x, At(p, t, r, c))
  BY <1>1, <1>2, <1>3, DupRule, Zenon
<1> QED
  BY <1>4 DEF t

\* read_mem of one word.
LEMMA ReadOneRule ==
    ASSUME NEW x, NEW p, NEW a \in Words, NEW s \in Deep, NEW r \in Memory, NEW c,
           x.code[p] = <<"read_mem", 1>>, Safe(x, At(p, Put(a, s), r, c)),
           Good(x, At(p + 1, Put(Less(a, 1), Put(r[a], s)), r, c))
    PROVE  Good(x, At(p, Put(a, s), r, c))
<1>1. (a - (1 - 1)) % Order = a
  BY Residues DEF Words
<1>2. Cellwise(r, a, 1) = <<r[a]>>
  BY <1>1 DEF Cellwise
<1>3. Cellwise(r, a, 1) \o s = Put(r[a], s)
  BY <1>2, Zenon DEF Put
<1>4. 1 \in 1 .. Chunk
  BY MachineAssumption
<1> QED
  BY <1>3, <1>4, ReadRule, Zenon DEF Less

\* The jump stack with one more call.
LEMMA Jumped ==
    ASSUME NEW e \in Nat \X Nat, NEW c \in Seq(Nat \X Nat)
    PROVE  <<e>> \o c \in Seq(Nat \X Nat) /\ (<<e>> \o c)[1] = e /\ Tail(<<e>> \o c) = c
<1> DEFINE t == <<e>> \o c
<1>1. <<e>> \in Seq(Nat \X Nat) /\ Len(<<e>>) = 1 /\ <<e>>[1] = e /\ Len(c) \in Nat
  OBVIOUS
<1>2. /\ t \in Seq(Nat \X Nat) /\ Len(t) = 1 + Len(c)
      /\ \A i \in 1 .. 1 + Len(c) : t[i] = IF i <= 1 THEN <<e>>[i] ELSE c[i - 1]
  BY <1>1, ConcatProperties
<1>3. \A i \in 1 .. 1 + Len(c) : ~(i <= 1) => t[i] = c[i - 1]
  BY <1>2, Zenon
<1> HIDE DEF t
<1>4. t # <<>> /\ t[1] = e
  BY <1>1, <1>2
<1>5. /\ Tail(t) \in Seq(Nat \X Nat) /\ Len(Tail(t)) = Len(t) - 1
      /\ \A i \in 1 .. Len(Tail(t)) : Tail(t)[i] = t[i + 1]
  BY <1>2, <1>4, HeadTailProperties
<1>6. Len(Tail(t)) = Len(c)
  BY <1>1, <1>2, <1>5
<1>7. ASSUME NEW i \in 1 .. Len(Tail(t)) PROVE Tail(t)[i] = c[i]
  <2>1. i + 1 \in 1 .. 1 + Len(c) /\ ~(i + 1 <= 1) /\ i + 1 - 1 = i
    BY <1>1, <1>6
  <2>2. t[i + 1] = c[i + 1 - 1]
    BY <1>3, <2>1
  <2> QED
    BY <1>5, <2>1, <2>2
<1>8. Tail(t) = c
  BY <1>5, <1>6, <1>7, SeqEqual, Zenon
<1> QED
  BY <1>2, <1>4, <1>8, Zenon DEF t

\* 0 and 1 are words, and differ.
LEMMA TwoWords ==
    ASSUME NEW a \in Words, NEW b \in Words, NEW s \in Seq(Words)
    PROVE  <<a, b>> \in Seq(Words) /\ Len(<<a, b>>) = 2 /\ <<a, b>> \o s = Put(a, Put(b, s))
<1> DEFINE w == <<b>>
           v == <<a, b>>
<1>1. w \in Seq(Words) /\ Len(w) = 1 /\ w[1] = b /\ w \o s = Put(b, s)
  BY DEF Put
<1>2. v \in Seq(Words) /\ Len(v) = 2 /\ v[1] = a /\ v[2] = b
  OBVIOUS
<1> HIDE DEF w, v
<1>3. Put(a, w) \in Seq(Words) /\ Len(Put(a, w)) = 2 /\ Put(a, w)[1] = a /\ Put(a, w)[2] = b
  <2>1. 1 \in 1 .. Len(w)
    BY <1>1
  <2>2. /\ Put(a, w) \in Seq(Words) /\ Len(Put(a, w)) = Len(w) + 1 /\ Put(a, w)[1] = a
        /\ \A i \in 1 .. Len(w) : Put(a, w)[i + 1] = w[i]
    BY <1>1, PutFacts, Zenon
  <2>3. Put(a, w)[1 + 1] = w[1]
    BY <2>1, <2>2
  <2> QED
    BY <1>1, <2>2, <2>3
<1>4. \A i \in 1 .. Len(v) : v[i] = Put(a, w)[i]
  BY <1>2, <1>3
<1>5. Put(a, w) = v
  BY <1>2, <1>3, <1>4, SeqEqual
<1>6. v \o s = Put(a, Put(b, s))
  <2>1. w \in Seq(Words) /\ w \o s = Put(b, s)
    BY <1>1
  <2>2. Put(a, w) \o s = Put(a, w \o s)
    BY <2>1, PutOrder, Zenon
  <2> QED
    BY <1>5, <2>1, <2>2, Zenon
<1> QED
  BY <1>2, <1>6 DEF v

-----------------------------------------------------------------------------
(* The search for zero cells.                                              *)

\* The n cells from a up are zero, and do not wrap around.
Free(r, a, n) == a \in 0 .. Order - n /\ \A k \in 0 .. n - 1 : r[a + k] = 0

\* The instructions of scan.
LEMMA ScanCode ==
    ASSUME NEW x, NEW q \in Nat, Placed(x, q, Scan), 1 \in Words
    PROVE  /\ x.code[q] = <<"dup", 1>> /\ x.code[q + 1] = <<"read_mem", 1>>
           /\ x.code[q + 2] = <<"pop", 1>> /\ x.code[q + 3] = <<"push", 0>>
           /\ x.code[q + 4] = <<"eq", 0>> /\ x.code[q + 5] = <<"swap", 1>>
           /\ x.code[q + 6] = <<"push", 1>> /\ x.code[q + 7] = <<"add", 0>>
           /\ x.code[q + 8] = <<"mul", 0>> /\ x.code[q + 9] = <<"dup", 0>>
           /\ x.code[q + 10] = <<"dup", 3>> /\ x.code[q + 11] = <<"eq", 0>>
           /\ x.code[q + 12] = <<"skiz", 0>> /\ x.code[q + 13] = <<"return", 0>>
           /\ x.code[q + 14] = <<"swap", 1>> /\ x.code[q + 15] = <<"push", 1>>
           /\ x.code[q + 16] = <<"add", 0>> /\ x.code[q + 17] = <<"dup", 0>>
           /\ x.code[q + 18] = <<"push", 0>> /\ x.code[q + 19] = <<"eq", 0>>
           /\ x.code[q + 20] = <<"push", 0>> /\ x.code[q + 21] = <<"eq", 0>>
           /\ x.code[q + 22] = <<"assert", 0>> /\ x.code[q + 23] = <<"swap", 1>>
           /\ x.code[q + 24] = <<"recurse", 0>>
<1>1. 0 % Order = 0 /\ 1 % Order = 1
  BY MachineAssumption DEF Words
<1>2. /\ Len(Scan) = 25
      /\ Scan[1] = <<"dup", 1>> /\ Scan[2] = <<"read_mem", 1>>
      /\ Scan[3] = <<"pop", 1>> /\ Scan[4] = <<"push", 0>>
      /\ Scan[5] = <<"eq", 0>> /\ Scan[6] = <<"swap", 1>>
      /\ Scan[7] = <<"push", 1>> /\ Scan[8] = <<"add", 0>>
      /\ Scan[9] = <<"mul", 0>> /\ Scan[10] = <<"dup", 0>>
      /\ Scan[11] = <<"dup", 3>> /\ Scan[12] = <<"eq", 0>>
      /\ Scan[13] = <<"skiz", 0>> /\ Scan[14] = <<"return", 0>>
      /\ Scan[15] = <<"swap", 1>> /\ Scan[16] = <<"push", 1>>
      /\ Scan[17] = <<"add", 0>> /\ Scan[18] = <<"dup", 0>>
      /\ Scan[19] = <<"push", 0>> /\ Scan[20] = <<"eq", 0>>
      /\ Scan[21] = <<"push", 0>> /\ Scan[22] = <<"eq", 0>>
      /\ Scan[23] = <<"assert", 0>> /\ Scan[24] = <<"swap", 1>>
      /\ Scan[25] = <<"recurse", 0>>
  BY <1>1 DEF Scan, Dup, ReadMem, Pop, Push, Eq, Swap, Add, Mul, Skiz, Return, AssertOne, Recurse, Literal
<1>3. \A j \in 1 .. 25 : x.code[q + j - 1] = Scan[j]
  BY <1>2, Zenon DEF Placed
<1>4. \A j \in 0 .. 24 : x.code[q + j] = Scan[j + 1]
  <2> SUFFICES ASSUME NEW j \in 0 .. 24 PROVE x.code[q + j] = Scan[j + 1]
    OBVIOUS
  <2>1. j + 1 \in 1 .. 25 /\ q + (j + 1) - 1 = q + j
    OBVIOUS
  <2> QED
    BY <1>3, <2>1
<1>5. q + 0 = q
  OBVIOUS
<1> QED
  BY <1>2, <1>4, <1>5

\* The k cells below the cursor are zero, the one below them is not, and no
\* run of n cells ends below the cursor.
Scanned(r, n, k, cursor) ==
    /\ k \in 0 .. n - 1 /\ k <= cursor
    /\ \A j \in cursor - k .. cursor - 1 : r[j] = 0
    /\ k = cursor \/ r[cursor - k - 1] # 0
    /\ \A a \in 0 .. Order - n : a + n <= cursor => \E j \in 0 .. n - 1 : r[a + j] # 0

\* A cell that is looked at keeps the account of the scan right.
LEMMA ScanAdvances ==
    ASSUME NEW r \in Memory, NEW n \in 1 .. Order - 1, NEW k, NEW cursor \in Words, NEW m,
           r[cursor] = 0 => m = k + 1, r[cursor] # 0 => m = 0,
           Scanned(r, n, k, cursor)
    PROVE  /\ m = n => Free(r, cursor - n + 1, n)
           /\ m # n => Scanned(r, n, m, cursor + 1)
           /\ m # n /\ cursor + 1 = Order => Full(r, n)
<1>1. cursor \in Nat /\ cursor < Order /\ n \in Nat /\ 0 < n /\ n < Order /\ Order \in Nat
      /\ k \in Nat /\ k < n /\ k <= cursor
  BY MachineAssumption DEF Words, Scanned
<1>2. \A j \in cursor - k .. cursor - 1 : r[j] = 0
  BY DEF Scanned
<1>3. ASSUME m = n PROVE Free(r, cursor - n + 1, n)
  <2>1. k + 1 = n /\ r[cursor] = 0
    BY <1>1, <1>3
  <2> DEFINE a == cursor - n + 1
  <2>2. a \in 0 .. Order - n /\ a = cursor - k
    BY <1>1, <2>1
  <2>3. ASSUME NEW j \in 0 .. n - 1 PROVE r[a + j] = 0
    <3>1. a + j \in cursor - k .. cursor
      BY <1>1, <2>1, <2>2
    <3>2. CASE a + j = cursor
      BY <2>1, <3>2
    <3>3. CASE a + j # cursor
      <4>1. a + j \in cursor - k .. cursor - 1
        BY <1>1, <3>1, <3>3
      <4> QED
        BY <1>2, <4>1
    <3> QED
      BY <3>2, <3>3
  <2> QED
    BY <2>2, <2>3 DEF Free
<1>4. ASSUME m # n PROVE Scanned(r, n, m, cursor + 1)
  <2>1. m \in 0 .. n - 1 /\ m <= cursor + 1
    BY <1>1, <1>4
  <2>2. ASSUME NEW j \in cursor + 1 - m .. cursor + 1 - 1 PROVE r[j] = 0
    <3>1. m = k + 1 /\ r[cursor] = 0
      BY <1>1, <2>1
    <3>2. j = cursor \/ j \in cursor - k .. cursor - 1
      BY <1>1, <3>1
    <3> QED
      BY <1>2, <3>1, <3>2
  <2>3. m = cursor + 1 \/ r[cursor + 1 - m - 1] # 0
    <3>1. CASE r[cursor] = 0
      <4>1. m = k + 1 /\ cursor + 1 - m - 1 = cursor - k - 1 /\ (k = cursor => m = cursor + 1)
        BY <1>1, <3>1
      <4> QED
        BY <4>1 DEF Scanned
    <3>2. CASE r[cursor] # 0
      <4>1. m = 0 /\ cursor + 1 - m - 1 = cursor /\ r[cursor] # 0
        BY <1>1, <3>2
      <4> QED
        BY <4>1
    <3> QED
      BY <3>1, <3>2
  <2>4. ASSUME NEW a \in 0 .. Order - n, a + n <= cursor + 1 PROVE \E j \in 0 .. n - 1 : r[a + j] # 0
    <3>1. CASE a + n <= cursor
      BY <3>1 DEF Scanned
    <3>2. CASE a + n = cursor + 1 /\ r[cursor] # 0
      <4>1. n - 1 \in 0 .. n - 1 /\ a + (n - 1) = cursor /\ r[cursor] # 0
        BY <1>1, <3>2
      <4> QED
        BY <4>1
    <3>3. CASE a + n = cursor + 1 /\ r[cursor] = 0
      <4> DEFINE j == cursor - k - 1 - a
      <4>1. m = k + 1 /\ k + 1 < n
        BY <1>1, <2>1, <3>3
      <4>2. j \in 0 .. n - 1 /\ a + j = cursor - k - 1 /\ k # cursor
        BY <1>1, <3>3, <4>1
      <4>3. r[a + j] # 0
        BY <4>2 DEF Scanned
      <4> QED
        BY <4>2, <4>3
    <3> QED
      BY <1>1, <2>4, <3>1, <3>2, <3>3
  <2> DEFINE w == cursor + 1
  <2>5. /\ m \in 0 .. n - 1 /\ m <= w
        /\ \A j \in w - m .. w - 1 : r[j] = 0
        /\ m = w \/ r[w - m - 1] # 0
        /\ \A a \in 0 .. Order - n : a + n <= w => \E j \in 0 .. n - 1 : r[a + j] # 0
    <3>1. \A j \in w - m .. w - 1 : r[j] = 0
      BY <1>1, <2>1, <2>2
    <3>2. \A a \in 0 .. Order - n : a + n <= w => \E j \in 0 .. n - 1 : r[a + j] # 0
      BY <2>4
    <3> QED
      BY <1>1, <2>1, <2>3, <3>1, <3>2
  <2> HIDE DEF w
  <2>6. Scanned(r, n, m, w)
    BY <2>5, Zenon DEF Scanned
  <2> QED
    BY <2>6 DEF w
<1>5. ASSUME m # n, cursor + 1 = Order PROVE Full(r, n)
  <2>1. Scanned(r, n, m, cursor + 1)
    BY <1>4, <1>5
  <2>2. ASSUME NEW a \in 0 .. Order - n PROVE \E j \in 0 .. n - 1 : r[a + j] # 0
    <3>1. a + n <= cursor + 1
      BY <1>1, <1>5
    <3> QED
      BY <2>1, <3>1 DEF Scanned
  <2> QED
    BY <2>2 DEF Full
<1> QED
  BY <1>3, <1>4, <1>5

\* The word at the cursor is counted.
LEMMA ScanCounts ==
    ASSUME NEW x, NEW q \in Nat, NEW s \in Deep, NEW r \in Memory, NEW c, NEW n \in Words,
           NEW k \in Words, NEW cursor \in Words, NEW v \in Words, NEW d \in Words,
           NEW z \in Words, NEW h \in Words, NEW m \in Words,
           v = r[cursor], d = Less(cursor, 1), z = Same(0, v), h = Plus(1, k), m = Mult(h, z), 0 \in Words, 1 \in Words,
           Placed(x, q, Scan), Clear(x, q, q + 24, r),
           Good(x, At(q + 9, Put(m, Put(cursor, Put(n, s))), r, c))
    PROVE  Good(x, At(q, Put(k, Put(cursor, Put(n, s))), r, c))
<1>1. \A i \in q .. q + 24 : \A t : Safe(x, At(i, t, r, c))
  BY ClearIsSafe
<1>2. /\ Put(n, s) \in Deep
      /\ Put(cursor, Put(n, s)) \in Deep
      /\ Put(k, Put(cursor, Put(n, s))) \in Deep
      /\ Put(m, Put(cursor, Put(n, s))) \in Deep
      /\ Put(z, Put(cursor, Put(n, s))) \in Deep
      /\ Put(cursor, Put(k, Put(cursor, Put(n, s)))) \in Deep
      /\ Put(h, Put(z, Put(cursor, Put(n, s)))) \in Deep
      /\ Put(k, Put(z, Put(cursor, Put(n, s)))) \in Deep
      /\ Put(v, Put(k, Put(cursor, Put(n, s)))) \in Deep
      /\ Put(z, Put(k, Put(cursor, Put(n, s)))) \in Deep
      /\ Put(0, Put(v, Put(k, Put(cursor, Put(n, s))))) \in Deep
      /\ Put(1, Put(k, Put(z, Put(cursor, Put(n, s))))) \in Deep
      /\ Put(d, Put(v, Put(k, Put(cursor, Put(n, s))))) \in Deep
  BY DeepFacts, Zenon
<1>3. /\ x.code[q] = <<"dup", 1>> /\ x.code[q + 1] = <<"read_mem", 1>>
      /\ x.code[q + 2] = <<"pop", 1>> /\ x.code[q + 3] = <<"push", 0>>
      /\ x.code[q + 4] = <<"eq", 0>> /\ x.code[q + 5] = <<"swap", 1>>
      /\ x.code[q + 6] = <<"push", 1>> /\ x.code[q + 7] = <<"add", 0>>
      /\ x.code[q + 8] = <<"mul", 0>>
  BY ScanCode
<1>4. Good(x, At(q + 8, Put(h, Put(z, Put(cursor, Put(n, s)))), r, c))
  <2>1. /\ Good(x, At(q + 8 + 1, Put(Mult(h, z), Put(cursor, Put(n, s))), r, c))
        /\ Safe(x, At(q + 8, Put(h, Put(z, Put(cursor, Put(n, s)))), r, c))
    BY <1>1
  <2> QED
    BY <1>3, <1>2, <2>1, MulRule, Zenon
<1>5. Good(x, At(q + 7, Put(1, Put(k, Put(z, Put(cursor, Put(n, s))))), r, c))
  <2>1. /\ Good(x, At(q + 7 + 1, Put(Plus(1, k), Put(z, Put(cursor, Put(n, s)))), r, c))
        /\ Safe(x, At(q + 7, Put(1, Put(k, Put(z, Put(cursor, Put(n, s))))), r, c))
    BY <1>1, <1>4
  <2> QED
    BY <1>3, <1>2, <2>1, AddRule, Zenon
<1>6. Good(x, At(q + 6, Put(k, Put(z, Put(cursor, Put(n, s)))), r, c))
  BY <1>1, <1>3, <1>2, <1>5, PushRule
<1>7. Good(x, At(q + 5, Put(z, Put(k, Put(cursor, Put(n, s)))), r, c))
  <2>1. /\ Good(x, At(q + 5 + 1, Put(k, Put(z, Put(cursor, Put(n, s)))), r, c))
        /\ Safe(x, At(q + 5, Put(z, Put(k, Put(cursor, Put(n, s)))), r, c))
    BY <1>1, <1>6
  <2> QED
    BY <1>3, <1>2, <2>1, SwapOneRule, Zenon
<1>8. Good(x, At(q + 4, Put(0, Put(v, Put(k, Put(cursor, Put(n, s))))), r, c))
  <2>1. /\ Good(x, At(q + 4 + 1, Put(Same(0, v), Put(k, Put(cursor, Put(n, s)))), r, c))
        /\ Safe(x, At(q + 4, Put(0, Put(v, Put(k, Put(cursor, Put(n, s))))), r, c))
    BY <1>1, <1>7
  <2> QED
    BY <1>3, <1>2, <2>1, EqRule, Zenon
<1>9. Good(x, At(q + 3, Put(v, Put(k, Put(cursor, Put(n, s)))), r, c))
  BY <1>1, <1>3, <1>2, <1>8, PushRule
<1>10. Good(x, At(q + 2, Put(d, Put(v, Put(k, Put(cursor, Put(n, s))))), r, c))
  <2>1. /\ Good(x, At(q + 2 + 1, Put(v, Put(k, Put(cursor, Put(n, s)))), r, c))
        /\ Safe(x, At(q + 2, Put(d, Put(v, Put(k, Put(cursor, Put(n, s))))), r, c))
    BY <1>1, <1>9
  <2> QED
    BY <1>3, <1>2, <2>1, PopOneRule, Zenon
<1>11. Good(x, At(q + 1, Put(cursor, Put(k, Put(cursor, Put(n, s)))), r, c))
  <2>1. /\ Good(x, At(q + 1 + 1, Put(d, Put(v, Put(k, Put(cursor, Put(n, s))))), r, c))
        /\ Safe(x, At(q + 1, Put(cursor, Put(k, Put(cursor, Put(n, s)))), r, c))
    BY <1>1, <1>10
  <2> QED
    BY <1>3, <1>2, <2>1, ReadOneRule, Zenon
<1>12. Good(x, At(q, Put(k, Put(cursor, Put(n, s))), r, c))
  <2>1. /\ Good(x, At(q + 1, Put(cursor, Put(k, Put(cursor, Put(n, s)))), r, c))
        /\ Safe(x, At(q, Put(k, Put(cursor, Put(n, s))), r, c))
    BY <1>1, <1>11
  <2> QED
    BY <1>3, <1>2, <2>1, DupOneRule, Zenon
<1> QED
  BY <1>12

\* The run is compared with the one that is looked for.
LEMMA ScanCompares ==
    ASSUME NEW x, NEW q \in Nat, NEW s \in Deep, NEW r \in Memory, NEW c, NEW n \in Words,
           NEW m \in Words, NEW cursor \in Words, NEW e \in Words,
           e = Same(n, m), 1 \in Words, 3 \in 0 .. Window - 1,
           Placed(x, q, Scan), Clear(x, q, q + 24, r),
           Good(x, At(q + 12, Put(e, Put(m, Put(cursor, Put(n, s)))), r, c))
    PROVE  Good(x, At(q + 9, Put(m, Put(cursor, Put(n, s))), r, c))
<1>1. \A i \in q .. q + 24 : \A t : Safe(x, At(i, t, r, c))
  BY ClearIsSafe
<1>2. /\ Put(n, s) \in Deep
      /\ Put(cursor, Put(n, s)) \in Deep
      /\ Put(m, Put(cursor, Put(n, s))) \in Deep
      /\ Put(e, Put(m, Put(cursor, Put(n, s)))) \in Deep
      /\ Put(m, Put(m, Put(cursor, Put(n, s)))) \in Deep
      /\ Put(n, Put(m, Put(m, Put(cursor, Put(n, s))))) \in Deep
  BY DeepFacts, Zenon
<1>3. /\ x.code[q + 9] = <<"dup", 0>> /\ x.code[q + 10] = <<"dup", 3>>
      /\ x.code[q + 11] = <<"eq", 0>>
  BY ScanCode
<1>4. Good(x, At(q + 11, Put(n, Put(m, Put(m, Put(cursor, Put(n, s))))), r, c))
  <2>1. /\ Good(x, At(q + 11 + 1, Put(Same(n, m), Put(m, Put(cursor, Put(n, s)))), r, c))
        /\ Safe(x, At(q + 11, Put(n, Put(m, Put(m, Put(cursor, Put(n, s))))), r, c))
    BY <1>1
  <2> QED
    BY <1>3, <1>2, <2>1, EqRule, Zenon
<1>5. Good(x, At(q + 10, Put(m, Put(m, Put(cursor, Put(n, s)))), r, c))
  <2>1. /\ Good(x, At(q + 10 + 1, Put(n, Put(m, Put(m, Put(cursor, Put(n, s))))), r, c))
        /\ Safe(x, At(q + 10, Put(m, Put(m, Put(cursor, Put(n, s)))), r, c))
    BY <1>1, <1>4
  <2> QED
    BY <1>3, <1>2, <2>1, DupThreeRule, Zenon
<1>6. Good(x, At(q + 9, Put(m, Put(cursor, Put(n, s))), r, c))
  <2>1. /\ Good(x, At(q + 9 + 1, Put(m, Put(m, Put(cursor, Put(n, s)))), r, c))
        /\ Safe(x, At(q + 9, Put(m, Put(cursor, Put(n, s))), r, c))
    BY <1>1, <1>5
  <2> QED
    BY <1>3, <1>2, <2>1, DupZeroRule
<1> QED
  BY <1>6

\* The cursor moves on.
LEMMA ScanMoves ==
    ASSUME NEW x, NEW q \in Nat, NEW s \in Deep, NEW r \in Memory, NEW c, NEW n \in Words,
           NEW m \in Words, NEW cursor \in Words, NEW up \in Words, NEW f \in Words,
           NEW g \in Words,
           up = Plus(1, cursor), f = Same(0, up), g = Same(0, f), 0 \in Words, 1 \in Words,
           Placed(x, q, Scan), Clear(x, q, q + 24, r),
           Good(x, At(q + 22, Put(g, Put(up, Put(m, Put(n, s)))), r, c))
    PROVE  Good(x, At(q + 14, Put(m, Put(cursor, Put(n, s))), r, c))
<1>1. \A i \in q .. q + 24 : \A t : Safe(x, At(i, t, r, c))
  BY ClearIsSafe
<1>2. /\ Put(n, s) \in Deep
      /\ Put(cursor, Put(n, s)) \in Deep
      /\ Put(m, Put(n, s)) \in Deep
      /\ Put(cursor, Put(m, Put(n, s))) \in Deep
      /\ Put(m, Put(cursor, Put(n, s))) \in Deep
      /\ Put(up, Put(m, Put(n, s))) \in Deep
      /\ Put(1, Put(cursor, Put(m, Put(n, s)))) \in Deep
      /\ Put(f, Put(up, Put(m, Put(n, s)))) \in Deep
      /\ Put(g, Put(up, Put(m, Put(n, s)))) \in Deep
      /\ Put(up, Put(up, Put(m, Put(n, s)))) \in Deep
      /\ Put(0, Put(f, Put(up, Put(m, Put(n, s))))) \in Deep
      /\ Put(0, Put(up, Put(up, Put(m, Put(n, s))))) \in Deep
  BY DeepFacts, Zenon
<1>3. /\ x.code[q + 14] = <<"swap", 1>> /\ x.code[q + 15] = <<"push", 1>>
      /\ x.code[q + 16] = <<"add", 0>> /\ x.code[q + 17] = <<"dup", 0>>
      /\ x.code[q + 18] = <<"push", 0>> /\ x.code[q + 19] = <<"eq", 0>>
      /\ x.code[q + 20] = <<"push", 0>> /\ x.code[q + 21] = <<"eq", 0>>
  BY ScanCode
<1>4. Good(x, At(q + 21, Put(0, Put(f, Put(up, Put(m, Put(n, s))))), r, c))
  <2>1. /\ Good(x, At(q + 21 + 1, Put(Same(0, f), Put(up, Put(m, Put(n, s)))), r, c))
        /\ Safe(x, At(q + 21, Put(0, Put(f, Put(up, Put(m, Put(n, s))))), r, c))
    BY <1>1
  <2> QED
    BY <1>3, <1>2, <2>1, EqRule
<1>5. Good(x, At(q + 20, Put(f, Put(up, Put(m, Put(n, s)))), r, c))
  BY <1>1, <1>3, <1>2, <1>4, PushRule
<1>6. Good(x, At(q + 19, Put(0, Put(up, Put(up, Put(m, Put(n, s))))), r, c))
  <2>1. /\ Good(x, At(q + 19 + 1, Put(Same(0, up), Put(up, Put(m, Put(n, s)))), r, c))
        /\ Safe(x, At(q + 19, Put(0, Put(up, Put(up, Put(m, Put(n, s))))), r, c))
    BY <1>1, <1>5
  <2> QED
    BY <1>3, <1>2, <2>1, EqRule, Zenon
<1>7. Good(x, At(q + 18, Put(up, Put(up, Put(m, Put(n, s)))), r, c))
  BY <1>1, <1>3, <1>2, <1>6, PushRule
<1>8. Good(x, At(q + 17, Put(up, Put(m, Put(n, s))), r, c))
  <2>1. /\ Good(x, At(q + 17 + 1, Put(up, Put(up, Put(m, Put(n, s)))), r, c))
        /\ Safe(x, At(q + 17, Put(up, Put(m, Put(n, s))), r, c))
    BY <1>1, <1>7
  <2> QED
    BY <1>3, <1>2, <2>1, DupZeroRule
<1>9. Good(x, At(q + 16, Put(1, Put(cursor, Put(m, Put(n, s)))), r, c))
  <2>1. /\ Good(x, At(q + 16 + 1, Put(Plus(1, cursor), Put(m, Put(n, s))), r, c))
        /\ Safe(x, At(q + 16, Put(1, Put(cursor, Put(m, Put(n, s)))), r, c))
    BY <1>1, <1>8
  <2> QED
    BY <1>3, <1>2, <2>1, AddRule, Zenon
<1>10. Good(x, At(q + 15, Put(cursor, Put(m, Put(n, s))), r, c))
  BY <1>1, <1>3, <1>2, <1>9, PushRule
<1>11. Good(x, At(q + 14, Put(m, Put(cursor, Put(n, s))), r, c))
  <2>1. /\ Good(x, At(q + 14 + 1, Put(cursor, Put(m, Put(n, s))), r, c))
        /\ Safe(x, At(q + 14, Put(m, Put(cursor, Put(n, s))), r, c))
    BY <1>1, <1>10
  <2> QED
    BY <1>3, <1>2, <2>1, SwapOneRule, Zenon
<1> QED
  BY <1>11

\* One round of the scan.
LEMMA ScanRound ==
    ASSUME NEW x, NEW q \in Nat, NEW s \in Deep, NEW r \in Memory, NEW c, NEW back,
           NEW n \in 1 .. Order - 1, NEW k \in Words, NEW cursor \in Words, Chunk > 1,
           Placed(x, q, Scan), c[1] = <<back, q>>, Clear(x, q, q + 24, r),
           x.cells = n, x.start.ram = r,
           Scanned(r, n, k, cursor),
           \A a \in Words : Free(r, a - n + 1, n) =>
               Good(x, At(back, Put(n, Put(a, Put(n, s))), r, Tail(c))),
           cursor + 1 \in Words => \A m \in Words : Scanned(r, n, m, cursor + 1) =>
               Good(x, At(q, Put(m, Put(cursor + 1, Put(n, s))), r, c))
    PROVE  Good(x, At(q, Put(k, Put(cursor, Put(n, s))), r, c))
<1> DEFINE v == r[cursor]
           d == Less(cursor, 1)
           z == Same(0, v)
           h == Plus(1, k)
           m == Mult(h, z)
           e == Same(n, m)
           up == Plus(1, cursor)
           f == Same(0, up)
           g == Same(0, f)
<1>1. /\ Order \in Nat /\ Order > 1 /\ cursor \in Nat /\ cursor < Order /\ k \in Nat /\ n \in Nat
      /\ n \in Words /\ n # 0 /\ 0 \in Words /\ 1 \in Words
  BY MachineAssumption DEF Words
<1>2. k < n /\ k + 1 \in Words /\ k + 1 < Order
  BY <1>1 DEF Scanned, Words
<1>3. v \in Words /\ d \in Words /\ z \in {0, 1} /\ z \in Words /\ (z = 1 <=> v = 0)
  <2>1. v \in Words
    BY DEF Memory
  <2>2. d \in Words
    BY <1>1, Residues DEF Less
  <2> QED
    BY <1>1, <2>1, <2>2 DEF Same
<1>4. h = k + 1 /\ h \in Words
  BY <1>1, <1>2, Residues DEF Plus
<1>5. m = (IF z = 1 THEN k + 1 ELSE 0) /\ m \in Words
  <2>1. CASE z = 1
    <3>1. h * 1 = h /\ h \in Int
      BY <1>1, <1>4
    <3>2. (h * z) % Order = h
      BY <1>4, <2>1, <3>1, Residues
    <3> QED
      BY <1>4, <2>1, <3>2 DEF Mult
  <2>2. CASE z = 0
    <3>1. h * 0 = 0 /\ h \in Int
      BY <1>1, <1>4
    <3>2. (h * z) % Order = 0
      BY <1>1, <2>2, <3>1, Residues
    <3> QED
      BY <1>1, <2>2, <3>2 DEF Mult
  <2> QED
    BY <1>3, <2>1, <2>2
<1>6. e \in Words /\ (e = 0 <=> m # n)
  BY <1>1 DEF Same
<1>7. /\ cursor + 1 < Order => up = cursor + 1 /\ up \in Words /\ f = 0 /\ g = 1
      /\ cursor + 1 = Order => up = 0 /\ f = 1 /\ g = 0
      /\ up \in Words /\ f \in Words /\ g \in Words
  <2>1. CASE cursor + 1 < Order
    <3>1. 1 + cursor \in Words /\ 1 + cursor \in Int
      BY <1>1, <2>1 DEF Words
    <3>2. up = 1 + cursor
      BY <3>1, Residues DEF Plus
    <3> QED
      BY <1>1, <2>1, <3>1, <3>2 DEF Same
  <2>2. CASE cursor + 1 = Order
    <3>1. up = 0
      BY <1>1, <2>2 DEF Plus
    <3> QED
      BY <1>1, <2>2, <3>1 DEF Same
  <2> QED
    BY <1>1, <2>1, <2>2
<1>8. /\ m = n => Free(r, cursor - n + 1, n)
      /\ m # n => Scanned(r, n, m, cursor + 1)
      /\ m # n /\ cursor + 1 = Order => Full(r, n)
  <2>1. (r[cursor] = 0 => m = k + 1) /\ (r[cursor] # 0 => m = 0)
    BY <1>3, <1>5
  <2> HIDE DEF m
  <2> QED
    BY <2>1, ScanAdvances
<1>9. /\ v = r[cursor] /\ d = Less(cursor, 1) /\ z = Same(0, v) /\ h = Plus(1, k)
      /\ m = Mult(h, z) /\ e = Same(n, m) /\ up = Plus(1, cursor) /\ f = Same(0, up) /\ g = Same(0, f)
  OBVIOUS
<1> HIDE DEF v, d, z, h, m, e, up, f, g
<1>10. /\ x.code[q + 12] = <<"skiz", 0>> /\ x.code[q + 13] = <<"return", 0>>
       /\ x.code[q + 22] = <<"assert", 0>> /\ x.code[q + 23] = <<"swap", 1>>
       /\ x.code[q + 24] = <<"recurse", 0>>
  BY <1>1, ScanCode
<1>11. \A i \in q .. q + 24 : \A t : Safe(x, At(i, t, r, c))
  BY ClearIsSafe
<1>12. /\ Put(n, s) \in Deep /\ Put(cursor, Put(n, s)) \in Deep /\ Put(m, Put(n, s)) \in Deep
       /\ Put(up, Put(m, Put(n, s))) \in Deep /\ Put(m, Put(cursor, Put(n, s))) \in Deep
       /\ Put(up, Put(n, s)) \in Deep /\ Put(m, Put(up, Put(n, s))) \in Deep
  BY <1>1, <1>5, <1>7, DeepFacts, Zenon
<1>13. ASSUME m = n PROVE Good(x, At(q + 13, Put(m, Put(cursor, Put(n, s))), r, c))
  <2>1. Good(x, At(back, Put(m, Put(cursor, Put(n, s))), r, Tail(c)))
    BY <1>8, <1>13
  <2>2. c[1][1] = back /\ Safe(x, At(q + 13, Put(m, Put(cursor, Put(n, s))), r, c))
    BY <1>11
  <2> QED
    BY <1>10, <1>12, <2>1, <2>2, ReturnRule, Zenon
<1>14. ASSUME m # n, cursor + 1 < Order PROVE Good(x, At(q + 22, Put(g, Put(up, Put(m, Put(n, s)))), r, c))
  <2>1. Good(x, At(q, Put(m, Put(up, Put(n, s))), r, c))
    BY <1>5, <1>7, <1>8, <1>14
  <2>2. c[1][2] = q /\ Safe(x, At(q + 24, Put(m, Put(up, Put(n, s))), r, c))
    BY <1>11
  <2>3. Good(x, At(q + 24, Put(m, Put(up, Put(n, s))), r, c))
    BY <1>10, <1>12, <2>1, <2>2, RecurseRule
  <2>4. /\ Good(x, At(q + 23 + 1, Put(m, Put(up, Put(n, s))), r, c))
        /\ Safe(x, At(q + 23, Put(up, Put(m, Put(n, s))), r, c))
    BY <1>11, <2>3
  <2>5. Good(x, At(q + 23, Put(up, Put(m, Put(n, s))), r, c))
    <3>1. x.code[q + 23] = <<"swap", 1>> /\ Put(n, s) \in Deep /\ up \in Words /\ m \in Words
      BY <1>5, <1>7, <1>10, <1>12
    <3> QED
      BY <2>4, <3>1, SwapOneRule
  <2>6. /\ Good(x, At(q + 22 + 1, Put(up, Put(m, Put(n, s))), r, c))
        /\ Safe(x, At(q + 22, Put(1, Put(up, Put(m, Put(n, s)))), r, c))
    BY <1>11, <2>5
  <2>7. Good(x, At(q + 22, Put(1, Put(up, Put(m, Put(n, s)))), r, c))
    BY <1>1, <1>10, <1>12, <2>6, AssertRule
  <2> QED
    BY <1>7, <1>14, <2>7
<1>15. ASSUME m # n, cursor + 1 = Order PROVE Good(x, At(q + 22, Put(g, Put(up, Put(m, Put(n, s)))), r, c))
  <2>1. Full(x.start.ram, x.cells) /\ x.cells > 0 /\ Calm(x, q + 22, r)
    BY <1>1, <1>8, <1>15 DEF Clear
  <2>2. Good(x, At(q + 22, Put(0, Put(up, Put(m, Put(n, s)))), r, c))
    BY <1>1, <1>10, <1>12, <2>1, AssertFailRule
  <2> QED
    BY <1>7, <1>15, <2>2
<1>16. ASSUME m # n PROVE Good(x, At(q + 14, Put(m, Put(cursor, Put(n, s))), r, c))
  <2>1. Good(x, At(q + 22, Put(g, Put(up, Put(m, Put(n, s)))), r, c))
    BY <1>1, <1>14, <1>15, <1>16
  <2> QED
    BY <1>1, <1>5, <1>7, <1>9, <2>1, ScanMoves
<1>17. Good(x, At(q + 12, Put(e, Put(m, Put(cursor, Put(n, s)))), r, c))
  <2>1. Good(x, At(IF e = 0 THEN q + 12 + 2 ELSE q + 12 + 1, Put(m, Put(cursor, Put(n, s))), r, c))
    BY <1>6, <1>13, <1>16
  <2>2. Safe(x, At(q + 12, Put(e, Put(m, Put(cursor, Put(n, s)))), r, c))
    BY <1>11
  <2> QED
    BY <1>6, <1>10, <1>12, <2>1, <2>2, SkizRule, Zenon
<1>18. Good(x, At(q + 9, Put(m, Put(cursor, Put(n, s))), r, c))
  <2>1. 3 \in 0 .. Window - 1
    BY MachineAssumption
  <2> QED
    BY <1>1, <1>5, <1>6, <1>9, <1>17, <2>1, ScanCompares
<1> QED
  BY <1>1, <1>3, <1>4, <1>5, <1>9, <1>18, ScanCounts


\* Where a run of n zero cells ends the scan returns.
Found(x, back, s, r, c, n) ==
    \A a \in Words : Free(r, a - n + 1, n) => Good(x, At(back, Put(n, Put(a, Put(n, s))), r, c))

LEMMA ScanFinds ==
    ASSUME NEW x, NEW q \in Nat, NEW s \in Deep, NEW r \in Memory, NEW c, NEW back,
           NEW n \in 1 .. Order - 1, Chunk > 1,
           Placed(x, q, Scan), c[1] = <<back, q>>, Clear(x, q, q + 24, r),
           x.cells = n, x.start.ram = r, Found(x, back, s, r, Tail(c), n)
    PROVE  Good(x, At(q, Put(0, Put(0, Put(n, s))), r, c))
<1> DEFINE Fine(k) == \A m \in Words : Scanned(r, n, m, k) =>
                          Good(x, At(q, Put(m, Put(k, Put(n, s))), r, c))
           T == {k \in 0 .. Order - 1 : Fine(k)}
<1>1. Order \in Nat /\ Order > 1 /\ Order - 1 \in Nat /\ 0 \in Words /\ n \in Nat /\ 0 < n
  BY MachineAssumption DEF Words
<1>2. ASSUME NEW k \in Words, k + 1 \in Words => Fine(k + 1) PROVE Fine(k)
  <2> SUFFICES ASSUME NEW m \in Words, Scanned(r, n, m, k)
               PROVE  Good(x, At(q, Put(m, Put(k, Put(n, s))), r, c))
    OBVIOUS
  <2>1. \A a \in Words : Free(r, a - n + 1, n) =>
            Good(x, At(back, Put(n, Put(a, Put(n, s))), r, Tail(c)))
    BY DEF Found
  <2>2. k + 1 \in Words => \A j \in Words : Scanned(r, n, j, k + 1) =>
            Good(x, At(q, Put(j, Put(k + 1, Put(n, s))), r, c))
    BY <1>2
  <2> QED
    BY <2>1, <2>2, ScanRound
<1>3. Scanned(r, n, 0, 0)
  BY <1>1 DEF Scanned
<1> HIDE DEF Fine
<1>4. Order - 1 \in T
  BY <1>1, <1>2 DEF Words
<1>5. \A k \in 1 .. Order - 1 : k \in T => k - 1 \in T
  <2> SUFFICES ASSUME NEW k \in 1 .. Order - 1, Fine(k) PROVE k - 1 \in 0 .. Order - 1 /\ Fine(k - 1)
    OBVIOUS
  <2>1. k - 1 \in Words /\ k - 1 + 1 = k /\ k - 1 \in 0 .. Order - 1
    BY <1>1 DEF Words
  <2>2. Fine(k - 1 + 1)
    BY <2>1
  <2> QED
    BY <1>2, <2>1, <2>2
<1>6. T \in SUBSET (0 .. Order - 1)
  OBVIOUS
<1> HIDE DEF T
<1>7. T = 0 .. Order - 1
  BY <1>1, <1>4, <1>5, <1>6, Downwards, Zenon
<1>8. Fine(0)
  BY <1>1, <1>7 DEF T
<1> QED
  BY <1>1, <1>3, <1>8 DEF Fine

\* The first five instructions of a piece.
LEMMA FirstFive ==
    ASSUME NEW q \in Nat
    PROVE  /\ q \in q .. q + 4 /\ q + 1 \in q .. q + 4 /\ q + 2 \in q .. q + 4
           /\ q + 3 \in q .. q + 4 /\ q + 4 \in q .. q + 4
  OBVIOUS

\* search finds a run of n zero cells or fails where there is none.
LEMMA SearchRule ==
    ASSUME NEW x, NEW q \in Nat, NEW p \in Nat, NEW s \in Deep, NEW r \in Memory,
           NEW c \in Seq(Nat \X Nat), NEW back \in Nat, NEW last \in Words,
           NEW n \in 1 .. Order - 1, Chunk > 1,
           Placed(x, q, Search), Placed(x, p, Scan), x.entry["scan"] = p,
           Clear(x, q, q + 4, r), Clear(x, p, p + 24, r),
           x.cells = n, x.start.ram = r, Found(x, back, s, r, c, n)
    PROVE  Good(x, At(q, Put(n, Put(last, Put(n, s))), r, <<<<back, q>>>> \o c))
<1> DEFINE b == <<<<back, q>>>> \o c
           b2 == <<<<q + 4, p>>>> \o b
           base == Put(n, s)
<1>1. /\ Order \in Nat /\ Order > 1 /\ n \in Words /\ 0 \in Words /\ 1 \in Words /\ 2 \in 1 .. Chunk
      /\ 0 % Order = 0
  BY MachineAssumption DEF Words
<1>2. b \in Seq(Nat \X Nat) /\ b[1] = <<back, q>> /\ Tail(b) = c
  <2>1. <<back, q>> \in Nat \X Nat
    OBVIOUS
  <2> QED
    BY <2>1, Jumped, Zenon
<1> HIDE DEF b
<1>3. b2[1] = <<q + 4, p>> /\ Tail(b2) = b
  <2>1. <<q + 4, p>> \in Nat \X Nat
    OBVIOUS
  <2> QED
    BY <1>2, <2>1, Jumped, Zenon
<1>4. /\ Len(Search) = 5 /\ Search[1] = <<"pop", 2>> /\ Search[2] = <<"push", 0>>
      /\ Search[3] = <<"push", 0>> /\ Search[4] = <<"call", "scan">> /\ Search[5] = <<"return", 0>>
  BY <1>1 DEF Search, Pop, Push, Call, Return, Literal
<1>5. \A j \in 1 .. 5 : x.code[q + j - 1] = Search[j]
  BY <1>4, Zenon DEF Placed
<1>6. /\ x.code[q] = <<"pop", 2>> /\ x.code[q + 1] = <<"push", 0>> /\ x.code[q + 2] = <<"push", 0>>
      /\ x.code[q + 3] = <<"call", "scan">> /\ x.code[q + 4] = <<"return", 0>>
  <2>1. q + 1 - 1 = q /\ q + 2 - 1 = q + 1 /\ q + 3 - 1 = q + 2 /\ q + 4 - 1 = q + 3 /\ q + 5 - 1 = q + 4
    OBVIOUS
  <2>2. /\ x.code[q + 1 - 1] = Search[1] /\ x.code[q + 2 - 1] = Search[2] /\ x.code[q + 3 - 1] = Search[3]
        /\ x.code[q + 4 - 1] = Search[4] /\ x.code[q + 5 - 1] = Search[5]
    BY <1>5
  <2> QED
    BY <1>4, <2>1, <2>2, Zenon
<1>7. ASSUME NEW t, NEW d
      PROVE  /\ Safe(x, At(q, t, r, d)) /\ Safe(x, At(q + 1, t, r, d)) /\ Safe(x, At(q + 2, t, r, d))
             /\ Safe(x, At(q + 3, t, r, d)) /\ Safe(x, At(q + 4, t, r, d))
  <2>1. q \in q .. q + 4 /\ q + 1 \in q .. q + 4 /\ q + 2 \in q .. q + 4
        /\ q + 3 \in q .. q + 4 /\ q + 4 \in q .. q + 4
    BY FirstFive, Zenon
  <2> QED
    BY <2>1, ClearIsSafe, Zenon
<1>8. /\ base \in Deep /\ Put(0, base) \in Deep /\ Put(0, Put(0, base)) \in Deep
      /\ \A a \in Words : Put(n, Put(a, base)) \in Deep
  BY <1>1, DeepFacts, Zenon
<1>9. Found(x, q + 4, s, r, b, n)
  <2> SUFFICES ASSUME NEW a \in Words, Free(r, a - n + 1, n)
               PROVE  Good(x, At(q + 4, Put(n, Put(a, base)), r, b))
    BY DEF Found
  <2>1. Good(x, At(back, Put(n, Put(a, base)), r, c))
    BY DEF Found
  <2>2. Good(x, At(b[1][1], Put(n, Put(a, base)), r, Tail(b)))
    <3>1. b[1][1] = back
      BY <1>2
    <3> HIDE DEF base
    <3> QED
      BY <1>2, <2>1, <3>1, Zenon
  <2>3. Safe(x, At(q + 4, Put(n, Put(a, base)), r, b)) /\ Put(n, Put(a, base)) \in Deep
    BY <1>7, <1>8
  <2> HIDE DEF base
  <2> QED
    BY <1>6, <2>2, <2>3, ReturnRule, Zenon
<1>10. Good(x, At(p, Put(0, Put(0, base)), r, b2))
  BY <1>3, <1>9, ScanFinds, Zenon
<1> HIDE DEF base
<1>11. Good(x, At(q + 3, Put(0, Put(0, base)), r, b))
  <2>1. Good(x, At(x.entry["scan"], Put(0, Put(0, base)), r, <<<<q + 3 + 1, x.entry["scan"]>>>> \o b))
    <3>1. q + 3 + 1 = q + 4
      OBVIOUS
    <3> QED
      BY <1>10, <3>1, Zenon
  <2>2. Safe(x, At(q + 3, Put(0, Put(0, base)), r, b))
    BY <1>7
  <2> QED
    BY <1>6, <1>8, <2>1, <2>2, CallRule, Zenon
<1>12. Good(x, At(q + 2, Put(0, base), r, b))
  <2>1. Good(x, At(q + 2 + 1, Put(0, Put(0, base)), r, b)) /\ Safe(x, At(q + 2, Put(0, base), r, b))
    <3>1. q + 2 + 1 = q + 3
      OBVIOUS
    <3> QED
      BY <1>7, <1>11, <3>1, Zenon
  <2> QED
    BY <1>6, <1>8, <2>1, PushRule, Zenon
<1>13. Good(x, At(q + 1, base, r, b))
  <2>1. Good(x, At(q + 1 + 1, Put(0, base), r, b))
    BY <1>12
  <2>2. Safe(x, At(q + 1, base, r, b))
    BY <1>7
  <2> QED
    BY <1>6, <1>8, <2>1, <2>2, PushRule, Zenon
<1>14. Good(x, At(q, Put(n, Put(last, base)), r, b))
  <2> DEFINE w == <<n, last>>
  <2>1. w \in Seq(Words) /\ Len(w) = 2 /\ w \o base = Put(n, Put(last, base))
    <3>1. base \in Seq(Words)
      BY <1>8 DEF Deep
    <3> QED
      BY <1>1, <3>1, TwoWords
  <2> HIDE DEF w
  <2>2. Good(x, At(q + 1, base, r, b)) /\ Safe(x, At(q, w \o base, r, b))
    BY <1>7, <1>13
  <2>3. Good(x, At(q, w \o base, r, b))
    BY <1>1, <1>6, <1>8, <2>1, <2>2, PopRule, Zenon
  <2> QED
    BY <2>1, <2>3
<1> QED
  BY <1>14 DEF b, base

-----------------------------------------------------------------------------
(* Borrowing.                                                              *)

\* What instructions look like.
Instructions ==
    {Push(k) : k \in Int} \cup {Pop(k) : k \in Nat} \cup {Dup(k) : k \in Nat} \cup {Swap(k) : k \in Nat}
    \cup {ReadMem(k) : k \in Nat} \cup {WriteMem(k) : k \in Nat}
    \cup {Add, Mul, Eq, Skiz, Return, Recurse, AssertOne, Halt, Call("search"), Call("scan")}

\* A word is its own literal.
LEMMA LiteralIs ==
    ASSUME NEW k \in Int
    PROVE  Literal(k) \in Words /\ Literal(k) \in Nat /\ (k \in Words => Literal(k) = k)
  BY MachineAssumption, Residues DEF Literal, Words

\* The instructions that the lowerer emits.
LEMMA InstructionsAre ==
           /\ \A k \in Int : Push(k) \in Instructions
           /\ \A k \in Nat : Pop(k) \in Instructions /\ Dup(k) \in Instructions /\ Swap(k) \in Instructions
           /\ \A k \in Nat : ReadMem(k) \in Instructions /\ WriteMem(k) \in Instructions
           /\ Add \in Instructions /\ Mul \in Instructions /\ Eq \in Instructions /\ Skiz \in Instructions
           /\ Return \in Instructions /\ Recurse \in Instructions /\ AssertOne \in Instructions
           /\ Halt \in Instructions /\ Call("search") \in Instructions /\ Call("scan") \in Instructions
  BY Zenon DEF Instructions

\* The units CountZeros and borrow's check repeat.
Unit == <<Swap(1), Push(0), Eq, Add>>
Check(c) == <<ReadMem(c), Swap(c + 1)>> \o CountZeros(c) \o <<Swap(1)>>

\* EachChunk joins the code of the chunks.
LEMMA EachChunkIs ==
    ASSUME NEW n \in Nat
    PROVE  EachChunk(n, Check) = FlattenSeq([i \in DOMAIN Chunks(n) |-> Check(Chunks(n)[i])])
  BY DEF EachChunk

\* The parts of borrow.
LEMMA BorrowIs ==
    ASSUME NEW n \in Nat
    PROVE  Borrow(n) = <<Push(n), Push(Preferred + n - 1), Push(n), Push(0), Push(Preferred + n - 1)>>
                       \o EachChunk(n, Check)
                       \o <<Pop(1), Push(n), Eq, Push(0), Eq, Skiz, Call("search"),
                            Pop(1), Swap(1), Pop(1), Push(1 - n), Add>>
  BY DEF Borrow, EachChunk, Check

\* CountZeros repeats its unit.
LEMMA CountZerosIs ==
    ASSUME NEW c \in Nat
    PROVE  CountZeros(c) = FlattenSeq([i \in 1 .. c |-> Unit])
  BY DEF CountZeros, Times, Unit

\* Words are taken off one by one.
LEMMA OverHead ==
    ASSUME NEW w \in Seq(Words), NEW s \in Deep
    PROVE  /\ Over(w, 0) \o s = w \o s
           /\ Over(w, Len(w)) \o s = s
           /\ \A i \in 0 .. Len(w) - 1 :
                 w[i + 1] \in Words /\ Over(w, i) \o s = Put(w[i + 1], Over(w, i + 1) \o s)
           /\ \A i \in 0 .. Len(w) : Over(w, i) \in Seq(Words) /\ Over(w, i) \o s \in Deep
<1>1. Len(w) \in Nat /\ s \in Seq(Words) /\ Len(s) \in Nat /\ Len(s) >= Window /\ Window \in Nat
  BY DeepFacts
<1>2. Over(w, 0) = w
  <2>1. 0 + 1 = 1
    OBVIOUS
  <2> QED
    BY <2>1, SubSeqFull DEF Over
<1>3. Over(w, Len(w)) = <<>>
  <2>1. Len(w) < Len(w) + 1 /\ Len(w) + 1 \in Int /\ Len(w) \in Int
    BY <1>1
  <2> QED
    BY <2>1, SubSeqEmpty DEF Over
<1>4. ASSUME NEW i \in 0 .. Len(w) PROVE Over(w, i) \in Seq(Words) /\ Over(w, i) \o s \in Deep
  <2>1. i \in Nat /\ i <= Len(w)
    BY <1>1
  <2>2. Over(w, i) \in Seq(Words)
    BY <2>1, OverIs
  <2>3. Len(Over(w, i)) \in Nat
    BY <2>2
  <2>4. Over(w, i) \o s \in Seq(Words) /\ Len(Over(w, i) \o s) = Len(Over(w, i)) + Len(s)
    BY <1>1, <2>2, ConcatProperties
  <2> QED
    BY <1>1, <2>2, <2>3, <2>4 DEF Deep
<1>5. ASSUME NEW i \in 0 .. Len(w) - 1
      PROVE  w[i + 1] \in Words /\ Over(w, i) \o s = Put(w[i + 1], Over(w, i + 1) \o s)
  <2>1. i + 1 \in 1 .. Len(w) /\ Len(w) \in i + 1 .. Len(w) /\ i + 1 \in 0 .. Len(w)
    BY <1>1
  <2>2. w[i + 1] \in Words
    BY <2>1, ElementOfSeq
  <2>3. SubSeq(w, i + 1, Len(w)) = <<w[i + 1]>> \o SubSeq(w, i + 1 + 1, Len(w))
    BY <2>1, SubSeqRecursiveFirst
  <2>4. Over(w, i) = Put(w[i + 1], Over(w, i + 1))
    BY <2>3 DEF Over, Put
  <2>5. Over(w, i + 1) \in Seq(Words)
    BY <1>4, <2>1
  <2>6. Put(w[i + 1], Over(w, i + 1)) \o s = Put(w[i + 1], Over(w, i + 1) \o s)
    BY <1>1, <2>2, <2>5, PutOrder, Zenon
  <2> QED
    BY <2>2, <2>4, <2>6
<1>6. s = <<>> \o s
  BY <1>1, ConcatEmptySeq
<1> QED
  BY <1>2, <1>3, <1>4, <1>5, <1>6, Zenon

\* A unit counts a word that is zero.
LEMMA UnitRule ==
    ASSUME NEW x, NEW p \in Nat, NEW k \in Words, NEW v \in Words, NEW t \in Deep, NEW r, NEW c,
           Placed(x, p, Unit), Clear(x, p, p + 3, r), 0 \in Words, Same(0, v) \in Words,
           Good(x, At(p + 4, Put(Plus(Same(0, v), k), t), r, c))
    PROVE  Good(x, At(p, Put(k, Put(v, t)), r, c))
<1>1. \A i \in p .. p + 3 : \A s : Safe(x, At(i, s, r, c))
  BY ClearIsSafe
<1>2. Put(k, t) \in Deep /\ Put(v, t) \in Deep /\ Put(v, Put(k, t)) \in Deep
  BY DeepFacts
<1>3. /\ x.code[p] = <<"swap", 1>> /\ x.code[p + 1] = <<"push", 0>>
      /\ x.code[p + 2] = <<"eq", 0>> /\ x.code[p + 3] = <<"add", 0>>
  <2>1. Literal(0) = 0
    BY LiteralIs
  <2>2. Len(Unit) = 4 /\ Unit[1] = <<"swap", 1>> /\ Unit[2] = <<"push", 0>> /\ Unit[3] = <<"eq", 0>>
        /\ Unit[4] = <<"add", 0>>
    BY <2>1 DEF Unit, Swap, Push, Eq, Add
  <2>3. \A j \in 1 .. 4 : x.code[p + j - 1] = Unit[j]
    BY <2>2 DEF Placed
  <2>4. p + 1 - 1 = p /\ p + 2 - 1 = p + 1 /\ p + 3 - 1 = p + 2 /\ p + 4 - 1 = p + 3
    OBVIOUS
  <2>5. /\ x.code[p + 1 - 1] = Unit[1] /\ x.code[p + 2 - 1] = Unit[2] /\ x.code[p + 3 - 1] = Unit[3]
        /\ x.code[p + 4 - 1] = Unit[4]
    BY <2>3
  <2> QED
    BY <2>2, <2>4, <2>5
<1>4. Good(x, At(p + 3, Put(Same(0, v), Put(k, t)), r, c))
  <2>1. Good(x, At(p + 3 + 1, Put(Plus(Same(0, v), k), t), r, c))
        /\ Safe(x, At(p + 3, Put(Same(0, v), Put(k, t)), r, c))
    BY <1>1
  <2> QED
    BY <1>3, <2>1, AddRule, Zenon
<1>5. Good(x, At(p + 2, Put(0, Put(v, Put(k, t))), r, c))
  <2>1. Good(x, At(p + 2 + 1, Put(Same(0, v), Put(k, t)), r, c))
        /\ Safe(x, At(p + 2, Put(0, Put(v, Put(k, t))), r, c))
    BY <1>1, <1>4
  <2> QED
    BY <1>2, <1>3, <2>1, EqRule, Zenon
<1>6. Good(x, At(p + 1, Put(v, Put(k, t)), r, c))
  <2>1. Good(x, At(p + 1 + 1, Put(0, Put(v, Put(k, t))), r, c))
        /\ Safe(x, At(p + 1, Put(v, Put(k, t)), r, c))
    BY <1>1, <1>5
  <2> QED
    BY <1>2, <1>3, <2>1, PushRule
<1>7. Good(x, At(p + 1, Put(v, Put(k, t)), r, c)) /\ Safe(x, At(p, Put(k, Put(v, t)), r, c))
  BY <1>1, <1>6
<1> QED
  BY <1>2, <1>3, <1>7, SwapOneRule


\* A part of a clear piece is clear.
LEMMA ClearPart ==
    ASSUME NEW x, NEW lo \in Int, NEW hi \in Int, NEW r, NEW l \in Int, NEW h \in Int,
           lo <= l, h <= hi, Clear(x, lo, hi, r)
    PROVE  Clear(x, l, h, r)
<1>1. \A i \in l .. h : i \in lo .. hi
  OBVIOUS
<1> QED
  BY <1>1 DEF Clear

\* The pieces of a piece of code, and where they begin.
Laid(x, p, n, seqs, off) ==
    /\ off \in [0 .. n -> Nat]
    /\ off[0] = 0 /\ off[n] = Len(FlattenSeq(seqs))
    /\ \A i \in 1 .. n : off[i] = off[i - 1] + Len(seqs[i])
    /\ \A i \in 1 .. n : Placed(x, p + off[i - 1], seqs[i])
    /\ \A i \in 0 .. n : off[i] <= off[n]

\* FlattenSeq lays its pieces out so.
LEMMA PiecesLaid ==
    ASSUME NEW V, NEW n \in Nat, NEW seqs \in [1 .. n -> Seq(V)], NEW x, NEW p \in Nat,
           Placed(x, p, FlattenSeq(seqs))
    PROVE  \E off : Laid(x, p, n, seqs, off)
<1>1. PICK off \in [0 .. n -> Nat] : Begins(x, p, n, seqs, off)
  BY PlacedFlat, Zenon
<1>2. /\ off[0] = 0 /\ off[n] = Len(FlattenSeq(seqs))
      /\ \A i \in 1 .. n : off[i] = off[i - 1] + Len(seqs[i]) /\ Placed(x, p + off[i - 1], seqs[i])
  BY <1>1, Zenon DEF Begins
<1> DEFINE T == {k \in 0 .. n : off[k] <= off[n]}
<1>3. n \in T /\ T \in SUBSET (0 .. n)
  OBVIOUS
<1>4. \A k \in 1 .. n : k \in T => k - 1 \in T
  <2> SUFFICES ASSUME NEW k \in 1 .. n, off[k] <= off[n] PROVE k - 1 \in 0 .. n /\ off[k - 1] <= off[n]
    OBVIOUS
  <2>1. k - 1 \in 0 .. n /\ k \in 0 .. n
    OBVIOUS
  <2>2. off[k] \in Nat /\ off[k - 1] \in Nat /\ off[n] \in Nat
    BY <2>1
  <2>3. Len(seqs[k]) \in Nat
    <3>1. seqs[k] \in Seq(V)
      OBVIOUS
    <3> QED
      BY <3>1
  <2>4. off[k] = off[k - 1] + Len(seqs[k])
    BY <1>2
  <2> DEFINE a == off[k - 1]
             b == off[k]
             l == Len(seqs[k])
             e == off[n]
  <2>5. a \in Nat /\ b \in Nat /\ l \in Nat /\ e \in Nat /\ b = a + l /\ b <= e
    BY <2>2, <2>3, <2>4
  <2> HIDE DEF a, b, l, e
  <2>6. a <= e
    BY <2>5
  <2> QED
    BY <2>1, <2>6 DEF a, e
<1> HIDE DEF T
<1>5. T = 0 .. n
  BY <1>3, <1>4, Downwards
<1>6. \A i \in 0 .. n : off[i] <= off[n]
  BY <1>5, Zenon DEF T
<1>7. \A i \in 1 .. n : off[i] = off[i - 1] + Len(seqs[i])
  BY <1>2
<1>8. \A i \in 1 .. n : Placed(x, p + off[i - 1], seqs[i])
  BY <1>2
<1>9. Laid(x, p, n, seqs, off)
  BY <1>2, <1>6, <1>7, <1>8, Zenon DEF Laid
<1> QED
  BY <1>9

\* Of i words, with k counted before them, h - k are zero at most, and only if
\* all are zero as many as there are.
Tally(h, k, w, i) == h \in k .. k + i /\ (h = k + i => \A j \in 1 .. i : w[j] = 0)

\* One word more.
LEMMA TallyMore ==
    ASSUME NEW k \in Nat, NEW n \in Nat, NEW w \in Seq(Words), Len(w) = n, k + n < Order,
           NEW i \in 0 .. n - 1, NEW h \in Nat, Tally(h, k, w, i)
    PROVE  Plus(Same(0, w[i + 1]), h) \in Words /\ Tally(Plus(Same(0, w[i + 1]), h), k, w, i + 1)
<1> DEFINE z == Same(0, w[i + 1])
<1>1. h >= k /\ h <= k + i /\ h + 1 < Order /\ Order \in Nat
  BY MachineAssumption DEF Tally
<1>2. z \in {0, 1} /\ (z = 1 => w[i + 1] = 0)
  BY DEF Same
<1> HIDE DEF z
<1>3. z + h \in Words /\ z + h \in Int
  BY <1>1, <1>2 DEF Words
<1>4. Plus(z, h) = z + h
  BY <1>3, Residues DEF Plus
<1>5. z + h \in k .. k + (i + 1)
  BY <1>1, <1>2
<1>6. ASSUME z + h = k + (i + 1), NEW j \in 1 .. i + 1 PROVE w[j] = 0
  <2>1. z = 1 /\ h = k + i
    BY <1>1, <1>2, <1>6
  <2>2. j = i + 1 \/ j \in 1 .. i
    OBVIOUS
  <2> QED
    BY <1>2, <2>1, <2>2 DEF Tally
<1>7. Tally(z + h, k, w, i + 1)
  BY <1>5, <1>6 DEF Tally
<1> QED
  BY <1>3, <1>4, <1>7 DEF z

\* CountZeros counts the zeros of n words and drops the words.
LEMMA CountRule ==
    ASSUME NEW x, NEW p \in Nat, NEW k \in Nat, NEW n \in Nat, NEW w \in Seq(Words), Len(w) = n,
           k + n < Order, NEW t \in Deep, NEW r, NEW c,
           Placed(x, p, CountZeros(n)), Clear(x, p, p + Len(CountZeros(n)) - 1, r),
           \A h \in Words : Tally(h, k, w, n) => Good(x, At(p + Len(CountZeros(n)), Put(h, t), r, c))
    PROVE  Good(x, At(p, Put(k, w \o t), r, c))
<1> DEFINE seqs == [i \in 1 .. n |-> Unit]
<1>1. seqs \in [1 .. n -> Seq(Instructions)] /\ CountZeros(n) = FlattenSeq(seqs)
      /\ \A i \in 1 .. n : seqs[i] = Unit
  <2>1. Unit \in Seq(Instructions)
    BY InstructionsAre DEF Unit
  <2> QED
    BY <2>1, CountZerosIs
<1>2. Len(Unit) = 4
  BY DEF Unit
<1> HIDE DEF seqs
<1>3. PICK off : Laid(x, p, n, seqs, off)
  BY <1>1, PiecesLaid, Zenon
<1>4. off[n] = Len(CountZeros(n)) /\ off[0] = 0 /\ off[n] \in Nat
  BY <1>1, <1>3 DEF Laid
<1> DEFINE Fine(i) == \A h \in Words : Tally(h, k, w, i) => Good(x, At(p + off[i], Put(h, Over(w, i) \o t), r, c))
           T == {i \in 0 .. n : Fine(i)}
<1>5. Fine(n)
  <2>1. Over(w, n) \o t = t
    BY OverHead, Zenon
  <2> QED
    BY <1>4, <2>1
<1>6. ASSUME NEW i \in 1 .. n, Fine(i) PROVE Fine(i - 1)
  <2> SUFFICES ASSUME NEW h \in Words, Tally(h, k, w, i - 1)
               PROVE  Good(x, At(p + off[i - 1], Put(h, Over(w, i - 1) \o t), r, c))
    OBVIOUS
  <2> DEFINE u == Over(w, i) \o t
             v == w[i]
             q == p + off[i - 1]
  <2>1. i - 1 \in 0 .. n - 1 /\ i - 1 + 1 = i /\ h \in Nat /\ i \in 0 .. n /\ i - 1 \in Nat
    BY MachineAssumption DEF Words
  <2>2. v \in Words /\ Over(w, i - 1) \o t = Put(v, u) /\ u \in Deep
    <3>1. \A j \in 0 .. Len(w) - 1 : w[j + 1] \in Words /\ Over(w, j) \o t = Put(w[j + 1], Over(w, j + 1) \o t)
      BY OverHead, Zenon
    <3>2. u \in Deep
      BY <2>1, OverHead
    <3> QED
      BY <2>1, <3>1, <3>2, Zenon
  <2>3. Plus(Same(0, v), h) \in Words /\ Tally(Plus(Same(0, v), h), k, w, i)
    BY <2>1, TallyMore
  <2>4. /\ off[i] = off[i - 1] + 4 /\ off[i] <= off[n] /\ off[i - 1] \in Nat
        /\ Placed(x, p + off[i - 1], Unit)
    <3>1. Len(seqs[i]) = 4 /\ seqs[i] = Unit
      BY <1>1, <1>2
    <3>2. /\ off[i] = off[i - 1] + Len(seqs[i]) /\ off[i] <= off[n] /\ off[i - 1] \in Nat
          /\ Placed(x, p + off[i - 1], seqs[i])
      <4>1. i \in 1 .. n /\ i \in 0 .. n /\ i - 1 \in 0 .. n
        OBVIOUS
      <4> QED
        BY <1>3, <4>1, Zenon DEF Laid
    <3> QED
      BY <3>1, <3>2, Zenon
  <2>5. Clear(x, q, q + 3, r)
    <3> DEFINE a == off[i - 1]
               b == off[i]
               l == Len(CountZeros(n))
    <3>1. a \in Nat /\ b = a + 4 /\ b <= l /\ l \in Nat /\ q = p + a
      BY <1>4, <2>4
    <3>2. Clear(x, p, p + l - 1, r)
      OBVIOUS
    <3> HIDE DEF a, b, l, q
    <3>3. p <= q /\ q + 3 <= p + l - 1 /\ q \in Int /\ q + 3 \in Int /\ p + l - 1 \in Int /\ p \in Int
      BY <3>1
    <3> QED
      BY <3>2, <3>3, ClearPart
  <2>6. Good(x, At(q + 4, Put(Plus(Same(0, v), h), u), r, c))
    <3>1. q + 4 = p + off[i]
      <4> DEFINE a == off[i - 1]
                 b == off[i]
      <4>1. b = a + 4 /\ a \in Nat
        BY <2>4
      <4> HIDE DEF a, b
      <4>2. p + a + 4 = p + b
        BY <4>1
      <4> QED
        BY <4>2 DEF a, b
    <3> QED
      BY <1>6, <2>3, <3>1
  <2>7. 0 \in Words /\ Same(0, v) \in Words /\ q \in Nat
    <3>1. 0 \in Words /\ 1 \in Words
      BY MachineAssumption DEF Words
    <3>2. Same(0, v) \in Words
      BY <3>1 DEF Same
    <3>3. off[i - 1] \in Nat
      BY <2>4
    <3>4. q \in Nat
      BY <3>3
    <3> QED
      BY <3>1, <3>2, <3>4
  <2> HIDE DEF u, v, q
  <2>8. Good(x, At(q, Put(h, Put(v, u)), r, c))
    BY <2>2, <2>4, <2>5, <2>6, <2>7, UnitRule, Zenon DEF q
  <2> QED
    BY <2>2, <2>8, Zenon DEF q
<1> HIDE DEF Fine
<1>7. n \in T /\ T \in SUBSET (0 .. n)
  BY <1>5
<1>8. \A i \in 1 .. n : i \in T => i - 1 \in T
  BY <1>6
<1> HIDE DEF T
<1>9. T = 0 .. n
  BY <1>7, <1>8, Downwards
<1>10. Fine(0)
  BY <1>9 DEF T
<1>11. Tally(k, k, w, 0) /\ k \in Words
  BY MachineAssumption DEF Tally, Words
<1>12. Over(w, 0) \o t = w \o t
  BY OverHead, Zenon
<1>13. p + off[0] = p
  BY <1>4
<1>14. Good(x, At(p + off[0], Put(k, Over(w, 0) \o t), r, c))
  BY <1>10, <1>11 DEF Fine
<1> QED
  BY <1>12, <1>13, <1>14, Zenon

\* It is code.
LEMMA CountZerosType ==
    ASSUME NEW n \in Nat
    PROVE  CountZeros(n) \in Seq(Instructions)
<1> DEFINE seqs == [i \in 1 .. n |-> Unit]
<1>1. Unit \in Seq(Instructions)
  BY InstructionsAre DEF Unit
<1>2. seqs \in [1 .. n -> Seq(Instructions)] /\ CountZeros(n) = FlattenSeq(seqs)
  BY <1>1, CountZerosIs
<1> HIDE DEF seqs
<1> QED
  BY <1>2, FlattenType

\* So is the check of a chunk.
LEMMA CheckType ==
    ASSUME NEW n \in Nat
    PROVE  Check(n) \in Seq(Instructions)
<1> DEFINE a == <<ReadMem(n), Swap(n + 1)>>
           b == CountZeros(n)
           d == <<Swap(1)>>
<1>1. a \in Seq(Instructions) /\ d \in Seq(Instructions)
  <2>1. ReadMem(n) \in Instructions /\ Swap(n + 1) \in Instructions /\ Swap(1) \in Instructions
    BY InstructionsAre
  <2> QED
    BY <2>1
<1>2. b \in Seq(Instructions)
  BY CountZerosType
<1>3. Check(n) = (a \o b) \o d
  BY DEF Check
<1> HIDE DEF a, b, d
<1>4. a \o b \in Seq(Instructions)
  BY <1>1, <1>2, ConcatProperties
<1> QED
  BY <1>1, <1>3, <1>4, ConcatProperties

\* One chunk of borrow's check.
LEMMA CheckCode ==
    ASSUME NEW x, NEW p \in Nat, NEW n \in Nat, Placed(x, p, Check(n))
    PROVE  /\ Check(n) \in Seq(Instructions) /\ Len(CountZeros(n)) \in Nat
           /\ Len(Check(n)) = Len(CountZeros(n)) + 3
           /\ x.code[p] = <<"read_mem", n>> /\ x.code[p + 1] = <<"swap", n + 1>>
           /\ Placed(x, p + 2, CountZeros(n))
           /\ x.code[p + 2 + Len(CountZeros(n))] = <<"swap", 1>>
<1> DEFINE a == <<ReadMem(n), Swap(n + 1)>>
           b == CountZeros(n)
           d == <<Swap(1)>>
<1>1. a \in Seq(Instructions) /\ d \in Seq(Instructions)
  <2>1. ReadMem(n) \in Instructions /\ Swap(n + 1) \in Instructions /\ Swap(1) \in Instructions
    BY InstructionsAre
  <2> QED
    BY <2>1
<1>2. Len(a) = 2 /\ a[1] = <<"read_mem", n>> /\ a[2] = <<"swap", n + 1>> /\ Len(d) = 1 /\ d[1] = <<"swap", 1>>
  BY DEF ReadMem, Swap
<1>3. b \in Seq(Instructions)
  BY CountZerosType
<1>4. Check(n) = (a \o b) \o d
  BY DEF Check
<1> HIDE DEF a, b, d
<1>5. a \o b \in Seq(Instructions)
  BY <1>1, <1>3, ConcatProperties
<1>6. /\ Placed(x, p, a \o b) /\ Placed(x, p + Len(a \o b), d)
      /\ Check(n) \in Seq(Instructions) /\ Len(Check(n)) = Len(a \o b) + Len(d)
  <2> DEFINE e == a \o b
  <2>1. Placed(x, p, e \o d) /\ e \in Seq(Instructions)
    BY <1>4, <1>5
  <2> HIDE DEF e
  <2>2. /\ Placed(x, p, e) /\ Placed(x, p + Len(e), d)
        /\ e \o d \in Seq(Instructions) /\ Len(e \o d) = Len(e) + Len(d)
    BY <1>1, <2>1, PlacedConcat
  <2> QED
    BY <1>4, <2>2 DEF e
<1>7. /\ Placed(x, p, a) /\ Placed(x, p + Len(a), b) /\ Len(a \o b) = Len(a) + Len(b) /\ Len(b) \in Nat
  BY <1>1, <1>3, <1>6, PlacedConcat
<1>8. x.code[p + 1 - 1] = a[1] /\ x.code[p + 2 - 1] = a[2]
  BY <1>2, <1>7 DEF Placed
<1>9. x.code[p + Len(a \o b) + 1 - 1] = d[1]
  BY <1>2, <1>6 DEF Placed
<1>10. p + 1 - 1 = p /\ p + 2 - 1 = p + 1 /\ p + Len(a \o b) + 1 - 1 = p + 2 + Len(b)
       /\ Len(Check(n)) = Len(b) + 3
  BY <1>2, <1>6, <1>7
<1>11. x.code[p] = <<"read_mem", n>> /\ x.code[p + 1] = <<"swap", n + 1>>
  BY <1>2, <1>8, <1>10
<1>12. x.code[p + 2 + Len(b)] = <<"swap", 1>>
  BY <1>2, <1>9, <1>10, Zenon
<1> QED
  BY <1>2, <1>6, <1>7, <1>10, <1>11, <1>12 DEF b

\* The check of a chunk counts the zeros among m cells.
LEMMA CheckRule ==
    ASSUME NEW x, NEW p \in Nat, NEW n \in 1 .. Chunk, NEW a \in Words, NEW k \in Nat, k + n < Order,
           NEW s \in Deep, NEW r \in Memory, NEW c,
           Placed(x, p, Check(n)), Clear(x, p, p + Len(Check(n)) - 1, r),
           \A h \in Words : Tally(h, k, Cellwise(r, a, n), n) =>
               Good(x, At(p + Len(Check(n)), Put(Less(a, n), Put(h, s)), r, c))
    PROVE  Good(x, At(p, Put(a, Put(k, s)), r, c))
<1> DEFINE w == Cellwise(r, a, n)
           b == Less(a, n)
           l == Len(CountZeros(n))
           t == Put(b, s)
<1>1. /\ n \in Nat /\ n >= 1 /\ k \in Words /\ n + 1 \in 1 .. Window - 1 /\ Order \in Nat
  BY MachineAssumption DEF Words
<1>2. w \in Seq(Words) /\ Len(w) = n /\ b \in Words
  <2>1. w \in Seq(Words) /\ Len(w) = n
    BY <1>1, CellwiseIs
  <2>2. a - n \in Int
    BY <1>1 DEF Words
  <2> QED
    BY <2>1, <2>2, Residues DEF Less
<1>3. t \in Deep /\ Put(k, s) \in Deep
  BY <1>1, <1>2, DeepFacts, Zenon
<1>4. /\ l \in Nat /\ Len(Check(n)) = l + 3
      /\ x.code[p] = <<"read_mem", n>> /\ x.code[p + 1] = <<"swap", n + 1>>
      /\ Placed(x, p + 2, CountZeros(n)) /\ x.code[p + 2 + l] = <<"swap", 1>>
  BY <1>1, CheckCode
<1>5. l \in Nat
  BY <1>4
<1>6. Clear(x, p, p + l + 2, r)
  <2>1. p + Len(Check(n)) - 1 = p + l + 2
    BY <1>4
  <2> QED
    BY <2>1
<1>7. \A i \in p .. p + l + 2 : \A u : Safe(x, At(i, u, r, c))
  BY <1>6, ClearIsSafe
<1>8. \A h \in Words : Tally(h, k, w, n) => Good(x, At(p + (l + 3), Put(b, Put(h, s)), r, c))
  BY <1>4
<1>9. b = Less(a, n) /\ w = Cellwise(r, a, n) /\ l = Len(CountZeros(n)) /\ t = Put(b, s)
  OBVIOUS
<1> HIDE DEF w, b, l, t
<1>10. ASSUME NEW h \in Words, Tally(h, k, w, n) PROVE Good(x, At(p + 2 + l, Put(h, t), r, c))
  <2>1. p + 2 + l + 1 = p + (l + 3) /\ p + 2 + l \in p .. p + l + 2
    BY <1>5
  <2>2. Good(x, At(p + 2 + l + 1, Put(b, Put(h, s)), r, c))
    BY <1>8, <1>10, <2>1
  <2>3. Safe(x, At(p + 2 + l, Put(h, Put(b, s)), r, c))
    BY <1>7, <2>1
  <2>4. Good(x, At(p + 2 + l, Put(h, Put(b, s)), r, c))
    BY <1>2, <1>4, <2>2, <2>3, SwapOneRule, Zenon
  <2> QED
    BY <1>9, <2>4
<1>11. Good(x, At(p + 2, Put(k, w \o t), r, c))
  <2>1. Clear(x, p + 2, p + 2 + l - 1, r)
    <3>1. p \in Int /\ p + l + 2 \in Int /\ p + 2 \in Int /\ p + 2 + l - 1 \in Int /\ p <= p + 2
          /\ p + 2 + l - 1 <= p + l + 2
      BY <1>5
    <3> QED
      BY <1>6, <3>1, ClearPart
  <2>2. \A h \in Words : Tally(h, k, w, n) => Good(x, At(p + 2 + Len(CountZeros(n)), Put(h, t), r, c))
    BY <1>9, <1>10
  <2>3. Clear(x, p + 2, p + 2 + Len(CountZeros(n)) - 1, r) /\ p + 2 \in Nat
    BY <1>9, <2>1
  <2> QED
    BY <1>1, <1>2, <1>3, <1>4, <2>2, <2>3, CountRule, Zenon
<1>12. Good(x, At(p + 1, Put(b, w \o Put(k, s)), r, c))
  <2>1. p + 1 + 1 = p + 2 /\ p + 1 \in p .. p + l + 2
    BY <1>5
  <2>2. Around(k, w, b, s) = Put(k, w \o t) /\ Around(b, w, k, s) = Put(b, w \o Put(k, s))
    BY <1>9 DEF Around
  <2>3. Good(x, At(p + 1 + 1, Around(k, w, b, s), r, c)) /\ Safe(x, At(p + 1, Around(b, w, k, s), r, c))
    BY <1>7, <1>11, <2>1, <2>2
  <2>4. Good(x, At(p + 1, Around(b, w, k, s), r, c))
    BY <1>1, <1>2, <1>4, <2>3, SwapRule, Zenon
  <2> QED
    BY <2>2, <2>4
<1>13. Good(x, At(p + 1, Put((a - n) % Order, Cellwise(r, a, n) \o Put(k, s)), r, c))
       /\ Safe(x, At(p, Put(a, Put(k, s)), r, c))
  <2>1. p \in p .. p + l + 2
    BY <1>5
  <2> QED
    BY <1>7, <1>9, <1>12, <2>1 DEF Less
<1> QED
  BY <1>3, <1>4, <1>13, ReadRule, Zenon

\* Of the u cells from last down, h are zero at most, and u only if all are.
Counted(r, last, h, u) == h \in 0 .. u /\ (h = u => \A j \in 0 .. u - 1 : r[last - j] = 0)

\* A chunk more.
LEMMA CountedMore ==
    ASSUME NEW r \in Memory, NEW last \in Words, NEW u \in Nat, NEW m \in Nat, u + m <= last + 1,
           NEW h \in Nat, NEW k \in Nat, Counted(r, last, h, u), last - u \in Words,
           Tally(k, h, Cellwise(r, last - u, m), m)
    PROVE  Counted(r, last, k, u + m)
<1> DEFINE a == last - u
           w == Cellwise(r, a, m)
<1>1. last \in Nat /\ last < Order /\ Order \in Nat /\ a \in Nat /\ a = last - u
  BY MachineAssumption DEF Words
<1>2. h >= 0 /\ h <= u /\ k >= h /\ k <= h + m
  BY DEF Counted, Tally
<1>3. ASSUME k = u + m, NEW j \in 0 .. u + m - 1 PROVE r[last - j] = 0
  <2>1. h = u /\ k = h + m
    BY <1>2, <1>3
  <2>2. CASE j <= u - 1
    <3>1. j \in 0 .. u - 1
      BY <2>2
    <3> QED
      BY <2>1, <3>1 DEF Counted
  <2>3. CASE j >= u
    <3> DEFINE i == m - (j - u)
    <3>1. i \in 1 .. m /\ a - (m - i) = last - j /\ last - j \in Words
      BY <1>1, <2>3 DEF Words
    <3>2. w[i] = 0
      BY <2>1, <3>1 DEF Tally
    <3>3. w[i] = r[(a - (m - i)) % Order]
      BY <3>1 DEF Cellwise
    <3>4. (last - j) % Order = last - j
      BY <1>1, <3>1, Residues
    <3> HIDE DEF i, w
    <3> QED
      BY <3>1, <3>2, <3>3, <3>4
  <2> QED
    BY <2>2, <2>3
<1>4. k \in 0 .. u + m
  BY <1>2
<1> QED
  BY <1>3, <1>4 DEF Counted

\* All the checks together count the zeros among n cells, and the count is n
\* only if all are free.
LEMMA ChecksRule ==
    ASSUME NEW x, NEW p \in Nat, NEW n \in 1 .. Order - 1, Preferred + n <= Order,
           NEW t \in Deep, NEW r \in Memory, NEW c,
           Placed(x, p, EachChunk(n, Check)), Clear(x, p, p + Len(EachChunk(n, Check)) - 1, r),
           \A h \in Words, b \in Words : (h = n => Free(r, Preferred, n)) =>
               Good(x, At(p + Len(EachChunk(n, Check)), Put(b, Put(h, t)), r, c))
    PROVE  Good(x, At(p, Put(Preferred + n - 1, Put(0, t)), r, c))
<1> DEFINE last == Preferred + n - 1
           l == Len(EachChunk(n, Check))
<1>1. /\ n \in Nat /\ n >= 1 /\ Order \in Nat /\ Preferred \in Nat /\ last \in Words /\ last \in Nat
      /\ 0 \in Words /\ n < Order /\ last = Preferred + n - 1
  BY MachineAssumption, PreferredAssumption DEF Words
<1>2. PICK count \in Nat : \E upto \in [0 .. count -> 0 .. n] : Split(n, count, upto)
  BY <1>1, ChunksSplit, Zenon
<1>3. PICK upto \in [0 .. count -> 0 .. n] : Split(n, count, upto)
  BY <1>2
<1>4. /\ Chunks(n) \in [1 .. count -> 1 .. Chunk]
      /\ upto[0] = 0 /\ upto[count] = n
      /\ \A i \in 1 .. count : upto[i] = upto[i - 1] + Chunks(n)[i]
  BY <1>3, Zenon DEF Split
<1> DEFINE seqs == [i \in 1 .. count |-> Check(Chunks(n)[i])]
<1>5. seqs \in [1 .. count -> Seq(Instructions)] /\ EachChunk(n, Check) = FlattenSeq(seqs)
      /\ \A i \in 1 .. count : seqs[i] = Check(Chunks(n)[i])
  <2>1. \A i \in 1 .. count : Chunks(n)[i] \in Nat
    BY <1>4, MachineAssumption
  <2>2. \A k \in Nat : Check(k) \in Seq(Instructions)
    BY CheckType
  <2>3. DOMAIN Chunks(n) = 1 .. count
    BY <1>4
  <2> QED
    BY <1>1, <2>1, <2>2, <2>3, EachChunkIs, Zenon
<1> HIDE DEF seqs
<1>6. PICK off : Laid(x, p, count, seqs, off)
  BY <1>5, PiecesLaid, Zenon
<1>7. off[count] = l /\ off[0] = 0 /\ off[count] \in Nat /\ l \in Nat
  BY <1>5, <1>6 DEF Laid
<1> DEFINE Fine(i) == \A h \in Words : Counted(r, last, h, upto[i]) =>
                         Good(x, At(p + off[i], Put(Less(last, upto[i]), Put(h, t)), r, c))
           T == {i \in 0 .. count : Fine(i)}
<1>8. Fine(count)
  <2> SUFFICES ASSUME NEW h \in Words, Counted(r, last, h, n)
               PROVE  Good(x, At(p + l, Put(Less(last, n), Put(h, t)), r, c))
    BY <1>4, <1>7
  <2>1. ASSUME h = n PROVE Free(r, Preferred, n)
    <3>1. Preferred \in 0 .. Order - n
      BY <1>1
    <3>2. ASSUME NEW k \in 0 .. n - 1 PROVE r[Preferred + k] = 0
      <4>1. n - 1 - k \in 0 .. n - 1 /\ last - (n - 1 - k) = Preferred + k
        BY <1>1
      <4> QED
        BY <2>1, <4>1 DEF Counted
    <3> QED
      BY <3>1, <3>2 DEF Free
  <2>2. Less(last, n) \in Words
    <3>1. last - n \in Int
      BY <1>1
    <3> QED
      BY <3>1, Residues DEF Less
  <2> QED
    BY <2>1, <2>2
<1>9. ASSUME NEW i \in 1 .. count, Fine(i) PROVE Fine(i - 1)
  <2> SUFFICES ASSUME NEW h \in Words, Counted(r, last, h, upto[i - 1])
               PROVE  Good(x, At(p + off[i - 1], Put(Less(last, upto[i - 1]), Put(h, t)), r, c))
    OBVIOUS
  <2> DEFINE u == upto[i - 1]
             m == Chunks(n)[i]
             a == last - u
             q == p + off[i - 1]
             e == Len(Check(m))
  <2>1. i \in 0 .. count /\ i - 1 \in 0 .. count
    OBVIOUS
  <2>2. /\ u \in Nat /\ m \in 1 .. Chunk /\ m \in Nat /\ m >= 1 /\ upto[i] = u + m /\ u + m <= n
    <3>1. u \in 0 .. n /\ upto[i] \in 0 .. n /\ m \in 1 .. Chunk /\ upto[i] = u + m
      BY <1>4, <2>1, Zenon
    <3>2. Chunk \in Nat
      BY MachineAssumption, Zenon
    <3> HIDE DEF u, m
    <3> QED
      BY <3>1, <3>2
  <2>3. /\ off[i] = off[i - 1] + Len(seqs[i]) /\ off[i] <= off[count] /\ off[i - 1] \in Nat
        /\ off[i] \in Nat /\ Placed(x, p + off[i - 1], seqs[i])
    BY <1>6, <2>1, Zenon DEF Laid
  <2>4. seqs[i] = Check(m) /\ e \in Nat
    <3>1. Check(m) \in Seq(Instructions)
      BY <2>2, CheckType, Zenon
    <3> QED
      BY <1>5, <3>1
  <2>5. Clear(x, q, q + e - 1, r) /\ q + e = p + off[i] /\ q \in Nat
    <3> DEFINE f == off[i - 1]
               g == off[i]
    <3>1. f \in Nat /\ g = f + e /\ g <= l /\ l \in Nat /\ q = p + f /\ e \in Nat
      BY <1>7, <2>3, <2>4, Zenon
    <3>2. Clear(x, p, p + l - 1, r)
      OBVIOUS
    <3> HIDE DEF f, g, l, q, e
    <3>3. p <= q /\ q + e - 1 <= p + l - 1 /\ q \in Int /\ q + e - 1 \in Int /\ p + l - 1 \in Int /\ p \in Int
          /\ q + e = p + g /\ q \in Nat
      BY <3>1
    <3> QED
      BY <3>2, <3>3, ClearPart DEF g
  <2>6. Placed(x, q, Check(m))
    BY <2>3, <2>4
  <2>7. a \in Words /\ a \in Nat /\ Less(last, u) = a /\ Less(a, m) = Less(last, u + m)
    <3>1. u <= n /\ u + m <= n /\ m >= 1 /\ u \in Nat /\ m \in Nat
      BY <1>1, <2>2
    <3> HIDE DEF u, m, last
    <3>2. a \in Words /\ a \in Nat /\ a \in Int /\ a - m = last - (u + m)
      <4>1. last \in Nat /\ last < Order /\ n <= last + 1
        BY <1>1 DEF Words
      <4>2. a \in 0 .. Order - 1
        BY <1>1, <3>1, <4>1
      <4>3. a - m = last - (u + m)
        BY <3>1, <4>1
      <4>4. a \in Nat /\ a \in Int
        BY <1>1, <4>2
      <4> QED
        BY <4>2, <4>3, <4>4 DEF Words
    <3>3. a % Order = a
      BY <3>2, Residues
    <3> QED
      BY <3>2, <3>3 DEF Less
  <2>8. h \in Nat /\ h + m < Order
    <3>1. h \in 0 .. u
      BY DEF Counted
    <3>2. u + m <= n /\ u \in Nat /\ m \in Nat
      BY <2>2
    <3> HIDE DEF u, m
    <3> QED
      BY <1>1, <3>1, <3>2
  <2>9. ASSUME NEW k \in Words, Tally(k, h, Cellwise(r, a, m), m)
        PROVE  Good(x, At(q + e, Put(Less(a, m), Put(k, t)), r, c))
    <3>1. k \in Nat /\ u + m <= last + 1
      <4>1. u + m <= n /\ u \in Nat /\ m \in Nat
        BY <2>2
      <4> HIDE DEF u, m, last
      <4> QED
        BY <1>1, <4>1 DEF Words
    <3>2. Counted(r, last, k, u + m)
      BY <1>1, <2>2, <2>7, <2>8, <2>9, <3>1, CountedMore, Zenon
    <3>3. Good(x, At(p + off[i], Put(Less(last, upto[i]), Put(k, t)), r, c))
      BY <1>9, <2>2, <3>2
    <3> QED
      BY <2>2, <2>5, <2>7, <3>3
  <2>10. Good(x, At(q, Put(a, Put(h, t)), r, c))
    <3> HIDE DEF a, u, m, q
    <3> QED
      BY <2>2, <2>5, <2>6, <2>7, <2>8, <2>9, CheckRule, Zenon DEF e
  <2> QED
    BY <2>7, <2>10
<1> HIDE DEF Fine
<1>10. count \in T /\ T \in SUBSET (0 .. count)
  BY <1>8
<1>11. \A i \in 1 .. count : i \in T => i - 1 \in T
  BY <1>9
<1> HIDE DEF T
<1>12. T = 0 .. count
  BY <1>10, <1>11, Downwards, Zenon
<1>13. Fine(0)
  BY <1>12 DEF T
<1>14. p + off[0] = p /\ Less(last, upto[0]) = last
  <2>1. last - 0 = last /\ last \in Int
    BY <1>1
  <2>2. p + off[0] = p /\ upto[0] = 0
    BY <1>4, <1>7
  <2> HIDE DEF last
  <2> QED
    BY <1>1, <2>1, <2>2, Residues, Zenon DEF Less
<1>15. Counted(r, last, 0, 0)
  BY DEF Counted
<1>16. Good(x, At(p + off[0], Put(Less(last, upto[0]), Put(0, t)), r, c))
  BY <1>1, <1>4, <1>13, <1>15 DEF Fine
<1> QED
  BY <1>1, <1>14, <1>16

\* What borrow does before the checks and after them.
BorrowHead(n) == <<Push(n), Push(Preferred + n - 1), Push(n), Push(0), Push(Preferred + n - 1)>>
BorrowTail(n) == <<Pop(1), Push(n), Eq, Push(0), Eq, Skiz, Call("search"),
                   Pop(1), Swap(1), Pop(1), Push(1 - n), Add>>

\* The checks are code.
LEMMA EachCheckType ==
    ASSUME NEW n \in Nat
    PROVE  EachChunk(n, Check) \in Seq(Instructions)
<1>1. PICK count \in Nat : \E upto \in [0 .. count -> 0 .. n] : Split(n, count, upto)
  BY ChunksSplit, Zenon
<1>2. Chunks(n) \in [1 .. count -> 1 .. Chunk]
  BY <1>1 DEF Split
<1> DEFINE seqs == [i \in 1 .. count |-> Check(Chunks(n)[i])]
<1>3. DOMAIN Chunks(n) = 1 .. count
  BY <1>2
<1>4. \A i \in 1 .. count : Chunks(n)[i] \in Nat
  BY <1>2, MachineAssumption
<1>5. \A k \in Nat : Check(k) \in Seq(Instructions)
  BY CheckType
<1>6. seqs \in [1 .. count -> Seq(Instructions)] /\ EachChunk(n, Check) = FlattenSeq(seqs)
  BY <1>3, <1>4, <1>5, EachChunkIs, Zenon
<1> HIDE DEF seqs
<1> QED
  BY <1>6, FlattenType

\* The code of borrow is at p, l instructions of it the checks.
BorrowAt(x, p, n, l, last) ==
    /\ l \in Nat /\ Len(Borrow(n)) = l + 17
    /\ x.code[p] = <<"push", n>> /\ x.code[p + 1] = <<"push", last>>
    /\ x.code[p + 2] = <<"push", n>> /\ x.code[p + 3] = <<"push", 0>>
    /\ x.code[p + 4] = <<"push", last>>
    /\ Placed(x, p + 5, EachChunk(n, Check)) /\ Placed(x, p + 5 + l, BorrowTail(n))

\* Where the parts of borrow are.
LEMMA BorrowCode ==
    ASSUME NEW x, NEW p \in Nat, NEW n \in 1 .. Order - 1, Preferred + n <= Order, Placed(x, p, Borrow(n))
    PROVE  Borrow(n) \in Seq(Instructions) /\ BorrowAt(x, p, n, Len(EachChunk(n, Check)), Preferred + n - 1)
<1> DEFINE a == BorrowHead(n)
           b == EachChunk(n, Check)
           d == BorrowTail(n)
           e == a \o b
           l == Len(b)
<1>1. /\ n \in Nat /\ Order \in Nat /\ Preferred \in Nat /\ n \in Words /\ 0 \in Words
      /\ Preferred + n - 1 \in Words /\ Preferred + n - 1 \in Int /\ 1 - n \in Int
  BY MachineAssumption, PreferredAssumption DEF Words
<1>2. Literal(n) = n /\ Literal(0) = 0 /\ Literal(Preferred + n - 1) = Preferred + n - 1
  BY <1>1, LiteralIs
<1>3. /\ Len(a) = 5 /\ a[1] = <<"push", n>> /\ a[2] = <<"push", Preferred + n - 1>>
      /\ a[3] = <<"push", n>> /\ a[4] = <<"push", 0>> /\ a[5] = <<"push", Preferred + n - 1>>
  BY <1>2 DEF BorrowHead, Push
<1>4. Len(d) = 12
  BY DEF BorrowTail
<1>5. a \in Seq(Instructions) /\ d \in Seq(Instructions)
  <2>1. /\ Push(n) \in Instructions /\ Push(0) \in Instructions /\ Push(Preferred + n - 1) \in Instructions
        /\ Push(1 - n) \in Instructions /\ Pop(1) \in Instructions /\ Swap(1) \in Instructions
    BY <1>1, InstructionsAre
  <2>2. Eq \in Instructions /\ Skiz \in Instructions /\ Add \in Instructions /\ Call("search") \in Instructions
    BY InstructionsAre
  <2> QED
    BY <2>1, <2>2 DEF BorrowHead, BorrowTail
<1>6. b \in Seq(Instructions)
  BY <1>1, EachCheckType
<1>7. Borrow(n) = e \o d
  BY <1>1, BorrowIs, Zenon DEF BorrowHead, BorrowTail
<1>8. l = Len(b) /\ e = a \o b
  OBVIOUS
<1> HIDE DEF a, b, d, e, l
<1>9. e \in Seq(Instructions)
  BY <1>5, <1>6, <1>8, ConcatProperties
<1>10. Placed(x, p, e \o d)
  BY <1>7
<1>11. /\ Placed(x, p, e) /\ Placed(x, p + Len(e), d)
       /\ e \o d \in Seq(Instructions) /\ Len(e \o d) = Len(e) + Len(d)
  BY <1>5, <1>9, <1>10, PlacedConcat
<1>12. Placed(x, p, a \o b)
  BY <1>8, <1>11
<1>13. Placed(x, p, a) /\ Placed(x, p + Len(a), b) /\ Len(a \o b) = Len(a) + Len(b) /\ Len(b) \in Nat
  BY <1>5, <1>6, <1>12, PlacedConcat
<1>14. \A j \in 1 .. 5 : x.code[p + j - 1] = a[j]
  BY <1>3, <1>13, Zenon DEF Placed
<1>15. /\ x.code[p + 1 - 1] = a[1] /\ x.code[p + 2 - 1] = a[2] /\ x.code[p + 3 - 1] = a[3]
       /\ x.code[p + 4 - 1] = a[4] /\ x.code[p + 5 - 1] = a[5]
  BY <1>14
<1>16. p + 1 - 1 = p /\ p + 2 - 1 = p + 1 /\ p + 3 - 1 = p + 2 /\ p + 4 - 1 = p + 3 /\ p + 5 - 1 = p + 4
  OBVIOUS
<1>17. /\ x.code[p] = a[1] /\ x.code[p + 1] = a[2] /\ x.code[p + 2] = a[3]
       /\ x.code[p + 3] = a[4] /\ x.code[p + 4] = a[5]
  BY <1>15, <1>16
<1>18. Len(e) = 5 + l /\ Len(e \o d) = l + 17 /\ p + Len(e) = p + 5 + l /\ l \in Nat
  <2> DEFINE v == Len(e)
             f == Len(b)
             g == Len(e \o d)
  <2>1. v = 5 + f /\ f \in Nat
    BY <1>3, <1>8, <1>13
  <2>2. g = v + 12
    BY <1>4, <1>11
  <2>3. l = f
    BY <1>8
  <2> HIDE DEF v, f, g
  <2>4. v = 5 + l /\ g = l + 17 /\ p + v = p + 5 + l /\ l \in Nat
    BY <2>1, <2>2, <2>3
  <2> QED
    BY <2>4 DEF v, g
<1>19. Placed(x, p + 5 + l, d) /\ Placed(x, p + 5, b)
  BY <1>3, <1>11, <1>13, <1>18
<1> QED
  <2>1. Borrow(n) \in Seq(Instructions)
    BY <1>7, <1>11
  <2>2. Borrow(n) \in Seq(Instructions) /\ BorrowAt(x, p, n, l, Preferred + n - 1)
    BY <2>1, <1>3, <1>7, <1>17, <1>18, <1>19 DEF b, d, BorrowAt
  <2> QED
    BY <2>2 DEF l, b

\* The instructions after the checks.
LEMMA TailCode ==
    ASSUME NEW x, NEW q \in Nat, NEW n \in 1 .. Order - 1, Placed(x, q, BorrowTail(n))
    PROVE  /\ x.code[q] = <<"pop", 1>> /\ x.code[q + 1] = <<"push", n>>
           /\ x.code[q + 2] = <<"eq", 0>> /\ x.code[q + 3] = <<"push", 0>>
           /\ x.code[q + 4] = <<"eq", 0>> /\ x.code[q + 5] = <<"skiz", 0>>
           /\ x.code[q + 6] = <<"call", "search">> /\ x.code[q + 7] = <<"pop", 1>>
           /\ x.code[q + 8] = <<"swap", 1>> /\ x.code[q + 9] = <<"pop", 1>>
           /\ x.code[q + 10] = <<"push", Literal(1 - n)>> /\ x.code[q + 11] = <<"add", 0>>
<1> DEFINE d == BorrowTail(n)
<1>1. Literal(n) = n /\ Literal(0) = 0
  <2>1. n \in Words /\ 0 \in Words /\ n \in Int
    BY MachineAssumption DEF Words
  <2> QED
    BY <2>1, LiteralIs
<1>2. /\ Len(d) = 12 /\ d[1] = <<"pop", 1>> /\ d[2] = <<"push", n>> /\ d[3] = <<"eq", 0>>
      /\ d[4] = <<"push", 0>> /\ d[5] = <<"eq", 0>> /\ d[6] = <<"skiz", 0>> /\ d[7] = <<"call", "search">>
      /\ d[8] = <<"pop", 1>> /\ d[9] = <<"swap", 1>> /\ d[10] = <<"pop", 1>>
      /\ d[11] = <<"push", Literal(1 - n)>> /\ d[12] = <<"add", 0>>
  BY <1>1 DEF BorrowTail, Pop, Push, Eq, Skiz, Call, Swap, Add
<1>3. \A j \in 1 .. 12 : x.code[q + j - 1] = d[j]
  BY <1>2 DEF Placed
<1> HIDE DEF d
<1>4. \A j \in 0 .. 11 : x.code[q + j] = d[j + 1]
  <2> SUFFICES ASSUME NEW j \in 0 .. 11 PROVE x.code[q + j] = d[j + 1]
    OBVIOUS
  <2>1. j + 1 \in 1 .. 12 /\ q + (j + 1) - 1 = q + j
    OBVIOUS
  <2> QED
    BY <1>3, <2>1
<1>5. q + 0 = q
  OBVIOUS
<1> QED
  BY <1>2, <1>4, <1>5

\* The base of the cells is computed and left on the stack.
LEMMA BorrowEnd ==
    ASSUME NEW x, NEW q \in Nat, NEW n \in 1 .. Order - 1, NEW s \in Deep, NEW r, NEW c,
           NEW a \in Words, a - n + 1 \in 0 .. Order - n,
           Placed(x, q, BorrowTail(n)), Clear(x, q + 7, q + 11, r),
           Good(x, At(q + 12, Put(a - n + 1, s), r, c))
    PROVE  Good(x, At(q + 7, Put(n, Put(a, Put(n, s))), r, c))
<1> DEFINE k == Literal(1 - n)
<1>1. n \in Words /\ 1 - n \in Int /\ Order \in Nat /\ a \in Nat /\ a < Order
  BY MachineAssumption DEF Words
<1>2. k \in Words
  BY <1>1, Residues, Zenon DEF Literal
<1>3. Plus(k, a) = a - n + 1
  <2>1. CASE n = 1
    <3>1. 1 - n = 0 /\ 0 \in Words /\ 0 \in Int
      BY <1>1, <2>1 DEF Words
    <3>2. k = 0
      BY <3>1, Residues DEF Literal
    <3>3. k + a = a /\ a - n + 1 = a /\ a \in Int
      BY <1>1, <2>1, <3>2
    <3> QED
      BY <3>3, Residues DEF Plus
  <2>2. CASE n > 1
    <3>1. - Order <= 1 - n /\ 1 - n < 0
      BY <1>1, <2>2
    <3>2. k = 1 - n + Order
      BY <1>1, <3>1, Negative DEF Literal
    <3> DEFINE v == k + a
    <3>3. v \in Int /\ Order <= v /\ v < 2 * Order /\ v - Order = a - n + 1
      BY <1>1, <3>2
    <3> HIDE DEF v
    <3>4. v % Order = v - Order
      BY <3>3, BeyondOrder
    <3> QED
      BY <3>3, <3>4 DEF Plus, v
  <2> QED
    BY <2>1, <2>2
<1> HIDE DEF k
<1>4. /\ x.code[q + 7] = <<"pop", 1>> /\ x.code[q + 8] = <<"swap", 1>> /\ x.code[q + 9] = <<"pop", 1>>
      /\ x.code[q + 10] = <<"push", k>> /\ x.code[q + 11] = <<"add", 0>>
  BY TailCode DEF k
<1>5. \A i \in q + 7 .. q + 11 : \A t : Safe(x, At(i, t, r, c))
  BY ClearIsSafe
<1>6. Put(a, s) \in Deep /\ Put(n, s) \in Deep /\ Put(a, Put(n, s)) \in Deep
  BY <1>1, DeepFacts, Zenon
<1>7. Good(x, At(q + 11, Put(k, Put(a, s)), r, c))
  <2>1. Good(x, At(q + 11 + 1, Put(Plus(k, a), s), r, c)) /\ Safe(x, At(q + 11, Put(k, Put(a, s)), r, c))
    BY <1>3, <1>5
  <2> QED
    BY <1>2, <1>4, <2>1, AddRule
<1>8. Good(x, At(q + 10, Put(a, s), r, c))
  <2>1. Good(x, At(q + 10 + 1, Put(k, Put(a, s)), r, c)) /\ Safe(x, At(q + 10, Put(a, s), r, c))
    BY <1>5, <1>7
  <2> QED
    BY <1>4, <1>6, <2>1, PushRule
<1>9. Good(x, At(q + 9, Put(n, Put(a, s)), r, c))
  <2>1. Good(x, At(q + 9 + 1, Put(a, s), r, c)) /\ Safe(x, At(q + 9, Put(n, Put(a, s)), r, c))
    BY <1>5, <1>8
  <2> QED
    BY <1>1, <1>4, <1>6, <2>1, PopOneRule
<1>10. Good(x, At(q + 8, Put(a, Put(n, s)), r, c))
  <2>1. Good(x, At(q + 8 + 1, Put(n, Put(a, s)), r, c)) /\ Safe(x, At(q + 8, Put(a, Put(n, s)), r, c))
    BY <1>5, <1>9
  <2> QED
    BY <1>1, <1>4, <2>1, SwapOneRule, Zenon
<1>11. Good(x, At(q + 7 + 1, Put(a, Put(n, s)), r, c)) /\ Safe(x, At(q + 7, Put(n, Put(a, Put(n, s))), r, c))
  BY <1>5, <1>10
<1> QED
  BY <1>1, <1>4, <1>6, <1>11, PopOneRule, Zenon

\* Wherever n cells are zero, the code goes on with the first of them on top.
Lent(x, q, s, r, c, n) ==
    \A b \in 0 .. Order - n : Free(r, b, n) => Good(x, At(q, Put(b, s), r, c))

\* search is at q and scan at z.
Searches(x, q, z) ==
    /\ q \in Nat /\ z \in Nat /\ x.entry["search"] = q /\ x.entry["scan"] = z
    /\ Placed(x, q, Search) /\ Placed(x, z, Scan)
    /\ Clear(x, q, q + 4, x.start.ram) /\ Clear(x, z, z + 24, x.start.ram)

\* After the cells at the preferred address have been counted.
LEMMA BorrowChoice ==
    ASSUME NEW x, NEW q \in Nat, NEW n \in 1 .. Order - 1, Preferred + n <= Order, Chunk > 1,
           NEW s \in Deep, NEW r \in Memory, NEW c \in Seq(Nat \X Nat), NEW h \in Words, NEW b \in Words,
           h = n => Free(r, Preferred, n), NEW f, NEW z, Searches(x, f, z),
           Placed(x, q, BorrowTail(n)), Clear(x, q, q + 11, r),
           x.cells = n, x.start.ram = r, Lent(x, q + 12, s, r, c, n)
    PROVE  Good(x, At(q, Put(b, Put(h, Put(n, Put(Preferred + n - 1, Put(n, s))))), r, c))
<1> DEFINE last == Preferred + n - 1
           t == Put(n, Put(last, Put(n, s)))
           e == Same(n, h)
           g == Same(0, e)
<1>1. /\ n \in Words /\ n \in Nat /\ last \in Words /\ Order \in Nat /\ Preferred \in Nat /\ last = Preferred + n - 1
      /\ 0 \in Words /\ 1 \in Words
  BY MachineAssumption, PreferredAssumption DEF Words
<1>2. e \in Words /\ g \in Words /\ (g = 0 => h = n)
  BY <1>1 DEF Same
<1>3. last - n + 1 = Preferred /\ Preferred \in 0 .. Order - n
  BY <1>1
<1> HIDE DEF last, e, g
<1>4. /\ x.code[q] = <<"pop", 1>> /\ x.code[q + 1] = <<"push", n>>
      /\ x.code[q + 2] = <<"eq", 0>> /\ x.code[q + 3] = <<"push", 0>>
      /\ x.code[q + 4] = <<"eq", 0>> /\ x.code[q + 5] = <<"skiz", 0>>
      /\ x.code[q + 6] = <<"call", "search">>
  BY TailCode, Zenon
<1>5. \A i \in q .. q + 11 : \A u : Safe(x, At(i, u, r, c))
  BY ClearIsSafe
<1>6. Put(n, s) \in Deep /\ Put(last, Put(n, s)) \in Deep /\ t \in Deep
  BY <1>1, DeepFacts, Zenon
<1>7. Put(h, t) \in Deep /\ Put(e, t) \in Deep
  BY <1>2, <1>6, DeepFacts
<1>8. Clear(x, q + 7, q + 11, r)
  BY DEF Clear
<1>9. ASSUME NEW a \in Words, Free(r, a - n + 1, n)
      PROVE  Good(x, At(q + 7, Put(n, Put(a, Put(n, s))), r, c))
  <2>1. a - n + 1 \in 0 .. Order - n
    BY <1>9 DEF Free
  <2>2. Good(x, At(q + 12, Put(a - n + 1, s), r, c))
    BY <1>9, <2>1 DEF Lent
  <2> QED
    BY <1>8, <2>1, <2>2, BorrowEnd
<1>10. Good(x, At(q + 6, t, r, c))
  <2>1. Found(x, q + 7, s, r, c, n)
    BY <1>9 DEF Found
  <2>2. /\ f \in Nat /\ z \in Nat /\ x.entry["search"] = f /\ x.entry["scan"] = z
        /\ Placed(x, f, Search) /\ Placed(x, z, Scan) /\ Clear(x, f, f + 4, r) /\ Clear(x, z, z + 24, r)
    BY Zenon DEF Searches
  <2>3. q + 7 \in Nat /\ q + 6 + 1 = q + 7
    OBVIOUS
  <2>4. Good(x, At(f, t, r, <<<<q + 7, f>>>> \o c))
    BY <1>1, <2>1, <2>2, <2>3, SearchRule, Zenon
  <2>5. Good(x, At(x.entry["search"], t, r, <<<<q + 6 + 1, x.entry["search"]>>>> \o c))
        /\ Safe(x, At(q + 6, t, r, c))
    BY <1>5, <2>2, <2>3, <2>4
  <2> HIDE DEF t
  <2> QED
    BY <1>4, <1>6, <2>5, CallRule, Zenon
<1>11. g = 0 => Good(x, At(q + 7, t, r, c))
  <2> SUFFICES ASSUME g = 0 PROVE Good(x, At(q + 7, t, r, c))
    OBVIOUS
  <2>1. Free(r, last - n + 1, n)
    BY <1>2, <1>3
  <2> QED
    BY <1>1, <1>9, <2>1
<1> HIDE DEF t
<1>12. Good(x, At(q + 5, Put(g, t), r, c))
  <2>1. q + 5 + 1 = q + 6 /\ q + 5 + 2 = q + 7
    OBVIOUS
  <2>2. Good(x, At(IF g = 0 THEN q + 5 + 2 ELSE q + 5 + 1, t, r, c)) /\ Safe(x, At(q + 5, Put(g, t), r, c))
    BY <1>5, <1>10, <1>11, <2>1
  <2> QED
    BY <1>2, <1>4, <1>6, <2>2, SkizRule, Zenon
<1>13. Good(x, At(q + 4, Put(0, Put(e, t)), r, c))
  <2>1. Good(x, At(q + 4 + 1, Put(Same(0, e), t), r, c)) /\ Safe(x, At(q + 4, Put(0, Put(e, t)), r, c))
    BY <1>5, <1>12 DEF g
  <2> QED
    BY <1>1, <1>2, <1>4, <1>6, <2>1, EqRule, Zenon
<1>14. Good(x, At(q + 3, Put(e, t), r, c))
  <2>1. Good(x, At(q + 3 + 1, Put(0, Put(e, t)), r, c)) /\ Safe(x, At(q + 3, Put(e, t), r, c))
    BY <1>5, <1>13
  <2> QED
    BY <1>4, <1>7, <2>1, PushRule, Zenon
<1>15. Good(x, At(q + 2, Put(n, Put(h, t)), r, c))
  <2>1. Good(x, At(q + 2 + 1, Put(Same(n, h), t), r, c)) /\ Safe(x, At(q + 2, Put(n, Put(h, t)), r, c))
    BY <1>5, <1>14 DEF e
  <2> QED
    BY <1>1, <1>4, <1>6, <2>1, EqRule, Zenon
<1>16. Good(x, At(q + 1, Put(h, t), r, c))
  <2>1. Good(x, At(q + 1 + 1, Put(n, Put(h, t)), r, c)) /\ Safe(x, At(q + 1, Put(h, t), r, c))
    BY <1>5, <1>15
  <2> QED
    BY <1>4, <1>7, <2>1, PushRule, Zenon
<1>17. Good(x, At(q, Put(b, Put(h, t)), r, c))
  <2>1. Good(x, At(q + 1, Put(h, t), r, c)) /\ Safe(x, At(q, Put(b, Put(h, t)), r, c))
    BY <1>5, <1>16
  <2> QED
    BY <1>4, <1>7, <2>1, PopOneRule, Zenon
<1> QED
  BY <1>17 DEF t, last

\* What borrow promises, wherever it is executed and whatever RAM holds: if
\* the code behind it goes on well with any n zero cells, the execution goes
\* well from borrow on, which leaves the first of n zero cells on the stack,
\* at the preferred address or by the search, or fails where there are none.
THEOREM BorrowFindsFreeCells ==
    ASSUME NEW x, NEW p \in Nat, NEW n \in 1 .. Order - 1, Preferred + n <= Order, Chunk > 1,
           NEW s \in Deep, NEW r \in Memory, NEW c \in Seq(Nat \X Nat),
           NEW f, NEW z, Searches(x, f, z),
           Placed(x, p, Borrow(n)), Safe(x, At(p, s, r, c)),
           Clear(x, p + 1, p + Len(Borrow(n)) - 1, r),
           x.cells = n, x.start.ram = r, Lent(x, p + Len(Borrow(n)), s, r, c, n)
    PROVE  Good(x, At(p, s, r, c))
<1> DEFINE l == Len(EachChunk(n, Check))
           last == Preferred + n - 1
           t == Put(n, Put(last, Put(n, s)))
<1>1. /\ n \in Words /\ n \in Nat /\ last \in Words /\ 0 \in Words
  BY MachineAssumption, PreferredAssumption DEF Words
<1>2. /\ l \in Nat /\ Len(Borrow(n)) = l + 17
      /\ x.code[p] = <<"push", n>> /\ x.code[p + 1] = <<"push", last>>
      /\ x.code[p + 2] = <<"push", n>> /\ x.code[p + 3] = <<"push", 0>>
      /\ x.code[p + 4] = <<"push", last>>
      /\ Placed(x, p + 5, EachChunk(n, Check)) /\ Placed(x, p + 5 + l, BorrowTail(n))
  <2>1. BorrowAt(x, p, n, l, last)
    BY BorrowCode, Zenon
  <2> HIDE DEF l, last
  <2> QED
    BY <2>1, Zenon DEF BorrowAt
<1> HIDE DEF l, last
<1>3. Put(n, s) \in Deep /\ Put(last, Put(n, s)) \in Deep /\ t \in Deep /\ Put(0, t) \in Deep
  BY <1>1, DeepFacts, Zenon
<1>4. Clear(x, p + 1, p + l + 16, r)
  <2>1. p + (l + 17) - 1 = p + l + 16
    BY <1>2
  <2> QED
    BY <1>2, <2>1
<1>5. \A i \in p + 1 .. p + l + 16 : \A u : Safe(x, At(i, u, r, c))
  BY <1>4, ClearIsSafe
<1>6. p + 1 \in p + 1 .. p + l + 16 /\ p + 2 \in p + 1 .. p + l + 16 /\ p + 3 \in p + 1 .. p + l + 16
      /\ p + 4 \in p + 1 .. p + l + 16
  BY <1>2
<1>7. Clear(x, p + 5, p + 5 + l - 1, r)
  <2>1. p + 1 <= p + 5 /\ p + 5 + l - 1 <= p + l + 16 /\ p + 5 \in Int /\ p + 1 \in Int
        /\ p + 5 + l - 1 \in Int /\ p + l + 16 \in Int
    BY <1>2
  <2> QED
    BY <1>4, <2>1, ClearPart
<1>8. Clear(x, p + 5 + l, p + 5 + l + 11, r)
  <2>1. p + 1 <= p + 5 + l /\ p + 5 + l + 11 <= p + l + 16 /\ p + 5 + l \in Int /\ p + 1 \in Int
        /\ p + 5 + l + 11 \in Int /\ p + l + 16 \in Int
    BY <1>2
  <2> QED
    BY <1>4, <2>1, ClearPart
<1>9. Lent(x, p + 5 + l + 12, s, r, c, n)
  <2>1. l \in Nat
    BY <1>2
  <2>2. p + 5 + l + 12 = p + (l + 17)
    BY <2>1
  <2> QED
    BY <1>2, <2>2
<1>10. ASSUME NEW h \in Words, NEW b \in Words, h = n => Free(r, Preferred, n)
       PROVE  Good(x, At(p + 5 + l, Put(b, Put(h, t)), r, c))
  <2>1. p + 5 + l \in Nat
    BY <1>2
  <2>2. Good(x, At(p + 5 + l, Put(b, Put(h, Put(n, Put(Preferred + n - 1, Put(n, s))))), r, c))
    BY <1>2, <1>8, <1>9, <1>10, <2>1, BorrowChoice, Zenon
  <2> QED
    BY <2>2 DEF last
<1> HIDE DEF t
<1>11. Good(x, At(p + 5, Put(last, Put(0, t)), r, c))
  <2>1. p + 5 \in Nat
    OBVIOUS
  <2>2. Good(x, At(p + 5, Put(Preferred + n - 1, Put(0, t)), r, c))
    BY <1>2, <1>3, <1>7, <1>10, <2>1, ChecksRule, Zenon DEF l
  <2> QED
    BY <2>2 DEF last
<1>12. Good(x, At(p + 4, Put(0, t), r, c))
  <2>1. Good(x, At(p + 4 + 1, Put(last, Put(0, t)), r, c)) /\ Safe(x, At(p + 4, Put(0, t), r, c))
    BY <1>5, <1>6, <1>11
  <2> QED
    BY <1>2, <1>3, <2>1, PushRule, Zenon
<1>13. Good(x, At(p + 3, t, r, c))
  <2>1. Good(x, At(p + 3 + 1, Put(0, t), r, c)) /\ Safe(x, At(p + 3, t, r, c))
    BY <1>5, <1>6, <1>12
  <2> QED
    BY <1>2, <1>3, <2>1, PushRule, Zenon
<1>14. Good(x, At(p + 2, Put(last, Put(n, s)), r, c))
  <2>1. Good(x, At(p + 2 + 1, Put(n, Put(last, Put(n, s))), r, c)) /\ Safe(x, At(p + 2, Put(last, Put(n, s)), r, c))
    BY <1>5, <1>6, <1>13 DEF t
  <2> QED
    BY <1>2, <1>3, <2>1, PushRule, Zenon
<1>15. Good(x, At(p + 1, Put(n, s), r, c))
  <2>1. Good(x, At(p + 1 + 1, Put(last, Put(n, s)), r, c)) /\ Safe(x, At(p + 1, Put(n, s), r, c))
    BY <1>5, <1>6, <1>14
  <2> QED
    BY <1>2, <1>3, <2>1, PushRule, Zenon
<1> QED
  BY <1>2, <1>15, PushRule, Zenon

-----------------------------------------------------------------------------
(* Code for every chunk.                                                   *)

\* piece[d] for every chunk of d words.
Chunkwise(piece, m) == FlattenSeq([i \in DOMAIN Chunks(m) |-> piece[Chunks(m)[i]]])

\* It is code if the pieces are.
LEMMA ChunkwiseType ==
    ASSUME NEW V, NEW piece \in [1 .. Chunk -> Seq(V)], NEW m \in Nat
    PROVE  Chunkwise(piece, m) \in Seq(V)
<1>1. PICK count \in Nat : \E upto \in [0 .. count -> 0 .. m] : Split(m, count, upto)
  BY ChunksSplit, Zenon
<1>2. Chunks(m) \in [1 .. count -> 1 .. Chunk]
  BY <1>1 DEF Split
<1> DEFINE seqs == [i \in DOMAIN Chunks(m) |-> piece[Chunks(m)[i]]]
<1>3. seqs \in [1 .. count -> Seq(V)]
  BY <1>2
<1>4. Chunkwise(piece, m) = FlattenSeq(seqs)
  BY DEF Chunkwise
<1> HIDE DEF seqs
<1> QED
  BY <1>3, <1>4, FlattenType

\* What the code of a chunk passes on from behind it to before it, from u + d
\* words to u, all of it passes on from m words to none.
LEMMA ChunkwiseRule ==
    ASSUME NEW V, NEW piece \in [1 .. Chunk -> Seq(V)], NEW x, NEW p \in Nat, NEW m \in Nat,
           Placed(x, p, Chunkwise(piece, m)), NEW T,
           <<p + Len(Chunkwise(piece, m)), m>> \in T,
           \A d \in 1 .. Chunk : \A u \in 0 .. m - d :
              \A q \in p .. p + Len(Chunkwise(piece, m)) - Len(piece[d]) :
                 Placed(x, q, piece[d]) /\ <<q + Len(piece[d]), u + d>> \in T => <<q, u>> \in T
    PROVE  <<p, 0>> \in T
<1> DEFINE seqs == [i \in DOMAIN Chunks(m) |-> piece[Chunks(m)[i]]]
           l == Len(Chunkwise(piece, m))
<1>1. PICK count \in Nat : \E upto \in [0 .. count -> 0 .. m] : Split(m, count, upto)
  BY ChunksSplit, Zenon
<1>2. PICK upto \in [0 .. count -> 0 .. m] : Split(m, count, upto)
  BY <1>1, Zenon
<1>3. /\ Chunks(m) \in [1 .. count -> 1 .. Chunk]
      /\ upto[0] = 0 /\ upto[count] = m
      /\ \A i \in 1 .. count : upto[i] = upto[i - 1] + Chunks(m)[i]
  BY <1>2, Zenon DEF Split
<1>4. /\ seqs \in [1 .. count -> Seq(V)] /\ Chunkwise(piece, m) = FlattenSeq(seqs)
      /\ \A i \in 1 .. count : seqs[i] = piece[Chunks(m)[i]]
  BY <1>3, Zenon DEF Chunkwise
<1> HIDE DEF seqs
<1>5. PICK off : Laid(x, p, count, seqs, off)
  BY <1>4, PiecesLaid, Zenon
<1>6. off[count] = l /\ off[0] = 0 /\ l \in Nat
  BY <1>4, <1>5 DEF Laid
<1> DEFINE U == {i \in 0 .. count : <<p + off[i], upto[i]>> \in T}
<1>7. count \in U /\ U \in SUBSET (0 .. count)
  <2>1. count \in 0 .. count
    OBVIOUS
  <2>2. <<p + off[count], upto[count]>> \in T
    BY <1>3, <1>6, Zenon
  <2> QED
    BY <2>1, <2>2
<1>8. \A i \in 1 .. count : i \in U => i - 1 \in U
  <2> SUFFICES ASSUME NEW i \in 1 .. count, <<p + off[i], upto[i]>> \in T
               PROVE  i - 1 \in 0 .. count /\ <<p + off[i - 1], upto[i - 1]>> \in T
    BY Zenon
  <2> DEFINE u == upto[i - 1]
             d == Chunks(m)[i]
             f == off[i - 1]
             g == off[i]
             e == Len(piece[d])
  <2>1. i \in 0 .. count /\ i - 1 \in 0 .. count
    OBVIOUS
  <2>2. /\ u \in Nat /\ d \in 1 .. Chunk /\ d \in Nat /\ upto[i] = u + d /\ u + d <= m
    <3>1. u \in 0 .. m /\ upto[i] \in 0 .. m /\ d \in 1 .. Chunk /\ upto[i] = u + d
      BY <1>3, <2>1
    <3>2. Chunk \in Nat
      BY MachineAssumption, Zenon
    <3> HIDE DEF u, d
    <3> QED
      BY <3>1, <3>2
  <2>3. piece[d] \in Seq(V) /\ e \in Nat
    <3>1. piece[d] \in Seq(V)
      BY <2>2, Zenon
    <3> QED
      BY <3>1
  <2>4. f \in Nat /\ g = f + e /\ g <= l /\ Placed(x, p + f, piece[d])
    BY <1>4, <1>5, <1>6, <2>1, Zenon DEF Laid
  <2>5. <<p + g, u + d>> \in T
    BY <2>2
  <2> HIDE DEF u, d, f, g, e, l
  <2>6. u \in 0 .. m - d /\ p + f \in p .. p + l - e /\ p + g = p + f + e
    BY <1>6, <2>2, <2>3, <2>4
  <2>7. <<p + f, u>> \in T
    BY <2>2, <2>4, <2>5, <2>6, Zenon DEF e, l
  <2> QED
    BY <2>1, <2>7 DEF f, u
<1> HIDE DEF U
<1>9. U = 0 .. count
  BY <1>7, <1>8, Downwards, Zenon
<1>10. <<p + off[0], upto[0]>> \in T
  <2>1. 0 \in U
    BY <1>9
  <2> QED
    BY <2>1 DEF U
<1>11. p + off[0] = p /\ upto[0] = 0
  BY <1>3, <1>6
<1> QED
  BY <1>10, <1>11, Zenon

\* The pieces of Batch for write_mem.
Writes == [d \in 1 .. Chunk |-> <<WriteMem(d)>>]

\* Batch is one of them for each chunk.
LEMMA BatchIs ==
    ASSUME NEW m \in Nat
    PROVE  Batch("write_mem", m) = Chunkwise(Writes, m)
<1>1. PICK count \in Nat : \E upto \in [0 .. count -> 0 .. m] : Split(m, count, upto)
  BY ChunksSplit
<1>2. Chunks(m) \in [1 .. count -> 1 .. Chunk]
  BY <1>1 DEF Split
<1>3. \A i \in DOMAIN Chunks(m) : Writes[Chunks(m)[i]] = <<<<"write_mem", Chunks(m)[i]>>>>
  BY <1>2 DEF Writes, WriteMem
<1> QED
  BY <1>3, Zenon DEF Batch, EachChunk, Chunkwise

\* They are code.
LEMMA WritesType == Writes \in [1 .. Chunk -> Seq(Instructions)]
<1>1. \A d \in 1 .. Chunk : d \in Nat
  BY MachineAssumption
<1>2. \A d \in Nat : WriteMem(d) \in Instructions
  BY InstructionsAre
<1>3. \A d \in 1 .. Chunk : <<WriteMem(d)>> \in Seq(Instructions)
  BY <1>1, <1>2
<1> QED
  BY <1>3 DEF Writes

-----------------------------------------------------------------------------
(* Words in borrowed cells.                                                *)

\* RAM with the first k of the words w from address a up.
Part(r, a, w, k) == [b \in Words |-> IF b - a \in 0 .. k - 1 THEN w[b - a + 1] ELSE r[b]]

\* Its cells.
LEMMA PartIs ==
    ASSUME NEW r \in Memory, NEW a \in Nat, NEW w \in Seq(Words), NEW k \in 0 .. Len(w)
    PROVE  /\ Part(r, a, w, k) \in Memory /\ Part(r, a, w, 0) = r
           /\ \A b \in Words : b - a \in 0 .. k - 1 => Part(r, a, w, k)[b] = w[b - a + 1]
           /\ \A b \in Words : b - a \notin 0 .. k - 1 => Part(r, a, w, k)[b] = r[b]
<1>1. \A b \in Words : b \in Int
  BY DEF Words
<1>2. \A b \in Words : b - a \in 0 .. k - 1 => b - a + 1 \in 1 .. Len(w)
  <2> SUFFICES ASSUME NEW b \in Words, b - a \in 0 .. k - 1 PROVE b - a + 1 \in 1 .. Len(w)
    OBVIOUS
  <2> DEFINE i == b - a
             n == Len(w)
  <2>1. n \in Nat /\ k <= n /\ i \in Int /\ k \in Int /\ 0 <= i /\ i <= k - 1
    BY <1>1
  <2> HIDE DEF i, n
  <2>2. i + 1 \in 1 .. n
    BY <2>1
  <2> QED
    BY <2>2 DEF i, n
<1>3. \A b \in Words : b - a \in 0 .. k - 1 => w[b - a + 1] \in Words
  BY <1>2, ElementOfSeq
<1>4. Part(r, a, w, k) \in Memory
  BY <1>3 DEF Part, Memory
<1>5. Part(r, a, w, 0) = r
  <2>1. \A b \in Words : b - a \notin 0 .. 0 - 1
    BY <1>1
  <2> QED
    BY <2>1 DEF Part, Memory
<1> QED
  BY <1>4, <1>5 DEF Part

LEMMA PartType ==
    ASSUME NEW r \in Memory, NEW a \in Nat, NEW w \in Seq(Words), NEW k \in 0 .. Len(w)
    PROVE  Part(r, a, w, k) \in Memory
BY PartIs, Zenon

LEMMA PartStart ==
    ASSUME NEW r \in Memory, NEW a \in Nat, NEW w \in Seq(Words)
    PROVE  Part(r, a, w, 0) = r
<1>1. 0 \in 0 .. Len(w)
  OBVIOUS
<1> QED
  BY <1>1, PartIs, Zenon

LEMMA PartInside ==
    ASSUME NEW r \in Memory, NEW a \in Nat, NEW w \in Seq(Words), NEW k \in 0 .. Len(w),
           NEW b \in Words, b - a \in 0 .. k - 1
    PROVE  Part(r, a, w, k)[b] = w[b - a + 1]
BY PartIs, Zenon

LEMMA PartOutside ==
    ASSUME NEW r \in Memory, NEW a \in Nat, NEW w \in Seq(Words), NEW k \in 0 .. Len(w),
           NEW b \in Words, b - a \notin 0 .. k - 1
    PROVE  Part(r, a, w, k)[b] = r[b]
BY PartIs, Zenon

\* The next d words of w.
Piece(w, k, d) == SubSeq(w, k + 1, k + d)

\* What it has, and what follows it.
LEMMA PieceIs ==
    ASSUME NEW w \in Seq(Words), NEW k \in Nat, NEW d \in Nat, k + d <= Len(w)
    PROVE  /\ Piece(w, k, d) \in Seq(Words) /\ Len(Piece(w, k, d)) = d
           /\ \A i \in 1 .. d : Piece(w, k, d)[i] = w[k + i]
           /\ Over(w, k) = Piece(w, k, d) \o Over(w, k + d)
<1> DEFINE v == Piece(w, k, d)
           n == Len(w)
<1>1. n \in Nat
  OBVIOUS
<1>2. \A i \in k + 1 .. k + d : w[i] \in Words
  <2>1. \A i \in k + 1 .. k + d : i \in 1 .. n
    BY <1>1
  <2> QED
    BY <2>1, ElementOfSeq
<1>3. /\ v \in Seq(Words) /\ Len(v) = IF k + 1 <= k + d THEN k + d - (k + 1) + 1 ELSE 0
      /\ \A i \in 1 .. k + d - (k + 1) + 1 : v[i] = w[k + 1 + i - 1]
  BY <1>2 DEF Piece
<1>4. k + d - (k + 1) + 1 = d
  OBVIOUS
<1>5. Len(v) = d
  BY <1>3, <1>4
<1>6. ASSUME NEW i \in 1 .. d PROVE v[i] = w[k + i]
  <2>1. i \in 1 .. k + d - (k + 1) + 1 /\ k + 1 + i - 1 = k + i
    BY <1>4
  <2>2. v[i] = w[k + 1 + i - 1]
    BY <1>3, <2>1
  <2> HIDE DEF v
  <2> QED
    BY <2>1, <2>2
<1>7. Over(w, k) = v \o Over(w, k + d)
  <2>1. k + 1 \in 1 .. n + 1 /\ k + d \in k + 1 - 1 .. n /\ n \in k + d .. n
    BY <1>1
  <2> DEFINE e == k + d
             b == k + 1
  <2>2. b \in 1 .. n + 1 /\ e \in b - 1 .. n /\ n \in e .. n
    BY <2>1
  <2> HIDE DEF e, b
  <2>3. SubSeq(w, b, e) \o SubSeq(w, e + 1, n) = SubSeq(w, b, n)
    BY <2>2, ConcatAdjacentSubSeq, Zenon
  <2> QED
    BY <2>3, Zenon DEF e, b, Over, Piece
<1> QED
  BY <1>3, <1>5, <1>6, <1>7

\* The next d words of w, the others of w below them, and s below these.
Behind(w, k, d, s) == Piece(w, k, d) \o (Over(w, k + d) \o s)

\* t is u, and v behind it.
Joined(t, u, v) ==
    /\ t \in Seq(Words) /\ Len(t) = Len(u) + Len(v)
    /\ \A i \in 1 .. Len(u) + Len(v) : t[i] = IF i <= Len(u) THEN u[i] ELSE v[i - Len(u)]

\* A concatenation is that.
LEMMA Joining ==
    ASSUME NEW u \in Seq(Words), NEW v \in Seq(Words), NEW t, t = u \o v
    PROVE  Joined(t, u, v)
BY ConcatProperties DEF Joined

\* The order of two concatenations.
Regrouped(u, v, w) == (u \o v) \o w = u \o (v \o w)

LEMMA Regrouping ==
    ASSUME NEW u \in Seq(Words), NEW v \in Seq(Words), NEW w \in Seq(Words)
    PROVE  Regrouped(u, v, w)
BY ConcatAssociative, SMTT(30) DEF Regrouped

\* The words from k on are the next d and the others.
LEMMA OverSplit ==
    ASSUME NEW w \in Seq(Words), NEW s \in Seq(Words), NEW k \in Nat, NEW d \in Nat, k + d <= Len(w)
    PROVE  Over(w, k) \o s = Behind(w, k, d, s)
<1> DEFINE v == Piece(w, k, d)
           o == Over(w, k + d)
<1>1. v \in Seq(Words) /\ Over(w, k) = v \o o
  BY PieceIs, Zenon
<1>2. o \in Seq(Words)
  <2>1. k + d \in Nat
    OBVIOUS
  <2> QED
    BY <2>1, OverIs
<1> HIDE DEF v, o
<1>3. (v \o o) \o s = v \o (o \o s)
  <2>1. v \in Seq(Words) /\ o \in Seq(Words) /\ s \in Seq(Words)
    BY <1>1, <1>2
  <2>2. Regrouped(v, o, s)
    BY <2>1, Regrouping
  <2> QED
    BY <2>2 DEF Regrouped
<1> QED
  BY <1>1, <1>3, Zenon DEF v, o, Behind

\* The next d words are stored.
LEMMA PartMore ==
    ASSUME NEW r \in Memory, NEW a \in Nat, NEW w \in Seq(Words), NEW k \in Nat, NEW d \in Nat, d # 0,
           k + d <= Len(w), a + Len(w) <= Order
    PROVE  /\ Plus(a, k) = a + k
           /\ Stored(Part(r, a, w, k), Plus(a, k), Piece(w, k, d)) = Part(r, a, w, k + d)
<1> DEFINE v == Piece(w, k, d)
           n == Len(w)
<1>1. n \in Nat /\ Order \in Nat
  BY MachineAssumption
<1>2. a + k \in Words /\ a + k \in Int
  BY <1>1 DEF Words
<1>3. Plus(a, k) = a + k
  BY <1>2, Residues DEF Plus
<1>4. Len(v) = d /\ \A i \in 1 .. d : v[i] = w[k + i]
  <2>1. d \in Nat /\ w \in Seq(Words)
    OBVIOUS
  <2> QED
    BY <2>1, PieceIs, Zenon
<1> HIDE DEF v
<1>5. ASSUME NEW b \in Words
      PROVE  (IF (b - (a + k)) % Order < d THEN v[((b - (a + k)) % Order) + 1] ELSE Part(r, a, w, k)[b])
               = Part(r, a, w, k + d)[b]
  <2> DEFINE i == b - (a + k)
             j == i % Order
  <2>1. b \in Nat /\ b < Order /\ i \in Int
    BY <1>1 DEF Words
  <2>2. CASE i \in 0 .. d - 1
    <3>1. i \in Words
      BY <1>1, <2>1, <2>2 DEF Words
    <3>2. j = i
      BY <3>1, <2>1, Residues
    <3>3. b - a \in 0 .. k + d - 1 /\ k + (i + 1) = b - a + 1 /\ i + 1 \in 1 .. d /\ i < d
      BY <2>1, <2>2
    <3>4. v[i + 1] = w[b - a + 1]
      BY <1>4, <3>3
    <3>5. Part(r, a, w, k + d)[b] = w[b - a + 1]
      BY <3>3 DEF Part
    <3> HIDE DEF i, j
    <3>6. j < d /\ v[j + 1] = w[b - a + 1]
      BY <3>2, <3>3, <3>4
    <3> QED
      BY <3>5, <3>6 DEF i, j
  <2>3. CASE i >= d
    <3>1. i \in Words
      BY <1>1, <2>1, <2>3 DEF Words
    <3>2. j = i
      BY <3>1, <2>1, Residues
    <3>3. b - a \notin 0 .. k + d - 1 /\ b - a \notin 0 .. k - 1 /\ ~(i < d)
      BY <2>1, <2>3
    <3>4. Part(r, a, w, k + d)[b] = r[b] /\ Part(r, a, w, k)[b] = r[b]
      BY <3>3 DEF Part
    <3> HIDE DEF i, j
    <3>5. ~(j < d)
      BY <3>2, <3>3
    <3> QED
      BY <3>4, <3>5 DEF i, j
  <2>4. CASE i < 0
    <3>1. - Order <= i
      BY <1>1, <2>1
    <3>2. j = i + Order
      BY <2>1, <2>4, <3>1, Negative
    <3>3. ~(i + Order < d)
      BY <1>1, <2>1, <2>4
    <3>4. b - a \in 0 .. k - 1 <=> b - a \in 0 .. k + d - 1
      BY <2>1, <2>4
    <3>5. Part(r, a, w, k + d)[b] = Part(r, a, w, k)[b]
      BY <3>4 DEF Part
    <3> HIDE DEF i, j
    <3>6. ~(j < d)
      BY <3>2, <3>3
    <3> QED
      BY <3>5, <3>6 DEF i, j
  <2>5. i \in Int /\ d \in Nat
    BY <2>1
  <2> HIDE DEF i, j
  <2>6. i \in 0 .. d - 1 \/ i >= d \/ i < 0
    BY <2>5
  <2> QED
    BY <2>2, <2>3, <2>4, <2>6, Zenon
<1>6. Stored(Part(r, a, w, k), a + k, v)
        = [b \in Words |-> IF (b - (a + k)) % Order < d THEN v[((b - (a + k)) % Order) + 1]
                           ELSE Part(r, a, w, k)[b]]
  BY <1>4 DEF Stored
<1>7. Part(r, a, w, k + d) = [b \in Words |-> Part(r, a, w, k + d)[b]]
  BY DEF Part
<1>8. Stored(Part(r, a, w, k), a + k, v) = Part(r, a, w, k + d)
  BY <1>5, <1>6, <1>7
<1> QED
  BY <1>3, <1>8 DEF v

\* All the words stored.
LEMMA StoredIsPart ==
    ASSUME NEW r \in Memory, NEW a \in Nat, NEW w \in Seq(Words), w # <<>>, a + Len(w) <= Order
    PROVE  Stored(r, a, w) = Part(r, a, w, Len(w))
<1> DEFINE n == Len(w)
<1>1. n \in Nat \ {0} /\ n <= Len(w) /\ Len(w) = n /\ 0 + n = n
  BY EmptySeq
<1>2. Piece(w, 0, n) = w
  <2>1. 0 + 1 = 1 /\ 0 + n = n
    BY <1>1
  <2> QED
    BY <2>1, SubSeqFull DEF Piece
<1>3. Part(r, a, w, 0) = r /\ 0 \in 0 .. Len(w)
  BY <1>1, PartStart
<1>4. Plus(a, 0) = a + 0 /\ Stored(Part(r, a, w, 0), Plus(a, 0), Piece(w, 0, n)) = Part(r, a, w, 0 + n)
  <2>1. 0 \in Nat /\ n \in Nat /\ n # 0 /\ 0 + n <= Len(w)
    BY <1>1
  <2> HIDE DEF n
  <2> QED
    BY <2>1, PartMore
<1>5. Plus(a, 0) = a
  BY <1>4
<1> QED
  BY <1>1, <1>2, <1>3, <1>4, <1>5

\* RAM when the next d words of w are stored as well.
Grows(r, a, w, k, d) ==
    /\ Plus(a, k) = a + k /\ a + k + d <= Order
    /\ Stored(Part(r, a, w, k), a + k, Piece(w, k, d)) = Part(r, a, w, k + d)
    /\ Part(Part(r, a, w, k), a + k, Piece(w, k, d), d) = Part(r, a, w, k + d)

\* So many words more are stored by write_mem.
LEMMA PartSplit ==
    ASSUME NEW r \in Memory, NEW a \in Nat, NEW w \in Seq(Words), NEW k \in Nat, NEW d \in Nat, d # 0,
           k + d <= Len(w), a + Len(w) <= Order
    PROVE  Grows(r, a, w, k, d)
<1>1. Plus(a, k) = a + k /\ Stored(Part(r, a, w, k), a + k, Piece(w, k, d)) = Part(r, a, w, k + d)
  BY PartMore
<1>2. Len(w) \in Nat /\ Order \in Nat
  BY MachineAssumption
<1>3. a + k + d <= Order /\ a + k \in Nat /\ k \in 0 .. Len(w)
  BY <1>2
<1>4. Part(r, a, w, k) \in Memory
  BY <1>3, PartType
<1>5. Piece(w, k, d) \in Seq(Words) /\ Len(Piece(w, k, d)) = d
  <2>1. w \in Seq(Words) /\ d \in Nat
    OBVIOUS
  <2> QED
    BY <2>1, PieceIs
<1>6. Piece(w, k, d) # <<>>
  BY <1>5, EmptySeq
<1> QED
  BY <1>1, <1>3, <1>4, <1>5, <1>6, StoredIsPart, Zenon DEF Grows

\* Positions of the piece of code.
Inside(x, lo, hi) == \A i \in lo .. hi : i \in x.inside

\* Whatever is in borrowed cells, the cells in use are as they were.
Elsewhere(m, r, a, n) == \A b \in Words : b - a \notin 0 .. n - 1 => m[b] = r[b]

\* So the machine is safe in the piece with that RAM.
LEMMA BorrowedIsSafe ==
    ASSUME NEW x, NEW lo, NEW hi, Inside(x, lo, hi), NEW r \in Memory, NEW n \in Nat, NEW a \in Nat,
           x.cells = n, x.start.ram = r, Free(r, a, n), NEW m \in Memory, Elsewhere(m, r, a, n)
    PROVE  Clear(x, lo, hi, m)
<1>1. Kept(r, m)
  <2> SUFFICES ASSUME NEW b \in Words, r[b] # 0 PROVE m[b] = r[b]
    BY DEF Kept
  <2>1. b - a \notin 0 .. n - 1
    <3> SUFFICES ASSUME b - a \in 0 .. n - 1 PROVE FALSE
      OBVIOUS
    <3>1. b \in Int
      BY DEF Words
    <3>2. a + (b - a) = b
      BY <3>1
    <3> QED
      BY <3>2, Zenon DEF Free
  <2> QED
    BY <2>1 DEF Elsewhere
<1>2. Kept(x.start.ram, m)
  BY <1>1
<1> QED
  BY <1>2 DEF Clear, Calm, Inside

\* The words that are in the way are moved to the cells.
LEMMA SpillRule ==
    ASSUME NEW x, NEW p \in Nat, NEW n \in Nat, NEW r \in Memory, NEW a \in Nat, Free(r, a, n),
           NEW w \in Seq(Words), NEW m \in Nat, Len(w) = m, m <= n, NEW s \in Deep, NEW c,
           Placed(x, p, Batch("write_mem", m)),
           Inside(x, p, p + Len(Batch("write_mem", m)) - 1),
           x.cells = n, x.start.ram = r,
           Good(x, At(p + Len(Batch("write_mem", m)), Put(Plus(a, m), s), Part(r, a, w, m), c))
    PROVE  Good(x, At(p, Put(Plus(a, 0), w \o s), r, c))
<1> DEFINE l == Len(Batch("write_mem", m))
           T == {e \in Nat \X (0 .. m) :
                   Good(x, At(e[1], Put(Plus(a, e[2]), Over(w, e[2]) \o s), Part(r, a, w, e[2]), c))}
<1>1. Batch("write_mem", m) = Chunkwise(Writes, m) /\ Writes \in [1 .. Chunk -> Seq(Instructions)]
  BY BatchIs, WritesType
<1>2. l \in Nat
  <2>1. Chunkwise(Writes, m) \in Seq(Instructions)
    BY <1>1, ChunkwiseType
  <2> QED
    BY <1>1, <2>1
<1>3. Order \in Nat /\ a + n <= Order /\ a + Len(w) <= Order /\ s \in Seq(Words)
  BY MachineAssumption DEF Free, Deep
<1>4. s \in Seq(Words)
  BY <1>3
<1>5. a + Len(w) <= Order
  BY <1>3
<1>6. ASSUME NEW d \in Nat, d # 0, NEW u \in Nat, u + d <= Len(w)
       PROVE  /\ Piece(w, u, d) \in Seq(Words) /\ Len(Piece(w, u, d)) = d
              /\ Over(w, u) \o s = Piece(w, u, d) \o (Over(w, u + d) \o s)
              /\ Plus(a, u) = a + u /\ Stored(Part(r, a, w, u), Plus(a, u), Piece(w, u, d)) = Part(r, a, w, u + d)
              /\ Plus(a, u) + d <= Order
  <2>1. d \in Nat
    OBVIOUS
  <2>2. Piece(w, u, d) \in Seq(Words) /\ Len(Piece(w, u, d)) = d
    BY <1>6, <2>1, PieceIs, Zenon
  <2>3. Over(w, u) \o s = Behind(w, u, d, s)
    BY <1>4, <1>6, <2>1, OverSplit, Zenon
  <2>4. Grows(r, a, w, u, d)
    BY <1>5, <1>6, PartSplit, Zenon
  <2> QED
    BY <2>2, <2>3, <2>4 DEF Behind, Grows
<1>7. Part(r, a, w, 0) = r
  BY PartStart, Zenon
<1>8. /\ Over(w, 0) \o s = w \o s /\ Over(w, m) \o s = s
      /\ \A i \in 0 .. m : Over(w, i) \in Seq(Words) /\ Over(w, i) \o s \in Deep
  BY OverHead, Zenon
<1>9. \A k \in 0 .. m : Part(r, a, w, k) \in Memory /\ Clear(x, p, p + l - 1, Part(r, a, w, k))
  <2> SUFFICES ASSUME NEW k \in 0 .. m
               PROVE  Part(r, a, w, k) \in Memory /\ Clear(x, p, p + l - 1, Part(r, a, w, k))
    OBVIOUS
  <2>1. /\ Part(r, a, w, k) \in Memory
        /\ \A b \in Words : b - a \notin 0 .. k - 1 => Part(r, a, w, k)[b] = r[b]
    BY PartType, PartOutside
  <2>2. \A b \in Words : b - a \notin 0 .. n - 1 => b - a \notin 0 .. k - 1
    <3>1. k <= n /\ k \in Int
      OBVIOUS
    <3> HIDE DEF l
    <3> QED
      BY <3>1
  <2>3. Elsewhere(Part(r, a, w, k), r, a, n)
    BY <2>1, <2>2, Zenon DEF Elsewhere
  <2> QED
    BY <2>1, <2>3, BorrowedIsSafe
<1> HIDE DEF l
<1>10. <<p + l, m>> \in T
  <2>1. p + l \in Nat /\ m \in 0 .. m
    BY <1>2
  <2>2. Good(x, At(p + l, Put(Plus(a, m), Over(w, m) \o s), Part(r, a, w, m), c))
    BY <1>8 DEF l
  <2> QED
    BY <2>1, <2>2
<1>11. ASSUME NEW d \in 1 .. Chunk, NEW u \in 0 .. m - d, NEW q \in p .. p + l - Len(Writes[d]),
             Placed(x, q, Writes[d]), <<q + Len(Writes[d]), u + d>> \in T
      PROVE  <<q, u>> \in T
  <2> DEFINE v == Piece(w, u, d)
             t == Over(w, u + d) \o s
             R == Part(r, a, w, u)
             b == Plus(a, u)
  <2>1. d # 0 /\ d \in Nat /\ u \in Nat /\ u + d \in 0 .. m /\ u \in 0 .. m /\ u + d <= Len(w)
    BY MachineAssumption
  <2>2. /\ v \in Seq(Words) /\ Len(v) = d /\ Over(w, u) \o s = v \o t
    BY <1>6, <2>1, Zenon
  <2>3. b = a + u /\ Stored(R, b, v) = Part(r, a, w, u + d) /\ b + d <= Order
    BY <1>6, <2>1
  <2>4. b \in Words /\ (b + d) % Order = Plus(a, u + d)
    <3>1. b \in Nat /\ b < Order
      BY <1>3, <2>1, <2>3
    <3>2. b + d = a + (u + d)
      BY <2>1, <2>3
    <3> HIDE DEF b
    <3>3. b \in Words
      BY <1>3, <3>1 DEF Words
    <3> QED
      BY <3>2, <3>3 DEF Plus
  <2>5. t \in Deep
    BY <1>8, <2>1
  <2>6. Len(Writes[d]) = 1 /\ Writes[d][1] = <<"write_mem", d>>
    BY DEF Writes, WriteMem
  <2>7. x.code[q] = <<"write_mem", d>> /\ q \in p .. p + l - 1 /\ q \in Nat
    <3>1. x.code[q + 1 - 1] = Writes[d][1]
      <4>1. 1 \in 1 .. Len(Writes[d])
        BY <2>6
      <4> QED
        BY <1>11, <4>1, Zenon DEF Placed
    <3>2. q + 1 - 1 = q /\ q \in p .. p + l - 1 /\ q \in Nat
      BY <2>6
    <3> QED
      BY <2>6, <3>1, <3>2
  <2>8. Good(x, At(q + 1, Put(Plus(a, u + d), t), Part(r, a, w, u + d), c))
    BY <1>11, <2>6
  <2>9. Clear(x, p, p + l - 1, R)
    BY <1>9, <2>1
  <2> HIDE DEF v, t, R, b, T
  <2>10. Good(x, At(q + 1, Put((b + d) % Order, t), Stored(R, b, v), c)) /\ Safe(x, At(q, Put(b, v \o t), R, c))
    <3>1. Safe(x, At(q, Put(b, v \o t), R, c))
      BY <2>7, <2>9, ClearIsSafe
    <3> QED
      BY <2>3, <2>4, <2>8, <3>1
  <2>11. Good(x, At(q, Put(b, v \o t), R, c))
    BY <2>2, <2>4, <2>5, <2>7, <2>10, WriteRule, Zenon
  <2>12. Good(x, At(q, Put(Plus(a, u), Over(w, u) \o s), Part(r, a, w, u), c))
    BY <2>2, <2>11 DEF b, R
  <2> QED
    BY <2>1, <2>7, <2>12, Zenon DEF T
<1> HIDE DEF T
<1>12. <<p, 0>> \in T
  <2>1. \A d \in 1 .. Chunk : \A u \in 0 .. m - d :
           \A q \in p .. p + Len(Chunkwise(Writes, m)) - Len(Writes[d]) :
              Placed(x, q, Writes[d]) /\ <<q + Len(Writes[d]), u + d>> \in T => <<q, u>> \in T
    BY <1>1, <1>11 DEF l
  <2>2. <<p + Len(Chunkwise(Writes, m)), m>> \in T /\ Placed(x, p, Chunkwise(Writes, m))
    BY <1>1, <1>10, Zenon DEF l
  <2> QED
    BY <1>1, <2>1, <2>2, ChunkwiseRule, Zenon
<1>13. Good(x, At(p, Put(Plus(a, 0), Over(w, 0) \o s), Part(r, a, w, 0), c))
  BY <1>12 DEF T
<1> QED
  BY <1>7, <1>8, <1>13, Zenon

-----------------------------------------------------------------------------
(* Giving the cells back.                                                  *)

\* Each of several pieces passes it on from behind it to before it.
PassesBack(T, x, p, n, seqs) ==
    \A i \in 1 .. n : \A q \in p .. p + Len(FlattenSeq(seqs)) - Len(seqs[i]) :
       Placed(x, q, seqs[i]) /\ <<q + Len(seqs[i]), i>> \in T => <<q, i - 1>> \in T

\* Then all of them do.
LEMMA PiecesRule ==
    ASSUME NEW V, NEW n \in Nat, NEW seqs \in [1 .. n -> Seq(V)], NEW x, NEW p \in Nat,
           Placed(x, p, FlattenSeq(seqs)), NEW T, <<p + Len(FlattenSeq(seqs)), n>> \in T,
           PassesBack(T, x, p, n, seqs)
    PROVE  <<p, 0>> \in T
<1> DEFINE l == Len(FlattenSeq(seqs))
<1>1. PICK off : Laid(x, p, n, seqs, off)
  BY PiecesLaid, Zenon
<1>2. off[n] = l /\ off[0] = 0 /\ l \in Nat
  BY <1>1 DEF Laid
<1> DEFINE U == {i \in 0 .. n : <<p + off[i], i>> \in T}
<1>3. n \in U /\ U \in SUBSET (0 .. n)
  <2>1. n \in 0 .. n
    OBVIOUS
  <2>2. <<p + off[n], n>> \in T
    BY <1>2
  <2> QED
    BY <2>1, <2>2
<1>4. \A i \in 1 .. n : i \in U => i - 1 \in U
  <2> SUFFICES ASSUME NEW i \in 1 .. n, <<p + off[i], i>> \in T
               PROVE  i - 1 \in 0 .. n /\ <<p + off[i - 1], i - 1>> \in T
    OBVIOUS
  <2> DEFINE f == off[i - 1]
             g == off[i]
             e == Len(seqs[i])
  <2>1. i \in 0 .. n /\ i - 1 \in 0 .. n
    OBVIOUS
  <2>2. e \in Nat
    <3>1. seqs[i] \in Seq(V)
      OBVIOUS
    <3> QED
      BY <3>1
  <2>3. f \in Nat /\ g = f + e /\ g <= l /\ Placed(x, p + f, seqs[i])
    BY <1>1, <1>2, <2>1 DEF Laid
  <2>4. <<p + g, i>> \in T
    OBVIOUS
  <2> HIDE DEF f, g, e, l
  <2>5. p + f \in p .. p + l - e /\ p + g = p + f + e
    BY <1>2, <2>2, <2>3
  <2>6. <<p + f, i - 1>> \in T
    BY <2>3, <2>4, <2>5, Zenon DEF e, l, PassesBack
  <2> QED
    BY <2>1, <2>6 DEF f
<1> HIDE DEF U
<1>5. U = 0 .. n
  BY <1>3, <1>4, Downwards, Zenon
<1>6. 0 \in U
  BY <1>5
<1>7. <<p + off[0], 0>> \in T
  BY <1>6 DEF U
<1>8. p + off[0] = p
  BY <1>2
<1> QED
  BY <1>7, <1>8, Zenon

\* n zeros.
Zeros(n) == [i \in 1 .. n |-> 0]

\* They go onto a stack one by one.
LEMMA ZerosAre ==
    ASSUME NEW n \in Nat, NEW t \in Deep
    PROVE  /\ Zeros(n) \in Seq(Words) /\ Len(Zeros(n)) = n /\ Zeros(n) \o t \in Deep
           /\ Zeros(0) \o t = t
           /\ Zeros(n + 1) \o t = Put(0, Zeros(n) \o t)
<1>1. t \in Seq(Words) /\ Len(t) \in Nat /\ Len(t) >= Window /\ Window \in Nat /\ 0 \in Words
  BY DeepFacts DEF Words
<1>2. \A m \in Nat : Zeros(m) \in Seq(Words) /\ Len(Zeros(m)) = m
  BY <1>1 DEF Zeros
<1>3. Zeros(n) \o t \in Deep
  <2> DEFINE z == Zeros(n)
  <2>1. z \in Seq(Words) /\ Len(z) = n
    BY <1>2
  <2> HIDE DEF z
  <2>2. z \o t \in Seq(Words) /\ Len(z \o t) = n + Len(t)
    BY <1>1, <2>1, ConcatProperties, Zenon
  <2>3. z \o t \in Deep
    BY <1>1, <2>2 DEF Deep
  <2> QED
    BY <2>3 DEF z
<1>4. Zeros(0) \o t = t
  <2>1. Zeros(0) = <<>>
    BY DEF Zeros
  <2> QED
    BY <1>1, <2>1, ConcatEmptySeq
<1>5. Zeros(n + 1) = Put(0, Zeros(n))
  <2> DEFINE z == Zeros(n)
             y == Zeros(n + 1)
  <2>1. z \in Seq(Words) /\ Len(z) = n /\ y \in Seq(Words) /\ Len(y) = n + 1
    BY <1>2
  <2>2. (\A i \in 1 .. n : z[i] = 0) /\ (\A i \in 1 .. n + 1 : y[i] = 0)
    BY DEF Zeros
  <2> HIDE DEF z, y
  <2>3. /\ Put(0, z) \in Seq(Words) /\ Len(Put(0, z)) = n + 1 /\ Put(0, z)[1] = 0
        /\ \A i \in 1 .. n : Put(0, z)[i + 1] = z[i]
    BY <1>1, <2>1, PutFacts, Zenon
  <2>4. ASSUME NEW i \in 1 .. n + 1 PROVE Put(0, z)[i] = y[i]
    <3>1. CASE i = 1
      BY <2>2, <2>3, <3>1
    <3>2. CASE i > 1
      <4> DEFINE j == i - 1
      <4>1. j \in 1 .. n /\ j + 1 = i
        BY <3>2
      <4> HIDE DEF j
      <4>2. Put(0, z)[j + 1] = 0
        BY <2>2, <2>3, <4>1, Zenon
      <4> QED
        BY <2>2, <4>1, <4>2
    <3> QED
      BY <3>1, <3>2
  <2>5. Put(0, z) = y
    BY <2>1, <2>3, <2>4, SeqEqual
  <2> QED
    BY <2>5 DEF z, y
<1>6. Put(0, Zeros(n)) \o t = Put(0, Zeros(n) \o t)
  BY <1>1, <1>2, PutOrder, Zenon
<1> QED
  BY <1>2, <1>3, <1>4, <1>5, <1>6, Zenon

\* Code that pushes n zeros.
Blank(n) == Times(n, <<Push(0)>>)

\* It is code.
LEMMA BlankIs ==
    ASSUME NEW n \in Nat
    PROVE  /\ Blank(n) = FlattenSeq([i \in 1 .. n |-> <<Push(0)>>])
           /\ Blank(n) \in Seq(Instructions) /\ Len(Blank(n)) \in Nat
<1> DEFINE seqs == [i \in 1 .. n |-> <<Push(0)>>]
<1>1. <<Push(0)>> \in Seq(Instructions)
  BY InstructionsAre
<1>2. seqs \in [1 .. n -> Seq(Instructions)] /\ Blank(n) = FlattenSeq(seqs)
  BY <1>1 DEF Blank, Times
<1> HIDE DEF seqs
<1>3. Blank(n) \in Seq(Instructions)
  BY <1>2, FlattenType
<1>4. Len(Blank(n)) \in Nat
  BY <1>3
<1> QED
  BY <1>2, <1>3, <1>4 DEF seqs

\* It does.
LEMMA BlankRule ==
    ASSUME NEW x, NEW p \in Nat, NEW n \in Nat, NEW t \in Deep, NEW r, NEW c,
           Placed(x, p, Blank(n)), Clear(x, p, p + Len(Blank(n)) - 1, r),
           Good(x, At(p + Len(Blank(n)), Zeros(n) \o t, r, c))
    PROVE  Good(x, At(p, t, r, c))
<1> DEFINE seqs == [i \in 1 .. n |-> <<Push(0)>>]
           l == Len(Blank(n))
           T == {e \in Nat \X (0 .. n) : Good(x, At(e[1], Zeros(e[2]) \o t, r, c))}
<1>1. Blank(n) = FlattenSeq(seqs) /\ l \in Nat
  BY BlankIs
<1>2. <<Push(0)>> \in Seq(Instructions) /\ Len(<<Push(0)>>) = 1 /\ <<Push(0)>>[1] = <<"push", 0>>
  <2>1. Literal(0) = 0
    BY LiteralIs, MachineAssumption DEF Words
  <2> QED
    BY <2>1, InstructionsAre DEF Push
<1>3. /\ seqs \in [1 .. n -> Seq(Instructions)]
      /\ \A i \in 1 .. n : seqs[i] = <<Push(0)>>
  BY <1>2
<1>4. \A i \in 1 .. n : Len(seqs[i]) = 1 /\ seqs[i][1] = <<"push", 0>>
  BY <1>2, <1>3
<1> HIDE DEF seqs, l
<1>5. <<p + l, n>> \in T
  <2>1. p + l \in Nat /\ n \in 0 .. n
    BY <1>1
  <2>2. Good(x, At(p + l, Zeros(n) \o t, r, c))
    BY DEF l
  <2> QED
    BY <2>1, <2>2
<1>6. ASSUME NEW i \in 1 .. n, NEW q \in p .. p + l - Len(seqs[i]),
             Placed(x, q, seqs[i]), <<q + Len(seqs[i]), i>> \in T
      PROVE  <<q, i - 1>> \in T
  <2> DEFINE j == i - 1
             s == Zeros(j) \o t
  <2>1. j \in Nat /\ j \in 0 .. n /\ j + 1 = i
    OBVIOUS
  <2>2. Len(seqs[i]) = 1 /\ seqs[i][1] = <<"push", 0>>
    BY <1>4
  <2>3. x.code[q] = <<"push", 0>> /\ q \in p .. p + l - 1 /\ q \in Nat
    <3>1. x.code[q + 1 - 1] = seqs[i][1]
      <4>1. 1 \in 1 .. Len(seqs[i])
        BY <2>2
      <4> QED
        BY <1>6, <4>1 DEF Placed
    <3>2. q + 1 - 1 = q /\ q \in p .. p + l - 1 /\ q \in Nat
      BY <2>2
    <3> QED
      BY <2>2, <3>1, <3>2
  <2>4. Good(x, At(q + 1, Zeros(i) \o t, r, c))
    BY <1>6, <2>2
  <2> HIDE DEF j, T
  <2>5. s \in Deep /\ Zeros(j + 1) \o t = Put(0, s)
    BY <2>1, ZerosAre, Zenon
  <2>6. Good(x, At(q + 1, Put(0, s), r, c))
    BY <2>1, <2>4, <2>5, Zenon
  <2>7. Safe(x, At(q, s, r, c))
    BY <2>3, ClearIsSafe, Zenon DEF l
  <2> HIDE DEF s
  <2>8. Good(x, At(q, s, r, c))
    BY <2>3, <2>5, <2>6, <2>7, PushRule, Zenon
  <2>9. <<q, j>> \in T
    BY <2>1, <2>3, <2>8 DEF T, s
  <2> QED
    BY <2>9 DEF j
<1> HIDE DEF T
<1>7. <<p, 0>> \in T
  <2>1. PassesBack(T, x, p, n, seqs)
    BY <1>1, <1>6 DEF l, PassesBack
  <2>2. <<p + Len(FlattenSeq(seqs)), n>> \in T /\ Placed(x, p, FlattenSeq(seqs))
    BY <1>1, <1>5 DEF l
  <2> QED
    BY <1>3, <2>1, <2>2, PiecesRule, Zenon
<1>8. Good(x, At(p, Zeros(0) \o t, r, c))
  BY <1>7 DEF T
<1>9. Zeros(0) \o t = t
  BY ZerosAre, Zenon
<1> QED
  BY <1>8, <1>9, Zenon

\* What restore does with a chunk.
Undo(d) == <<ReadMem(d)>> \o Blank(d) \o <<Dup(d), Push(1), Add, WriteMem(d), Pop(1)>>

\* The code of Undo is at p, l instructions of it Blank.
UndoAt(x, p, n, l) ==
    /\ l \in Nat /\ Len(Undo(n)) = l + 6
    /\ x.code[p] = <<"read_mem", n>> /\ Placed(x, p + 1, Blank(n))
    /\ x.code[p + 1 + l] = <<"dup", n>> /\ x.code[p + 2 + l] = <<"push", 1>>
    /\ x.code[p + 3 + l] = <<"add", 0>> /\ x.code[p + 4 + l] = <<"write_mem", n>>
    /\ x.code[p + 5 + l] = <<"pop", 1>>

\* Where its parts are.
LEMMA UndoCode ==
    ASSUME NEW x, NEW p \in Nat, NEW n \in Nat, Placed(x, p, Undo(n)), 1 \in Words
    PROVE  UndoAt(x, p, n, Len(Blank(n)))
<1> DEFINE a == <<ReadMem(n)>>
           b == Blank(n)
           d == <<Dup(n), Push(1), Add, WriteMem(n), Pop(1)>>
           e == a \o b
           l == Len(b)
<1>1. a \in Seq(Instructions) /\ d \in Seq(Instructions)
  <2>1. /\ ReadMem(n) \in Instructions /\ Dup(n) \in Instructions /\ Push(1) \in Instructions
        /\ Add \in Instructions /\ WriteMem(n) \in Instructions /\ Pop(1) \in Instructions
    BY InstructionsAre
  <2> QED
    BY <2>1
<1>2. b \in Seq(Instructions) /\ l \in Nat
  BY BlankIs, Zenon
<1>3. /\ Len(a) = 1 /\ a[1] = <<"read_mem", n>> /\ Len(d) = 5 /\ d[1] = <<"dup", n>>
      /\ d[2] = <<"push", 1>> /\ d[3] = <<"add", 0>> /\ d[4] = <<"write_mem", n>> /\ d[5] = <<"pop", 1>>
  <2>1. Literal(1) = 1
    BY LiteralIs
  <2> QED
    BY <2>1 DEF ReadMem, Dup, Push, Add, WriteMem, Pop
<1>4. Undo(n) = e \o d /\ e = a \o b /\ l = Len(b)
  BY DEF Undo
<1> HIDE DEF a, b, d, e, l
<1>5. e \in Seq(Instructions)
  BY <1>1, <1>2, <1>4, ConcatProperties
<1>6. Placed(x, p, e \o d)
  BY <1>4
<1>7. Placed(x, p, e) /\ Placed(x, p + Len(e), d) /\ Len(e \o d) = Len(e) + Len(d)
  BY <1>1, <1>5, <1>6, PlacedConcat
<1>8. Placed(x, p, a \o b)
  BY <1>4, <1>7
<1>9. Placed(x, p, a) /\ Placed(x, p + Len(a), b) /\ Len(a \o b) = Len(a) + Len(b)
  BY <1>1, <1>2, <1>8, PlacedConcat
<1>10. Len(e) = 1 + l
  BY <1>3, <1>4, <1>9
<1>11. Len(Undo(n)) = l + 6
  <2> DEFINE v == Len(e)
             f == Len(d)
  <2>1. Len(Undo(n)) = v + f /\ v = 1 + l /\ f = 5 /\ l \in Nat
    BY <1>2, <1>3, <1>4, <1>7, <1>10
  <2> HIDE DEF v, f
  <2>2. v + f = l + 6
    BY <2>1
  <2> QED
    BY <2>1, <2>2
<1>12. x.code[p] = a[1]
  <2>1. p + 1 - 1 = p
    OBVIOUS
  <2>2. x.code[p + 1 - 1] = a[1]
    BY <1>3, <1>9 DEF Placed
  <2> QED
    BY <2>1, <2>2
<1>13. \A j \in 1 .. 5 : x.code[p + (1 + l) + j - 1] = d[j]
  BY <1>3, <1>7, <1>10, Zenon DEF Placed
<1>14. /\ x.code[p + (1 + l) + 1 - 1] = d[1] /\ x.code[p + (1 + l) + 2 - 1] = d[2]
       /\ x.code[p + (1 + l) + 3 - 1] = d[3] /\ x.code[p + (1 + l) + 4 - 1] = d[4]
       /\ x.code[p + (1 + l) + 5 - 1] = d[5]
  BY <1>13
<1>15. l \in Nat
  BY <1>2
<1>16. /\ p + (1 + l) + 1 - 1 = p + 1 + l /\ p + (1 + l) + 2 - 1 = p + 2 + l
       /\ p + (1 + l) + 3 - 1 = p + 3 + l /\ p + (1 + l) + 4 - 1 = p + 4 + l
       /\ p + (1 + l) + 5 - 1 = p + 5 + l
  BY <1>15
<1>17. /\ x.code[p + 1 + l] = d[1] /\ x.code[p + 2 + l] = d[2] /\ x.code[p + 3 + l] = d[3]
       /\ x.code[p + 4 + l] = d[4] /\ x.code[p + 5 + l] = d[5]
  BY <1>14, <1>16
<1>18. Placed(x, p + 1, b)
  BY <1>3, <1>9
<1>19. UndoAt(x, p, n, l)
  BY <1>3, <1>11, <1>12, <1>15, <1>17, <1>18 DEF b, UndoAt
<1> QED
  BY <1>19 DEF b, l

\* The words that are read are the ones that were stored.
LEMMA ReadBack ==
    ASSUME NEW r \in Memory, NEW b \in Nat, NEW d \in Nat, d # 0, NEW v \in Seq(Words), Len(v) = d,
           b + d <= Order
    PROVE  /\ Less(b + d, 1) = b + d - 1 /\ b + d - 1 \in Words
           /\ Cellwise(Part(r, b, v, d), b + d - 1, d) = v
           /\ Less(b + d - 1, d) = Less(b, 1) /\ Less(b, 1) \in Words
           /\ Plus(1, Less(b, 1)) = b /\ b \in Words
<1> DEFINE R == Part(r, b, v, d)
           a == b + d - 1
           w == Cellwise(R, a, d)
<1>1. Order \in Nat /\ a \in Nat /\ a \in Words /\ b \in Words /\ a = b + d - 1
  BY MachineAssumption DEF Words
<1>2. d \in 0 .. Len(v)
  OBVIOUS
<1>3. R \in Memory /\ \A e \in Words : e - b \in 0 .. d - 1 => R[e] = v[e - b + 1]
  BY <1>2, PartType, PartInside
<1> HIDE DEF a, R
<1>4. w \in Seq(Words) /\ Len(w) = d
  BY <1>1, <1>3, CellwiseIs
<1>5. ASSUME NEW i \in 1 .. d PROVE w[i] = v[i]
  <2> DEFINE e == a - (d - i)
  <2>1. e \in Words /\ e - b \in 0 .. d - 1 /\ e - b + 1 = i /\ e \in Int
    BY <1>1 DEF Words
  <2>2. w[i] = R[e % Order]
    BY DEF Cellwise
  <2> HIDE DEF e
  <2>3. e % Order = e
    BY <2>1, Residues
  <2>4. R[e] = v[e - b + 1]
    BY <1>3, <2>1
  <2> HIDE DEF w
  <2> QED
    BY <2>1, <2>2, <2>3, <2>4
<1>6. w = v
  <2> HIDE DEF w
  <2> QED
    BY <1>4, <1>5, SeqEqual
<1>7. Less(b + d, 1) = a
  <2>1. b + d - 1 = a /\ a \in Int
    BY <1>1
  <2>2. a % Order = a
    BY <1>1, <2>1, Residues, Zenon
  <2> QED
    BY <2>1, <2>2 DEF Less
<1>8. Less(a, d) = Less(b, 1)
  <2>1. a - d = b - 1
    BY <1>1
  <2> QED
    BY <2>1 DEF Less
<1>9. Less(b, 1) \in Words
  <2>1. b - 1 \in Int
    OBVIOUS
  <2> QED
    BY <2>1, Residues DEF Less
<1>10. Plus(1, Less(b, 1)) = b
  <2>1. CASE b = 0
    <3>1. 0 - 1 = -1 /\ -1 \in Int /\ - Order <= -1 /\ -1 < 0 /\ 1 + (-1 + Order) = Order /\ Order \in Int
          /\ Order <= Order /\ Order < 2 * Order /\ Order - Order = 0
      BY MachineAssumption
    <3>2. Less(b, 1) = -1 + Order
      BY <2>1, <3>1, Negative DEF Less
    <3>3. Order % Order = Order - Order
      BY <3>1, BeyondOrder
    <3> QED
      BY <2>1, <3>1, <3>2, <3>3 DEF Plus
  <2>2. CASE b > 0
    <3>1. b - 1 \in Words /\ b - 1 \in Int /\ 1 + (b - 1) = b /\ b \in Int
      BY <1>1, <2>2 DEF Words
    <3>2. Less(b, 1) = b - 1
      BY <3>1, Residues DEF Less
    <3>3. b % Order = b
      BY <1>1, <3>1, Residues
    <3> QED
      BY <3>1, <3>2, <3>3 DEF Plus
  <2> QED
    BY <2>1, <2>2
<1> QED
  BY <1>1, <1>6, <1>7, <1>8, <1>9, <1>10 DEF a, R

\* Zeros are what was there before.
LEMMA Unstored ==
    ASSUME NEW r \in Memory, NEW b \in Nat, NEW d \in Nat, d # 0, NEW v \in Seq(Words), Len(v) = d,
           Free(r, b, d)
    PROVE  Stored(Part(r, b, v, d), b, Zeros(d)) = r
<1> DEFINE R == Part(r, b, v, d)
           z == Zeros(d)
<1>1. d \in 0 .. Len(v) /\ b + d <= Order
  <2>1. Order \in Nat
    BY MachineAssumption
  <2> QED
    BY <2>1 DEF Free
<1>2. /\ R \in Memory
      /\ \A e \in Words : e - b \notin 0 .. d - 1 => R[e] = r[e]
  BY <1>1, PartType, PartOutside
<1>3. z \in Seq(Words) /\ Len(z) = d /\ z # <<>> /\ \A i \in 1 .. d : z[i] = 0
  <2>1. 0 \in Words
    BY MachineAssumption DEF Words
  <2> QED
    BY <2>1 DEF Zeros
<1> HIDE DEF R, z
<1>4. b + Len(z) <= Order
  BY <1>1, <1>3
<1>5. Stored(R, b, z) = Part(R, b, z, Len(z))
  BY <1>2, <1>3, <1>4, StoredIsPart, Zenon
<1>6. /\ Part(R, b, z, d) \in Memory
      /\ \A e \in Words : e - b \in 0 .. d - 1 => Part(R, b, z, d)[e] = z[e - b + 1]
      /\ \A e \in Words : e - b \notin 0 .. d - 1 => Part(R, b, z, d)[e] = R[e]
  <2>1. d \in 0 .. Len(z)
    BY <1>3
  <2>2. R \in Memory /\ z \in Seq(Words)
    BY <1>2, <1>3
  <2>3. Part(R, b, z, d) \in Memory
    BY <2>1, <2>2, PartType, Zenon
  <2>4. \A e \in Words : e - b \in 0 .. d - 1 => Part(R, b, z, d)[e] = z[e - b + 1]
    BY <2>1, <2>2, PartInside
  <2>5. \A e \in Words : e - b \notin 0 .. d - 1 => Part(R, b, z, d)[e] = R[e]
    BY <2>1, <2>2, PartOutside
  <2> QED
    BY <2>3, <2>4, <2>5
<1>7. ASSUME NEW e \in Words PROVE Part(R, b, z, d)[e] = r[e]
  <2>1. CASE e - b \in 0 .. d - 1
    <3>1. e \in Int
      BY DEF Words
    <3>2. e - b + 1 \in 1 .. d /\ b + (e - b) = e
      BY <2>1, <3>1
    <3>3. z[e - b + 1] = 0
      BY <1>3, <3>2
    <3>4. r[b + (e - b)] = 0
      BY <2>1 DEF Free
    <3>5. r[e] = 0
      BY <3>2, <3>4
    <3>6. Part(R, b, z, d)[e] = z[e - b + 1]
      BY <1>6, <2>1
    <3> QED
      BY <3>3, <3>5, <3>6
  <2>2. CASE e - b \notin 0 .. d - 1
    BY <1>2, <1>6, <2>2
  <2> QED
    BY <2>1, <2>2
<1>8. Part(R, b, z, d) = r
  BY <1>6, <1>7 DEF Memory
<1> QED
  BY <1>3, <1>5, <1>8 DEF R, z

\* One chunk is read and its cells are zeroed.
LEMMA UndoRule ==
    ASSUME NEW x, NEW p \in Nat, NEW d \in Nat, d \in 1 .. Chunk, NEW r \in Memory, NEW b \in Nat,
           Free(r, b, d), 1 \in Words,
           NEW v \in Seq(Words), Len(v) = d, NEW s \in Deep, NEW c, Placed(x, p, Undo(d)),
           Clear(x, p, p + Len(Undo(d)) - 1, Part(r, b, v, d)), Clear(x, p, p + Len(Undo(d)) - 1, r),
           Good(x, At(p + Len(Undo(d)), Put(Less(b, 1), v \o s), r, c))
    PROVE  Good(x, At(p, Put(Less(b + d, 1), s), Part(r, b, v, d), c))
<1> DEFINE R == Part(r, b, v, d)
           a == b + d - 1
           e == Less(b, 1)
           l == Len(Blank(d))
           u == v \o s
           t == Put(e, u)
           z == Zeros(d)
<1>1. d # 0 /\ d \in 0 .. Window - 1 /\ Order \in Nat /\ b + d <= Order
  BY MachineAssumption DEF Free
<1>2. /\ Less(b + d, 1) = a /\ a \in Words /\ Cellwise(R, a, d) = v /\ Less(a, d) = e
      /\ e \in Words /\ Plus(1, e) = b /\ b \in Words
  BY <1>1, ReadBack
<1>3. Stored(R, b, z) = r
  BY <1>1, Unstored
<1>4. R \in Memory
  <2>1. d \in 0 .. Len(v)
    OBVIOUS
  <2> QED
    BY <2>1, PartType, Zenon
<1>5. /\ l \in Nat /\ Len(Undo(d)) = l + 6
      /\ x.code[p] = <<"read_mem", d>> /\ Placed(x, p + 1, Blank(d))
      /\ x.code[p + 1 + l] = <<"dup", d>> /\ x.code[p + 2 + l] = <<"push", 1>>
      /\ x.code[p + 3 + l] = <<"add", 0>> /\ x.code[p + 4 + l] = <<"write_mem", d>>
      /\ x.code[p + 5 + l] = <<"pop", 1>>
  <2>1. UndoAt(x, p, d, l)
    BY UndoCode, Zenon
  <2> HIDE DEF l
  <2> QED
    BY <2>1, Zenon DEF UndoAt
<1>6. l \in Nat /\ p + (l + 6) - 1 = p + l + 5
  BY <1>5
<1>7. Clear(x, p, p + l + 5, R) /\ Clear(x, p, p + l + 5, r)
  BY <1>5, <1>6
<1>8. \A i \in p .. p + l + 5 : \A y : Safe(x, At(i, y, R, c)) /\ Safe(x, At(i, y, r, c))
  BY <1>7, ClearIsSafe
<1>9. p \in p .. p + l + 5 /\ p + 1 + l \in p .. p + l + 5 /\ p + 2 + l \in p .. p + l + 5
      /\ p + 3 + l \in p .. p + l + 5 /\ p + 4 + l \in p .. p + l + 5 /\ p + 5 + l \in p .. p + l + 5
  <2>1. l \in Nat
    BY <1>6
  <2> HIDE DEF l
  <2> QED
    BY <2>1
<1>10. u \in Deep
  <2>1. s \in Seq(Words) /\ Len(s) \in Nat /\ Len(s) >= Window /\ Window \in Nat
    BY DeepFacts
  <2>2. v \o s \in Seq(Words) /\ Len(v \o s) = d + Len(s)
    BY <2>1, ConcatProperties, Zenon
  <2>3. Len(v \o s) >= Window
    BY <2>1, <2>2
  <2> QED
    BY <2>2, <2>3 DEF Deep
<1>11. t \in Deep
  BY <1>2, <1>10, DeepFacts, Zenon
<1>12. z \in Seq(Words) /\ Len(z) = d /\ z \o t \in Deep
  BY <1>11, ZerosAre
<1>13. (z \o t)[d + 1] = e
  <2>1. u \in Seq(Words) /\ t \in Seq(Words) /\ Len(u) \in Nat
    BY <1>10, <1>11 DEF Deep
  <2>2. t[1] = e /\ Len(t) = Len(u) + 1
    BY <1>2, <2>1, PutFacts, Zenon
  <2> HIDE DEF t, z, e, u
  <2>3. \A i \in 1 .. d + Len(t) : (z \o t)[i] = IF i <= d THEN z[i] ELSE t[i - d]
    BY <1>12, <2>1, ConcatProperties
  <2> DEFINE j == d + 1
  <2>4. j \in 1 .. d + Len(t) /\ ~(j <= d) /\ j - d = 1
    BY <2>1, <2>2
  <2> HIDE DEF j
  <2>5. \A i \in 1 .. d + Len(t) : ~(i <= d) => (z \o t)[i] = t[i - d]
    BY <2>3, Zenon
  <2>6. (z \o t)[j] = t[j - d]
    BY <2>4, <2>5, Zenon
  <2> QED
    BY <2>2, <2>4, <2>6 DEF j
<1>14. Good(x, At(p + (l + 6), t, r, c))
  BY <1>5
<1>15. (b + d) % Order \in Words
  <2>1. b + d \in Int
    OBVIOUS
  <2> QED
    BY <2>1, Residues
<1>16. Put(e, z \o t) \in Deep
  BY <1>2, <1>12, DeepFacts, Zenon
<1> HIDE DEF R, a, e, l, u, z
<1>17. Good(x, At(p + 5 + l, Put((b + d) % Order, t), r, c))
  <2>1. p + 5 + l + 1 = p + (l + 6)
    BY <1>6
  <2>2. Good(x, At(p + 5 + l + 1, t, r, c)) /\ Safe(x, At(p + 5 + l, Put((b + d) % Order, t), r, c))
    BY <1>8, <1>9, <1>14, <2>1, Zenon
  <2> HIDE DEF t
  <2> QED
    BY <1>5, <1>11, <1>15, <2>2, PopOneRule, Zenon
<1>18. Good(x, At(p + 4 + l, Put(b, z \o t), R, c))
  <2>1. p + 4 + l + 1 = p + 5 + l
    BY <1>6
  <2>2. Good(x, At(p + 4 + l + 1, Put((b + d) % Order, t), Stored(R, b, z), c))
        /\ Safe(x, At(p + 4 + l, Put(b, z \o t), R, c))
    BY <1>3, <1>8, <1>9, <1>17, <2>1, Zenon
  <2> HIDE DEF t
  <2> QED
    BY <1>2, <1>5, <1>11, <1>12, <2>2, WriteRule, Zenon
<1>19. Good(x, At(p + 3 + l, Put(1, Put(e, z \o t)), R, c))
  <2>1. p + 3 + l + 1 = p + 4 + l
    BY <1>6
  <2>2. Good(x, At(p + 3 + l + 1, Put(Plus(1, e), z \o t), R, c))
        /\ Safe(x, At(p + 3 + l, Put(1, Put(e, z \o t)), R, c))
    BY <1>2, <1>8, <1>9, <1>18, <2>1, Zenon
  <2> HIDE DEF t
  <2> QED
    BY <1>2, <1>5, <1>12, <2>2, AddRule, Zenon
<1>20. Good(x, At(p + 2 + l, Put(e, z \o t), R, c))
  <2>1. p + 2 + l + 1 = p + 3 + l
    BY <1>6
  <2>2. Good(x, At(p + 2 + l + 1, Put(1, Put(e, z \o t)), R, c))
        /\ Safe(x, At(p + 2 + l, Put(e, z \o t), R, c))
    BY <1>8, <1>9, <1>19, <2>1, Zenon
  <2> HIDE DEF t
  <2> QED
    BY <1>5, <1>16, <2>2, PushRule, Zenon
<1>21. Good(x, At(p + 1 + l, z \o t, R, c))
  <2>1. p + 1 + l + 1 = p + 2 + l
    BY <1>6
  <2>2. Good(x, At(p + 1 + l + 1, Put(e, z \o t), R, c)) /\ Safe(x, At(p + 1 + l, z \o t, R, c))
    BY <1>8, <1>9, <1>20, <2>1, Zenon
  <2> HIDE DEF t
  <2> QED
    BY <1>1, <1>2, <1>5, <1>12, <1>13, <2>2, DupRule, Zenon
<1>22. Good(x, At(p + 1, t, R, c))
  <2>1. Clear(x, p + 1, p + 1 + l - 1, R)
    <3>1. p <= p + 1 /\ p + 1 + l - 1 <= p + l + 5 /\ p \in Int /\ p + l + 5 \in Int /\ p + 1 \in Int
          /\ p + 1 + l - 1 \in Int
      BY <1>6
    <3> QED
      BY <1>7, <3>1, ClearPart
  <2>2. p + 1 \in Nat
    OBVIOUS
  <2> HIDE DEF t
  <2> QED
    BY <1>5, <1>11, <1>21, <2>1, <2>2, BlankRule, Zenon DEF l, z
<1>23. Good(x, At(p, Put(a, s), R, c))
  <2>1. Good(x, At(p + 1, Put((a - d) % Order, Cellwise(R, a, d) \o s), R, c))
    BY <1>2, <1>22 DEF Less, u
  <2>2. Safe(x, At(p, Put(a, s), R, c))
    BY <1>8, <1>9
  <2> HIDE DEF t
  <2> QED
    BY <1>2, <1>4, <1>5, <2>1, <2>2, ReadRule, Zenon
<1> QED
  BY <1>2, <1>23 DEF R

\* The words v are above b, and the pointer is at the last.
Undone(x, p, d, b, v, s, r, c) == Good(x, At(p, Put(Less(b + d, 1), s), Part(r, b, v, d), c))

\* The same as a rule.
LEMMA UndoneRule ==
    ASSUME NEW x, NEW p \in Nat, NEW d \in Nat, d \in 1 .. Chunk, NEW r \in Memory, NEW b \in Nat,
           Free(r, b, d), 1 \in Words,
           NEW v \in Seq(Words), Len(v) = d, NEW s \in Deep, NEW c, Placed(x, p, Undo(d)),
           Clear(x, p, p + Len(Undo(d)) - 1, Part(r, b, v, d)), Clear(x, p, p + Len(Undo(d)) - 1, r),
           Good(x, At(p + Len(Undo(d)), Put(Less(b, 1), v \o s), r, c))
    PROVE  Undone(x, p, d, b, v, s, r, c)
BY UndoRule DEF Undone

\* The code of restore for each chunk.
Undos == [d \in 1 .. Chunk |-> Undo(d)]

\* It is code.
LEMMA UndoType ==
    ASSUME NEW d \in Nat
    PROVE  Undo(d) \in Seq(Instructions) /\ Len(Undo(d)) \in Nat
<1>1. Undo(d) \in Seq(Instructions)
  <2> DEFINE a == <<ReadMem(d)>>
             b == Blank(d)
             e == <<Dup(d), Push(1), Add, WriteMem(d), Pop(1)>>
  <2>1. /\ ReadMem(d) \in Instructions /\ Dup(d) \in Instructions /\ Push(1) \in Instructions
        /\ Add \in Instructions /\ WriteMem(d) \in Instructions /\ Pop(1) \in Instructions
    BY InstructionsAre
  <2>2. a \in Seq(Instructions) /\ e \in Seq(Instructions)
    BY <2>1
  <2>3. b \in Seq(Instructions)
    BY BlankIs, Zenon
  <2>4. Undo(d) = (a \o b) \o e
    BY DEF Undo
  <2> HIDE DEF a, b, e
  <2>5. a \o b \in Seq(Instructions)
    BY <2>2, <2>3, ConcatProperties
  <2> QED
    BY <2>2, <2>4, <2>5, ConcatProperties
<1> QED
  BY <1>1

LEMMA UndosType == Undos \in [1 .. Chunk -> Seq(Instructions)]
<1>1. \A d \in 1 .. Chunk : d \in Nat
  BY MachineAssumption
<1> QED
  BY <1>1, UndoType DEF Undos

\* restore is one of them for each chunk.
LEMMA RestoreIs ==
    ASSUME NEW m \in Nat
    PROVE  Restore(m) = Chunkwise(Undos, m) /\ Restore(m) \in Seq(Instructions) /\ Len(Restore(m)) \in Nat
<1>1. PICK count \in Nat : \E upto \in [0 .. count -> 0 .. m] : Split(m, count, upto)
  BY ChunksSplit
<1>2. Chunks(m) \in [1 .. count -> 1 .. Chunk]
  BY <1>1 DEF Split
<1>3. \A i \in DOMAIN Chunks(m) : Undos[Chunks(m)[i]] = Undo(Chunks(m)[i])
  BY <1>2 DEF Undos
<1>4. Restore(m) = FlattenSeq([i \in DOMAIN Chunks(m) |-> Undo(Chunks(m)[i])])
  BY DEF Restore, EachChunk, Undo, Blank
<1>5. Restore(m) = Chunkwise(Undos, m)
  BY <1>3, <1>4 DEF Chunkwise
<1>6. Restore(m) \in Seq(Instructions)
  BY <1>5, UndosType, ChunkwiseType
<1> QED
  BY <1>5, <1>6

\* The cells above the words that are there are still zero.
LEMMA FreeAbove ==
    ASSUME NEW r \in Memory, NEW a \in Nat, NEW m \in Nat, Free(r, a, m), NEW w \in Seq(Words), Len(w) = m,
           NEW k \in Nat, NEW d \in Nat, k + d <= m, NEW b, b = a + k
    PROVE  Free(Part(r, a, w, k), b, d)
<1>1. Order \in Nat /\ a + m <= Order /\ k \in 0 .. Len(w)
  BY MachineAssumption DEF Free
<1>2. b \in 0 .. Order - d
  BY <1>1
<1>3. ASSUME NEW j \in 0 .. d - 1 PROVE Part(r, a, w, k)[b + j] = 0
  <2> DEFINE e == b + j
  <2>1. e \in Words /\ e - a \notin 0 .. k - 1 /\ k + j \in 0 .. m - 1 /\ a + (k + j) = e
    BY <1>1 DEF Words
  <2>2. r[a + (k + j)] = 0
    BY <2>1, Zenon DEF Free
  <2> HIDE DEF e
  <2>3. Part(r, a, w, k)[e] = r[e]
    <3>1. k \in 0 .. Len(w) /\ e \in Words /\ e - a \notin 0 .. k - 1
      BY <1>1, <2>1
    <3>2. \A g \in Words : g - a \notin 0 .. k - 1 => Part(r, a, w, k)[g] = r[g]
      BY <3>1, PartOutside
    <3> QED
      BY <3>1, <3>2
  <2>4. Part(r, a, w, k)[e] = 0
    BY <2>1, <2>2, <2>3
  <2> QED
    BY <2>4 DEF e
<1> QED
  BY <1>2, <1>3, Zenon DEF Free

\* What restore promises: with m words in borrowed cells and the pointer at
\* the last of them, the words come back onto the stack in their order and
\* the cells are zero again, which they were before.
THEOREM RestoreGivesBack ==
    ASSUME NEW x, NEW p \in Nat, NEW m \in Nat, NEW r \in Memory, NEW a \in Nat, Free(r, a, m),
           1 \in Words, NEW w \in Seq(Words), Len(w) = m, NEW s \in Deep, NEW c, Placed(x, p, Restore(m)),
           \A k \in 0 .. m : Clear(x, p, p + Len(Restore(m)) - 1, Part(r, a, w, k)),
           Good(x, At(p + Len(Restore(m)), Put(Less(a, 1), w \o s), r, c))
    PROVE  Good(x, At(p, Put(Less(a + m, 1), s), Part(r, a, w, m), c))
<1> DEFINE l == Len(Restore(m))
           Fine(q, k) == Good(x, At(q, Put(Less(a + k, 1), Over(w, k) \o s), Part(r, a, w, k), c))
           T == {e \in Nat \X (0 .. m) : Fine(e[1], m - e[2])}
<1>1. Restore(m) = Chunkwise(Undos, m) /\ Undos \in [1 .. Chunk -> Seq(Instructions)] /\ l \in Nat
  BY RestoreIs, UndosType
<1>2. Order \in Nat /\ a + m <= Order /\ s \in Seq(Words)
  BY MachineAssumption DEF Free, Deep
<1>3. a + Len(w) <= Order
  BY <1>2
<1>4. /\ Over(w, 0) \o s = w \o s /\ Over(w, m) \o s = s
      /\ \A i \in 0 .. m : Over(w, i) \in Seq(Words) /\ Over(w, i) \o s \in Deep
  BY OverHead, Zenon
<1>5. Part(r, a, w, 0) = r
  BY PartStart, Zenon
<1>6. ASSUME NEW d \in Nat, d \in 1 .. Chunk, NEW k \in Nat, k + d <= m, NEW q \in Nat,
             p <= q, q + Len(Undo(d)) <= p + l,
             Placed(x, q, Undo(d)), Fine(q + Len(Undo(d)), k)
      PROVE  Fine(q, k + d)
  <2> DEFINE R == Part(r, a, w, k)
             b == a + k
             v == Piece(w, k, d)
             t == Over(w, k + d) \o s
  <2>1. d # 0 /\ k + d <= Len(w) /\ b \in Nat /\ b = a + k /\ k \in 0 .. m /\ k + d \in 0 .. m
        /\ k + d \in Nat
    <3> HIDE DEF T, l, Fine, R, v, t, b
    <3>1. d # 0 /\ k + d <= m /\ k + d \in Nat /\ k <= m
      BY <1>6
    <3>2. k + d <= Len(w) /\ k \in 0 .. m /\ k + d \in 0 .. m
      BY <3>1
    <3>3. b \in Nat /\ b = a + k
      BY DEF b
    <3> QED
      BY <3>1, <3>2, <3>3
  <2>2. v \in Seq(Words) /\ Len(v) = d
    BY <2>1, PieceIs, Zenon
  <2>3. Over(w, k) \o s = Behind(w, k, d, s)
    BY <1>2, <2>1, OverSplit, Zenon
  <2>4. Over(w, k) \o s = v \o t
    BY <2>3 DEF Behind
  <2>5. Grows(r, a, w, k, d)
    BY <1>3, <2>1, PartSplit, Zenon
  <2>6. Part(R, b, v, d) = Part(r, a, w, k + d)
    BY <2>5 DEF Grows
  <2>7. Free(R, b, d)
    BY <2>1, FreeAbove
  <2>8. R \in Memory
    BY <2>1, PartType
  <2>9. t \in Deep
    BY <1>4, <2>1
  <2>10. Len(Undo(d)) \in Nat
    BY UndoType
  <2>11. Clear(x, q, q + Len(Undo(d)) - 1, R) /\ Clear(x, q, q + Len(Undo(d)) - 1, Part(R, b, v, d))
    <3> DEFINE f == Len(Undo(d))
    <3>1. Clear(x, p, p + l - 1, R) /\ Clear(x, p, p + l - 1, Part(R, b, v, d))
      BY <2>1, <2>6
    <3>2. l \in Nat /\ f \in Nat /\ q + f <= p + l
      BY <1>1, <1>6, <2>10
    <3> HIDE DEF l, f, R, b, v, t, Fine, T
    <3>3. p + l - 1 \in Int /\ q + f - 1 \in Int
      BY <3>2
    <3>4. p \in Int /\ q \in Int /\ p <= q
      BY <1>6
    <3>5. q + f - 1 <= p + l - 1
      BY <3>2
    <3> QED
      BY <3>1, <3>3, <3>4, <3>5, ClearPart DEF f
  <2>12. Good(x, At(q + Len(Undo(d)), Put(Less(b, 1), v \o t), R, c))
    BY <1>6, <2>4
  <2>13. a + (k + d) = b + d
    <3> HIDE DEF T, l, Fine, R, v, t
    <3> QED
      OBVIOUS
  <2> HIDE DEF R, b, v, t
  <2> HIDE DEF T, l, Fine
  <2>14. Undone(x, q, d, b, v, t, R, c)
    BY <1>6, <2>1, <2>2, <2>7, <2>8, <2>9, <2>11, <2>12, UndoneRule
  <2>15. Good(x, At(q, Put(Less(b + d, 1), t), Part(R, b, v, d), c))
    BY <2>14 DEF Undone
  <2> QED
    BY <2>6, <2>13, <2>15 DEF t, Fine, R
<1> HIDE DEF Fine, l
<1>7. Fine(p + l, 0)
  <2>1. a + 0 = a
    OBVIOUS
  <2> QED
    BY <1>4, <1>5, <2>1, Zenon DEF Fine, l
<1>8. <<p + l, m>> \in T
  <2>1. p + l \in Nat /\ m \in 0 .. m /\ m - m = 0
    BY <1>1
  <2> QED
    BY <1>7, <2>1
<1>9. ASSUME NEW d \in 1 .. Chunk, NEW u \in 0 .. m - d, NEW q \in p .. p + l - Len(Undos[d]),
             Placed(x, q, Undos[d]), <<q + Len(Undos[d]), u + d>> \in T
      PROVE  <<q, u>> \in T
  <2> DEFINE k == m - (u + d)
             f == Len(Undo(d))
  <2>1. Undos[d] = Undo(d) /\ d \in Nat
    BY MachineAssumption DEF Undos
  <2>2. Undo(d) \in Seq(Instructions)
    BY <1>1, <2>1
  <2>3. f \in Nat
    BY <2>2
  <2>4. k \in Nat /\ k + d <= m /\ k + d = m - u /\ u \in 0 .. m
    BY <2>1
  <2>5. q \in Nat /\ p <= q /\ q + f <= p + l
    <3>1. q \in p .. p + l - f
      BY <2>1
    <3> HIDE DEF f
    <3> QED
      BY <1>1, <2>3, <3>1
  <2>6. Fine(q + f, k)
    BY <1>9, <2>1
  <2> HIDE DEF k, T
  <2>7. Fine(q, k + d)
    BY <1>6, <1>9, <2>1, <2>4, <2>5, <2>6, Zenon DEF f
  <2> QED
    BY <2>4, <2>5, <2>7, Zenon DEF T
<1> HIDE DEF T
<1>10. <<p, 0>> \in T
  <2>1. \A d \in 1 .. Chunk : \A u \in 0 .. m - d :
           \A q \in p .. p + Len(Chunkwise(Undos, m)) - Len(Undos[d]) :
              Placed(x, q, Undos[d]) /\ <<q + Len(Undos[d]), u + d>> \in T => <<q, u>> \in T
    BY <1>1, <1>9, Zenon DEF l
  <2>2. <<p + Len(Chunkwise(Undos, m)), m>> \in T /\ Placed(x, p, Chunkwise(Undos, m))
    BY <1>1, <1>8 DEF l
  <2> QED
    BY <1>1, <2>1, <2>2, ChunkwiseRule, Zenon
<1>11. Fine(p, m)
  <2>1. m - 0 = m
    OBVIOUS
  <2> QED
    BY <1>10, <2>1 DEF T
<1> QED
  BY <1>4, <1>11 DEF Fine

-----------------------------------------------------------------------------
(* One access.                                                             *)

\* The top word and the one n words below it change places.
Exchanged(s, n) == [s EXCEPT ![1] = s[n + 1], ![n + 1] = s[1]]

\* swap of the top word and any other in the window.
LEMMA SwapAnyRule ==
    ASSUME NEW x, NEW p, NEW s \in Deep, NEW r, NEW c, NEW n \in 0 .. Window - 1,
           x.code[p] = <<"swap", n>>,
           Safe(x, At(p, s, r, c)), Good(x, At(p + 1, Exchanged(s, n), r, c))
    PROVE  Good(x, At(p, s, r, c))
<1> DEFINE i == <<"swap", n>>
           u == Exchanged(s, n)
<1>1. i[1] = "swap" /\ i[2] = n
  OBVIOUS
<1>2. Len(s) \in Nat /\ Len(s) >= Window /\ Window \in Nat
  BY DeepFacts
<1>3. Result(i, s, r) = u
  BY <1>1 DEF Result, Exchanged
<1>4. CanRun(i, s)
  BY <1>1, <1>2 DEF CanRun, Taken, Encodable
<1>5. (IF i[1] = "write_mem" THEN Written(r, s[1], i[2], s) ELSE r) = r
  BY <1>1
<1>6. i[1] \notin {"skiz", "call", "return", "recurse", "halt"}
  BY <1>1
<1>7. x.code[p] = i
  OBVIOUS
<1> HIDE DEF i, u
<1>8. Good(x, At(p + 1, u, r, c))
  BY DEF u
<1> QED
  BY <1>3, <1>4, <1>5, <1>6, <1>7, <1>8, PlainRule

\* write_mem of one word.
LEMMA WriteOneRule ==
    ASSUME NEW x, NEW p, NEW a \in Words, NEW v \in Words, NEW s \in Deep, NEW r, NEW c,
           x.code[p] = <<"write_mem", 1>>, Safe(x, At(p, Put(a, Put(v, s)), r, c)),
           Good(x, At(p + 1, Put(Plus(a, 1), s), Stored(r, a, <<v>>), c))
    PROVE  Good(x, At(p, Put(a, Put(v, s)), r, c))
<1>1. <<v>> \in Seq(Words) /\ Len(<<v>>) = 1 /\ <<v>> \o s = Put(v, s)
  BY DEF Put
<1>2. 1 \in 1 .. Chunk
  BY MachineAssumption
<1>3. Good(x, At(p + 1, Put((a + 1) % Order, s), Stored(r, a, <<v>>), c))
  BY DEF Plus
<1>4. Safe(x, At(p, Put(a, <<v>> \o s), r, c))
  BY <1>1, Zenon
<1> HIDE DEF Put
<1>5. Good(x, At(p, Put(a, <<v>> \o s), r, c))
  BY <1>1, <1>2, <1>3, <1>4, WriteRule, Zenon
<1> QED
  BY <1>1, <1>5, Zenon

\* A literal is added to the top word.
LEMMA ShiftRule ==
    ASSUME NEW x, NEW p \in Nat, NEW k \in Words, NEW b \in Words, NEW s \in Deep, NEW r, NEW c,
           x.code[p] = <<"push", k>>, x.code[p + 1] = <<"add", 0>>,
           Safe(x, At(p, Put(b, s), r, c)), Safe(x, At(p + 1, Put(k, Put(b, s)), r, c)),
           Good(x, At(p + 2, Put(Plus(k, b), s), r, c))
    PROVE  Good(x, At(p, Put(b, s), r, c))
<1>1. p + 1 + 1 = p + 2
  OBVIOUS
<1>2. Good(x, At(p + 1 + 1, Put(Plus(k, b), s), r, c))
  BY <1>1
<1>3. Good(x, At(p + 1, Put(k, Put(b, s)), r, c))
  BY <1>2, AddRule
<1>4. Put(b, s) \in Deep
  BY DeepFacts
<1> QED
  BY <1>3, <1>4, PushRule, Zenon

\* What the sum is.
LEMMA Shifted ==
    ASSUME NEW k \in Int, -Order < k, k < Order, NEW b \in Int, -1 <= b, b <= Order
    PROVE  Plus(Literal(k), b % Order) = (b + k) % Order /\ Literal(k) \in Words
<1> DEFINE u == k % Order
           v == b % Order
           e == b + k
<1>1. Order \in Nat /\ Order # 0
  BY MachineAssumption
<1>2. u = IF k < 0 THEN k + Order ELSE k
  <2>1. CASE k < 0
    BY <1>1, <2>1, Negative
  <2>2. CASE ~(k < 0)
    <3>1. k \in Words
      BY <1>1, <2>2 DEF Words
    <3> QED
      BY <2>2, <3>1, Residues
  <2> QED
    BY <2>1, <2>2
<1>3. v = IF b < 0 THEN b + Order ELSE IF b < Order THEN b ELSE 0
  <2>1. CASE b < 0
    BY <1>1, <2>1, Negative
  <2>2. CASE 0 <= b /\ b < Order
    <3>1. b \in Words
      BY <1>1, <2>2 DEF Words
    <3> QED
      BY <2>2, <3>1, Residues
  <2>3. CASE b = Order
    <3>1. b % Order = b - Order
      BY <1>1, <2>3, BeyondOrder
    <3> QED
      BY <1>1, <2>3, <3>1
  <2> QED
    BY <1>1, <2>1, <2>2, <2>3
<1>4. (u + v) % Order = IF u + v < Order THEN u + v ELSE u + v - Order
  <2> HIDE DEF u, v
  <2> DEFINE f == u + v
  <2>1. f \in Int /\ 0 <= f /\ f < 2 * Order
    BY <1>1, <1>2, <1>3
  <2> HIDE DEF f
  <2>2. f < Order => f % Order = f
    <3>1. f < Order => f \in Words
      BY <1>1, <2>1 DEF Words
    <3> QED
      BY <2>1, <3>1, Residues
  <2>3. Order <= f => f % Order = f - Order
    BY <2>1, BeyondOrder
  <2>4. f % Order = IF f < Order THEN f ELSE f - Order
    <3>1. f < Order \/ Order <= f
      BY <1>1, <2>1
    <3> QED
      BY <2>2, <2>3, <3>1
  <2>5. u \in Int /\ v \in Int
    BY <1>1, <1>2, <1>3
  <2> QED
    BY <1>1, <2>4, <2>5 DEF f
<1>5. e % Order = IF e < 0 THEN e + Order ELSE IF e < Order THEN e ELSE e - Order
  <2>1. e \in Int /\ -Order <= e /\ e < 2 * Order
    BY <1>1
  <2> HIDE DEF e
  <2>2. CASE e < 0
    BY <1>1, <2>1, <2>2, Negative
  <2>3. CASE 0 <= e /\ e < Order
    <3>1. e \in Words
      BY <1>1, <2>1, <2>3 DEF Words
    <3> QED
      BY <2>1, <2>3, <3>1, Residues
  <2>4. CASE Order <= e
    BY <1>1, <2>1, <2>4, BeyondOrder
  <2> QED
    BY <1>1, <2>1, <2>2, <2>3, <2>4
<1>6. (u + v) % Order = e % Order
  <2>1. e = b + k
    OBVIOUS
  <2> DEFINE f == (u + v) % Order
             g == e % Order
  <2>2. f = IF u + v < Order THEN u + v ELSE u + v - Order
    BY <1>4
  <2>3. g = IF e < 0 THEN e + Order ELSE IF e < Order THEN e ELSE e - Order
    BY <1>5
  <2> HIDE DEF f, g, u, v, e
  <2>4. f = g
    BY <1>1, <1>2, <1>3, <2>1, <2>2, <2>3
  <2> QED
    BY <2>4 DEF f, g
<1> QED
  BY <1>6, LiteralIs DEF Plus, Literal

\* The code of an access that is too deep for one instruction.
Deeply(n, m, rest) == Borrow(n) \o Batch("write_mem", m) \o rest \o <<Pop(1)>>

\* The parts of an access are code.
LEMMA BorrowType ==
    ASSUME NEW n \in Nat
    PROVE  Borrow(n) \in Seq(Instructions) /\ Len(Borrow(n)) \in Nat /\ Len(Borrow(n)) >= 1
<1> DEFINE h == BorrowHead(n)
           b == EachChunk(n, Check)
           t == BorrowTail(n)
           e == h \o b
<1>1. h \in Seq(Instructions) /\ t \in Seq(Instructions)
  <2>1. n \in Int /\ 0 \in Int /\ Preferred + n - 1 \in Int /\ 1 - n \in Int
    BY PreferredAssumption, MachineAssumption DEF Words
  <2>2. /\ Push(n) \in Instructions /\ Push(Preferred + n - 1) \in Instructions
        /\ Push(0) \in Instructions /\ Push(1 - n) \in Instructions
        /\ Pop(1) \in Instructions /\ Swap(1) \in Instructions /\ Eq \in Instructions
        /\ Skiz \in Instructions /\ Call("search") \in Instructions /\ Add \in Instructions
    BY <2>1, InstructionsAre
  <2> QED
    BY <2>2 DEF BorrowHead, BorrowTail
<1>2. b \in Seq(Instructions)
  BY EachCheckType
<1>3. Len(h) = 5
  BY DEF BorrowHead
<1>4. Borrow(n) = e \o t
  BY BorrowIs, Zenon DEF BorrowHead, BorrowTail
<1> HIDE DEF h, b, t
<1>5. e \in Seq(Instructions) /\ Len(e) = Len(h) + Len(b)
  BY <1>1, <1>2, ConcatProperties
<1> HIDE DEF e
<1>6. Borrow(n) \in Seq(Instructions) /\ Len(Borrow(n)) = Len(e) + Len(t)
  BY <1>1, <1>4, <1>5, ConcatProperties, Zenon
<1>7. Len(b) \in Nat /\ Len(t) \in Nat
  BY <1>1, <1>2
<1> QED
  BY <1>3, <1>5, <1>6, <1>7

LEMMA BatchType ==
    ASSUME NEW m \in Nat
    PROVE  Batch("write_mem", m) \in Seq(Instructions)
BY BatchIs, WritesType, ChunkwiseType

\* Where its parts are: the words are moved at q, the rest is at y, and the
\* base of the cells is dropped at z.
DeeplyAt(x, p, n, m, rest, q, y, z) ==
    /\ q = p + Len(Borrow(n)) /\ y = q + Len(Batch("write_mem", m)) /\ z = y + Len(rest)
    /\ p < q /\ q <= y /\ y <= z
    /\ Placed(x, p, Borrow(n)) /\ Placed(x, q, Batch("write_mem", m)) /\ Placed(x, y, rest)
    /\ x.code[z] = <<"pop", 1>> /\ p + Len(Deeply(n, m, rest)) = z + 1

\* They are there.
LEMMA DeeplyCode ==
    ASSUME NEW x, NEW p \in Nat, NEW n \in 1 .. Order - 1, Preferred + n <= Order, NEW m \in Nat,
           NEW rest \in Seq(Instructions), Placed(x, p, Deeply(n, m, rest))
    PROVE  /\ Deeply(n, m, rest) \in Seq(Instructions)
           /\ \E q \in Nat, y \in Nat, z \in Nat : DeeplyAt(x, p, n, m, rest, q, y, z)
<1> DEFINE a == Borrow(n)
           b == Batch("write_mem", m)
           e == <<Pop(1)>>
           ab == a \o b
           abr == ab \o rest
           q == p + Len(a)
           y == q + Len(b)
           z == y + Len(rest)
<1>1. a \in Seq(Instructions) /\ Len(a) \in Nat /\ Len(a) >= 1
  BY BorrowType
<1>2. b \in Seq(Instructions) /\ Len(b) \in Nat
  BY BatchType
<1>3. e \in Seq(Instructions) /\ Len(e) = 1 /\ e[1] = <<"pop", 1>>
  <2>1. Pop(1) \in Instructions
    BY InstructionsAre
  <2> QED
    BY <2>1 DEF Pop
<1>4. Deeply(n, m, rest) = abr \o e /\ abr = ab \o rest /\ ab = a \o b
  BY DEF Deeply
<1> HIDE DEF a, b, e, ab, abr, q, y, z
<1>5. ab \in Seq(Instructions)
  BY <1>1, <1>2, <1>4, ConcatProperties
<1>6. abr \in Seq(Instructions)
  BY <1>4, <1>5, ConcatProperties
<1>7. Placed(x, p, abr \o e)
  BY <1>4
<1>8. Placed(x, p, abr) /\ Placed(x, p + Len(abr), e) /\ Len(abr \o e) = Len(abr) + Len(e)
  <2>1. e \in Seq(Instructions)
    BY <1>3
  <2> QED
    BY <1>6, <1>7, <2>1, PlacedConcat
<1>9. abr \o e \in Seq(Instructions)
  BY <1>3, <1>6, ConcatProperties
<1>10. Placed(x, p, ab \o rest)
  BY <1>4, <1>8
<1>11. Placed(x, p, ab) /\ Placed(x, p + Len(ab), rest) /\ Len(ab \o rest) = Len(ab) + Len(rest)
       /\ Len(rest) \in Nat
  BY <1>5, <1>10, PlacedConcat
<1>12. Placed(x, p, a \o b)
  BY <1>4, <1>11
<1>13. Placed(x, p, a) /\ Placed(x, p + Len(a), b) /\ Len(a \o b) = Len(a) + Len(b)
  BY <1>1, <1>2, <1>12, PlacedConcat
<1>14. q = p + Len(a) /\ y = q + Len(b) /\ z = y + Len(rest)
  BY DEF q, y, z
<1>15. Len(ab) = Len(a) + Len(b) /\ Len(abr) = Len(a) + Len(b) + Len(rest)
  BY <1>4, <1>11, <1>13
<1>16. p + Len(ab) = y /\ p + Len(abr) = z /\ q \in Nat /\ y \in Nat /\ z \in Nat /\ p < q /\ q <= y /\ y <= z
  <2> DEFINE g == Len(a)
             h == Len(b)
             k == Len(rest)
             i == Len(ab)
             j == Len(abr)
  <2>1. g \in Nat /\ g >= 1 /\ h \in Nat /\ k \in Nat /\ i = g + h /\ j = g + h + k
    BY <1>1, <1>2, <1>11, <1>15
  <2>2. q = p + g /\ y = q + h /\ z = y + k
    BY <1>14
  <2> HIDE DEF g, h, i, j, k
  <2>3. p + i = y /\ p + j = z /\ q \in Nat /\ y \in Nat /\ z \in Nat
    BY <2>1, <2>2
  <2>4. p < q /\ q <= y /\ y <= z
    BY <2>1, <2>2
  <2> QED
    BY <2>3, <2>4 DEF i, j
<1>17. x.code[z] = e[1]
  <2>1. z + 1 - 1 = z
    BY <1>16
  <2>2. x.code[z + 1 - 1] = e[1]
    BY <1>3, <1>8, <1>16 DEF Placed
  <2> QED
    BY <2>1, <2>2
<1>18. p + Len(Deeply(n, m, rest)) = z + 1
  <2> DEFINE l == Len(abr)
             f == Len(e)
  <2>1. Len(Deeply(n, m, rest)) = l + f /\ p + l = z /\ f = 1 /\ l \in Nat
    BY <1>3, <1>4, <1>6, <1>8, <1>16
  <2>2. z \in Nat
    BY <1>16
  <2> HIDE DEF l, f
  <2>3. p + (l + f) = z + 1
    BY <2>1, <2>2
  <2> QED
    BY <2>1, <2>3
<1>19. q = p + Len(Borrow(n)) /\ y = q + Len(Batch("write_mem", m))
  BY <1>14 DEF a, b
<1>20. Placed(x, p, Borrow(n)) /\ Placed(x, q, Batch("write_mem", m)) /\ Placed(x, y, rest)
  BY <1>11, <1>13, <1>14, <1>16 DEF a, b
<1>21. DeeplyAt(x, p, n, m, rest, q, y, z)
  BY <1>3, <1>14, <1>16, <1>17, <1>18, <1>19, <1>20 DEF DeeplyAt
<1> QED
  BY <1>4, <1>16, <1>9, <1>21, Zenon

\* Where the parts of a deep dup are.
DeepDupAt(x, p, m, n, q) ==
    /\ q = p + 5 + Len(Restore(m)) /\ p + 5 <= q
    /\ x.code[p] = <<"dup", Window - 1>> /\ x.code[p + 1] = <<"swap", 1>>
    /\ x.code[p + 2] = <<"write_mem", 1>> /\ x.code[p + 3] = <<"push", Literal(-2)>>
    /\ x.code[p + 4] = <<"add", 0>> /\ Placed(x, p + 5, Restore(m))
    /\ x.code[q] = <<"push", Literal(n)>> /\ x.code[q + 1] = <<"add", 0>>
    /\ Placed(x, q + 2, Restore(1)) /\ p + Len(DeepDup(m, n)) = q + 2 + Len(Restore(1))

\* They are there.
LEMMA DeepDupCode ==
    ASSUME NEW x, NEW p \in Nat, NEW m \in Nat, NEW n \in Nat, Placed(x, p, DeepDup(m, n))
    PROVE  /\ Len(Restore(1)) \in Nat /\ Len(Restore(m)) \in Nat
           /\ \E q \in Nat : DeepDupAt(x, p, m, n, q)
<1> DEFINE a == <<Dup(Window - 1), Swap(1), WriteMem(1), Push(-2), Add>>
           b == Restore(m)
           d == <<Push(n), Add>>
           e == Restore(1)
           ab == a \o b
           abd == ab \o d
           q == p + 5 + Len(b)
<1>1. a \in Seq(Instructions) /\ d \in Seq(Instructions)
  <2>1. Window - 1 \in Nat
    BY MachineAssumption
  <2>2. /\ Dup(Window - 1) \in Instructions /\ Swap(1) \in Instructions /\ WriteMem(1) \in Instructions
        /\ Push(-2) \in Instructions /\ Add \in Instructions /\ Push(n) \in Instructions
    BY <2>1, InstructionsAre
  <2> QED
    BY <2>2
<1>2. b \in Seq(Instructions) /\ Len(b) \in Nat /\ e \in Seq(Instructions) /\ Len(e) \in Nat
  BY RestoreIs
<1>3. /\ Len(a) = 5 /\ a[1] = <<"dup", Window - 1>> /\ a[2] = <<"swap", 1>> /\ a[3] = <<"write_mem", 1>>
      /\ a[4] = <<"push", Literal(-2)>> /\ a[5] = <<"add", 0>>
      /\ Len(d) = 2 /\ d[1] = <<"push", Literal(n)>> /\ d[2] = <<"add", 0>>
  BY DEF Dup, Swap, WriteMem, Push, Add
<1>4. DeepDup(m, n) = abd \o e /\ abd = ab \o d /\ ab = a \o b
  BY DEF DeepDup
<1> HIDE DEF a, b, d, e, ab, abd, q
<1>5. ab \in Seq(Instructions)
  BY <1>1, <1>2, <1>4, ConcatProperties
<1>6. abd \in Seq(Instructions)
  BY <1>1, <1>4, <1>5, ConcatProperties
<1>7. Placed(x, p, abd \o e)
  BY <1>4
<1>8. Placed(x, p, abd) /\ Placed(x, p + Len(abd), e) /\ Len(abd \o e) = Len(abd) + Len(e)
  BY <1>2, <1>6, <1>7, PlacedConcat
<1>9. Placed(x, p, ab \o d)
  BY <1>4, <1>8
<1>10. Placed(x, p, ab) /\ Placed(x, p + Len(ab), d) /\ Len(ab \o d) = Len(ab) + Len(d)
  BY <1>1, <1>5, <1>9, PlacedConcat
<1>11. Placed(x, p, a \o b)
  BY <1>4, <1>10
<1>12. Placed(x, p, a) /\ Placed(x, p + Len(a), b) /\ Len(a \o b) = Len(a) + Len(b)
  BY <1>1, <1>2, <1>11, PlacedConcat
<1>13. Len(ab) = 5 + Len(b) /\ Len(abd) = 7 + Len(b)
  <2> DEFINE l == Len(b)
             f == Len(ab)
  <2>1. l \in Nat /\ f = 5 + l /\ Len(abd) = f + 2
    BY <1>2, <1>3, <1>4, <1>10, <1>12
  <2> HIDE DEF l, f
  <2> QED
    BY <2>1 DEF l, f
<1>14. q = p + 5 + Len(b) /\ q \in Nat /\ p + 5 <= q /\ p + Len(ab) = q /\ p + Len(abd) = q + 2
  <2> DEFINE l == Len(b)
  <2>1. q = p + 5 + l
    BY DEF q
  <2>2. Len(ab) = 5 + l /\ Len(abd) = 7 + l /\ l \in Nat
    BY <1>2, <1>13
  <2> HIDE DEF l
  <2>3. q \in Nat /\ p + 5 <= q /\ p + (5 + l) = q /\ p + (7 + l) = q + 2
    BY <2>1, <2>2
  <2>4. q = p + 5 + Len(b)
    BY <2>1 DEF l
  <2> QED
    BY <2>2, <2>3, <2>4
<1>15. /\ x.code[p] = a[1] /\ x.code[p + 1] = a[2] /\ x.code[p + 2] = a[3] /\ x.code[p + 3] = a[4]
       /\ x.code[p + 4] = a[5]
  <2>1. \A j \in 1 .. 5 : x.code[p + j - 1] = a[j]
    BY <1>3, <1>12, Zenon DEF Placed
  <2>2. /\ x.code[p + 1 - 1] = a[1] /\ x.code[p + 2 - 1] = a[2] /\ x.code[p + 3 - 1] = a[3]
        /\ x.code[p + 4 - 1] = a[4] /\ x.code[p + 5 - 1] = a[5]
    BY <2>1
  <2>3. p + 1 - 1 = p /\ p + 2 - 1 = p + 1 /\ p + 3 - 1 = p + 2 /\ p + 4 - 1 = p + 3 /\ p + 5 - 1 = p + 4
    OBVIOUS
  <2> QED
    BY <2>2, <2>3
<1>16. x.code[q] = d[1] /\ x.code[q + 1] = d[2]
  <2>1. \A j \in 1 .. 2 : x.code[q + j - 1] = d[j]
    BY <1>3, <1>10, <1>14, Zenon DEF Placed
  <2>2. x.code[q + 1 - 1] = d[1] /\ x.code[q + 2 - 1] = d[2]
    BY <2>1
  <2>3. q + 1 - 1 = q /\ q + 2 - 1 = q + 1
    BY <1>14
  <2> QED
    BY <2>2, <2>3
<1>17. p + Len(DeepDup(m, n)) = q + 2 + Len(e)
  <2> DEFINE l == Len(e)
             f == Len(abd)
  <2>1. Len(DeepDup(m, n)) = f + l /\ l \in Nat /\ f \in Nat /\ p + f = q + 2
    BY <1>2, <1>4, <1>6, <1>8, <1>14
  <2>2. q \in Nat
    BY <1>14
  <2> HIDE DEF l, f
  <2>3. p + (f + l) = q + 2 + l
    BY <2>1, <2>2
  <2> QED
    BY <2>1, <2>3 DEF l
<1>18. p + Len(a) = p + 5
  BY <1>3
<1>19. Placed(x, p + 5, Restore(m)) /\ Placed(x, q + 2, Restore(1)) /\ q = p + 5 + Len(Restore(m))
       /\ p + Len(DeepDup(m, n)) = q + 2 + Len(Restore(1))
  BY <1>8, <1>12, <1>14, <1>17, <1>18 DEF b, e
<1>20. DeepDupAt(x, p, m, n, q)
  BY <1>3, <1>14, <1>15, <1>16, <1>19 DEF DeepDupAt
<1> QED
  BY <1>2, <1>14, <1>20 DEF b, e

\* R is RAM r but for the first k of the words w, from address a up.
Holding(R, r, a, w, k) ==
    /\ R \in Memory
    /\ \A e \in Words : e - a \in 0 .. k - 1 => R[e] = w[e - a + 1]
    /\ \A e \in Words : e - a \notin 0 .. k - 1 => R[e] = r[e]

\* Part is such a RAM.
LEMMA PartHolds ==
    ASSUME NEW r \in Memory, NEW a \in Nat, NEW w \in Seq(Words), NEW k \in 0 .. Len(w)
    PROVE  Holding(Part(r, a, w, k), r, a, w, k)
BY PartType, PartInside, PartOutside DEF Holding

\* Two that hold the same are the same.
LEMMA SameMemory ==
    ASSUME NEW f \in Memory, NEW g \in Memory, \A e \in Words : f[e] = g[e]
    PROVE  f = g
<1>1. f = [e \in Words |-> f[e]] /\ g = [e \in Words |-> g[e]]
  BY DEF Memory
<1> QED
  BY <1>1

\* RAM with a word at address b.
Cell(r, b, v) == Part(r, b, <<v>>, 1)

\* R is RAM r with v at address b.
Holder(R, r, b, v) == R \in Memory /\ R[b] = v /\ \A e \in Words : e # b => R[e] = r[e]

\* Cell is such a RAM.
LEMMA CellIs ==
    ASSUME NEW r \in Memory, NEW b \in Words, NEW v \in Words
    PROVE  Cell(r, b, v) = Stored(r, b, <<v>>) /\ Holder(Cell(r, b, v), r, b, v)
<1> DEFINE w == <<v>>
<1>1. w \in Seq(Words) /\ Len(w) = 1 /\ w # <<>> /\ w[1] = v
  OBVIOUS
<1> HIDE DEF w
<1>2. b \in Nat /\ b + Len(w) <= Order /\ 1 \in 0 .. Len(w) /\ Order \in Nat
  BY <1>1, MachineAssumption DEF Words
<1>3. /\ Part(r, b, w, 1) \in Memory
      /\ \A e \in Words : e - b \in 0 .. 1 - 1 => Part(r, b, w, 1)[e] = w[e - b + 1]
      /\ \A e \in Words : e - b \notin 0 .. 1 - 1 => Part(r, b, w, 1)[e] = r[e]
  BY <1>1, <1>2, PartType, PartInside, PartOutside
<1>4. Stored(r, b, w) = Part(r, b, w, 1)
  BY <1>1, <1>2, StoredIsPart, Zenon
<1>5. b - b \in 0 .. 1 - 1 /\ b - b + 1 = 1
  BY <1>2
<1>6. Part(r, b, w, 1)[b] = w[1]
  BY <1>3, <1>5
<1>7. ASSUME NEW e \in Words, e # b PROVE Part(r, b, w, 1)[e] = r[e]
  <2>1. e - b \notin 0 .. 1 - 1
    BY <1>2, <1>7 DEF Words
  <2> QED
    BY <1>3, <2>1
<1> QED
  BY <1>1, <1>3, <1>4, <1>6, <1>7 DEF Cell, Holder, w

\* A word above the words w, or w below it.
LEMMA CellAbove ==
    ASSUME NEW r \in Memory, NEW a \in Nat, NEW m \in Nat, NEW b, b = a + m, b \in Words,
           NEW w \in Seq(Words), Len(w) = m, NEW v \in Words
    PROVE  Cell(Part(r, a, w, m), b, v) = Part(Cell(r, b, v), a, w, m)
<1> DEFINE q == Part(r, a, w, m)
           s == Cell(r, b, v)
           f == Cell(q, b, v)
           g == Part(s, a, w, m)
<1>1. b \in Nat /\ m \in 0 .. Len(w)
  BY DEF Words
<1>2. /\ q \in Memory
      /\ \A e \in Words : e - a \in 0 .. m - 1 => q[e] = w[e - a + 1]
      /\ \A e \in Words : e - a \notin 0 .. m - 1 => q[e] = r[e]
  <2>1. Holding(q, r, a, w, m)
    BY <1>1, PartHolds
  <2> QED
    BY <2>1 DEF Holding
<1>3. s \in Memory /\ s[b] = v /\ \A e \in Words : e # b => s[e] = r[e]
  <2>1. Holder(s, r, b, v)
    BY CellIs, Zenon
  <2> QED
    BY <2>1 DEF Holder
<1> HIDE DEF q, s
<1>4. f \in Memory /\ f[b] = v /\ \A e \in Words : e # b => f[e] = q[e]
  <2>1. Holder(f, q, b, v)
    BY <1>2, CellIs, Zenon
  <2> QED
    BY <2>1 DEF Holder
<1>5. /\ g \in Memory
      /\ \A e \in Words : e - a \in 0 .. m - 1 => g[e] = w[e - a + 1]
      /\ \A e \in Words : e - a \notin 0 .. m - 1 => g[e] = s[e]
  <2>1. Holding(g, s, a, w, m)
    BY <1>1, <1>3, PartHolds
  <2> QED
    BY <2>1 DEF Holding
<1>6. b - a \notin 0 .. m - 1
  BY <1>1
<1> HIDE DEF f, g
<1>7. ASSUME NEW e \in Words PROVE f[e] = g[e]
  <2>1. CASE e = b
    BY <1>3, <1>4, <1>5, <1>6, <2>1
  <2>2. CASE e # b /\ e - a \in 0 .. m - 1
    BY <1>2, <1>4, <1>5, <2>2
  <2>3. CASE e # b /\ e - a \notin 0 .. m - 1
    BY <1>2, <1>3, <1>4, <1>5, <2>3
  <2> QED
    BY <2>1, <2>2, <2>3
<1>8. f = g
  BY <1>4, <1>5, <1>7, SameMemory
<1> QED
  BY <1>8 DEF f, g, q, s

\* The first of the words that are stored becomes v.
Renewed(r, a, m, w, v) ==
    /\ a \in Words /\ [w EXCEPT ![1] = v] \in Seq(Words) /\ Len([w EXCEPT ![1] = v]) = m
    /\ Part(r, a, w, m)[a] = w[1] /\ w[1] \in Words
    /\ Cell(Part(r, a, w, m), a, v) = Part(r, a, [w EXCEPT ![1] = v], m)

\* Then the cells hold v and the others.
LEMMA CellFirst ==
    ASSUME NEW r \in Memory, NEW a \in Nat, NEW m \in Nat, m # 0, a + m <= Order,
           NEW w \in Seq(Words), Len(w) = m, NEW v \in Words
    PROVE  Renewed(r, a, m, w, v)
<1> DEFINE q == Part(r, a, w, m)
           z == [w EXCEPT ![1] = v]
           f == Cell(q, a, v)
           g == Part(r, a, z, m)
<1>1. a \in Words /\ m \in 0 .. Len(w) /\ 1 \in 1 .. Len(w) /\ a - a \in 0 .. m - 1 /\ a - a + 1 = 1
  BY MachineAssumption DEF Words
<1>2. z \in Seq(Words) /\ Len(z) = m /\ z[1] = v /\ w[1] \in Words
      /\ \A i \in 1 .. m : i # 1 => z[i] = w[i]
  BY <1>1
<1>3. /\ q \in Memory
      /\ \A e \in Words : e - a \in 0 .. m - 1 => q[e] = w[e - a + 1]
      /\ \A e \in Words : e - a \notin 0 .. m - 1 => q[e] = r[e]
  <2>1. Holding(q, r, a, w, m)
    BY <1>1, PartHolds
  <2> QED
    BY <2>1 DEF Holding
<1> HIDE DEF q, z
<1>4. f \in Memory /\ f[a] = v /\ \A e \in Words : e # a => f[e] = q[e]
  <2>1. Holder(f, q, a, v)
    BY <1>1, <1>3, CellIs, Zenon
  <2> QED
    BY <2>1 DEF Holder
<1>5. /\ g \in Memory
      /\ \A e \in Words : e - a \in 0 .. m - 1 => g[e] = z[e - a + 1]
      /\ \A e \in Words : e - a \notin 0 .. m - 1 => g[e] = r[e]
  <2>1. Holding(g, r, a, z, m)
    BY <1>1, <1>2, PartHolds
  <2> QED
    BY <2>1 DEF Holding
<1> HIDE DEF f, g
<1>6. ASSUME NEW e \in Words PROVE f[e] = g[e]
  <2>1. CASE e = a
    BY <1>1, <1>2, <1>4, <1>5, <2>1
  <2>2. CASE e # a /\ e - a \in 0 .. m - 1
    <3> DEFINE i == e - a + 1
    <3>1. i \in 1 .. m /\ i # 1
      BY <1>1, <2>2 DEF Words
    <3>2. f[e] = w[i] /\ g[e] = z[i]
      BY <1>3, <1>4, <1>5, <2>2
    <3> HIDE DEF i
    <3> QED
      BY <1>2, <3>1, <3>2
  <2>3. CASE e # a /\ e - a \notin 0 .. m - 1
    BY <1>3, <1>4, <1>5, <2>3
  <2> QED
    BY <2>1, <2>2, <2>3
<1>7. f = g
  BY <1>4, <1>5, <1>6, SameMemory
<1>8. q[a] = w[1]
  BY <1>1, <1>3
<1> QED
  BY <1>1, <1>2, <1>7, <1>8 DEF Renewed, f, g, q, z

\* The rest of a deep dup: the word is copied into a cell, and all the words
\* come back with it.
LEMMA DeepDupRule ==
    ASSUME NEW x, NEW p \in Nat, NEW m \in Nat, m # 0, NEW n \in 1 .. Order - 1, n = m + 1, 1 \in Words,
           NEW r \in Memory, NEW a \in Nat, Free(r, a, n), NEW w \in Seq(Words), Len(w) = m, NEW s \in Deep,
           NEW c, NEW v \in Words, s[Window - 1] = v, Placed(x, p, DeepDup(m, n)),
           Inside(x, p, p + Len(DeepDup(m, n)) - 1), x.cells = n, x.start.ram = r,
           Good(x, At(p + Len(DeepDup(m, n)), Put(Less(a + m, 1), Put(v, w \o s)), r, c))
    PROVE  Good(x, At(p, Put(Plus(a, m), s), Part(r, a, w, m), c))
<1> DEFINE b == a + m
           R0 == Part(r, a, w, m)
           r1 == Cell(r, b, v)
           R1 == Part(r1, a, w, m)
           hi == p + Len(DeepDup(m, n)) - 1
           u == w \o s
           vs == <<v>>
           l1 == Len(Restore(1))
           l == Len(Restore(m))
           d == Literal(-2)
           h == Literal(n)
           e == Less(a, 1)
           f == Plus(b, 1)
<1>1. Order \in Nat /\ n \in Nat /\ a + n <= Order /\ b \in Nat /\ b + 1 <= Order /\ 2 < Order /\ n < Order
      /\ a + m <= Order /\ a <= Order
  <2>1. Order \in Nat /\ n \in Nat /\ n < Order /\ 1 <= m
    <3>1. Order \in Nat
      BY MachineAssumption
    <3> QED
      BY <3>1
  <2>2. a \in 0 .. Order - n
    BY DEF Free
  <2> HIDE DEF R0, r1, R1, hi, u, vs, l1, l, d, h, e, f
  <2>3. a + n <= Order
    BY <2>1, <2>2
  <2> QED
    BY <2>1, <2>3
<1>2. b \in Words
  BY <1>1 DEF Words
<1>3. Plus(a, m) = b
  BY <1>2, Residues DEF Plus
<1>4. /\ l1 \in Nat /\ l \in Nat
      /\ \E q \in Nat : DeepDupAt(x, p, m, n, q)
  BY <1>1, DeepDupCode
<1>5. PICK q \in Nat : DeepDupAt(x, p, m, n, q)
  BY <1>4
<1>6. /\ q = p + 5 + l /\ x.code[p] = <<"dup", Window - 1>> /\ x.code[p + 1] = <<"swap", 1>>
      /\ x.code[p + 2] = <<"write_mem", 1>> /\ x.code[p + 3] = <<"push", d>>
      /\ x.code[p + 4] = <<"add", 0>> /\ Placed(x, p + 5, Restore(m))
      /\ x.code[q] = <<"push", h>> /\ x.code[q + 1] = <<"add", 0>>
      /\ Placed(x, q + 2, Restore(1)) /\ p + Len(DeepDup(m, n)) = q + 2 + l1
  BY <1>5 DEF DeepDupAt
<1>7. vs \in Seq(Words) /\ Len(vs) = 1
  OBVIOUS
<1>8. u \in Deep /\ Put(b, s) \in Deep /\ Put(v, s) \in Deep /\ Put(b, Put(v, s)) \in Deep
  <2>1. Over(w, 0) \o s \in Deep /\ Over(w, 0) \o s = w \o s
    <3>1. 0 \in 0 .. Len(w)
      OBVIOUS
    <3> QED
      BY <3>1, OverHead, Zenon
  <2> QED
    BY <1>2, <2>1, DeepFacts, Zenon
<1>9. Put(v, u) = vs \o u
  BY DEF Put
<1>10. e \in Words /\ f \in Words /\ d \in Words /\ h \in Words
       /\ Plus(h, e) = Less(b + 1, 1) /\ Less(b + 1, 1) = b /\ Plus(d, f) = Less(b, 1)
  <2>1. Plus(Literal(n), (a - 1) % Order) = (a - 1 + n) % Order /\ Literal(n) \in Words
    <3>1. n \in Int /\ -Order < n /\ n < Order /\ a - 1 \in Int /\ -1 <= a - 1 /\ a - 1 <= Order
      BY <1>1
    <3> QED
      BY <3>1, Shifted
  <2>2. Plus(Literal(-2), (b + 1) % Order) = (b + 1 + -2) % Order /\ Literal(-2) \in Words
    <3>1. -2 \in Int /\ -Order < -2 /\ -2 < Order /\ b + 1 \in Int /\ -1 <= b + 1 /\ b + 1 <= Order
      BY <1>1
    <3> QED
      BY <3>1, Shifted
  <2>3. a - 1 + n = b /\ b + 1 - 1 = b /\ b + 1 + -2 = b - 1 /\ a - 1 \in Int /\ b + 1 \in Int
    BY <1>1
  <2> HIDE DEF b
  <2>4. b % Order = b
    <3>1. b \in Int
      BY <1>1
    <3> QED
      BY <1>2, <3>1, Residues
  <2>5. (a - 1) % Order \in Words /\ (b + 1) % Order \in Words
    BY <2>3, Residues, Zenon
  <2>6. e \in Words /\ f \in Words /\ d \in Words /\ h \in Words
    BY <2>1, <2>2, <2>5 DEF Plus, Less
  <2>7. Less(b + 1, 1) = b
    BY <2>3, <2>4 DEF Less
  <2>8. Plus(h, e) = b
    BY <2>1, <2>3, <2>4 DEF Less
  <2>9. Plus(d, f) = Less(b, 1)
    <3>1. Plus(d, f) = (b - 1) % Order
      BY <2>2, <2>3 DEF Plus
    <3> QED
      BY <3>1 DEF Less
  <2> QED
    BY <2>6, <2>7, <2>8, <2>9
<1>11. /\ r1 \in Memory /\ r1 = Stored(r, b, vs) /\ \A i \in Words : i # b => r1[i] = r[i]
  <2>1. Holder(r1, r, b, v) /\ r1 = Stored(r, b, vs)
    BY <1>2, CellIs
  <2> QED
    BY <2>1 DEF Holder
<1>12. r1 = Part(r, b, vs, 1)
  BY DEF Cell
<1>13. Stored(R0, b, vs) = R1 /\ R0 \in Memory
  <2>1. m \in 0 .. Len(w)
    OBVIOUS
  <2>2. R0 \in Memory
    BY <2>1, PartType
  <2>3. Cell(R0, b, v) = Stored(R0, b, vs)
    BY <1>2, <2>2, CellIs
  <2>4. Cell(R0, b, v) = R1
    BY <1>2, CellAbove
  <2> QED
    BY <2>2, <2>3, <2>4
<1>14. Free(r1, a, m) /\ Free(r, b, 1)
  <2>1. a \in 0 .. Order - m /\ b \in 0 .. Order - 1
    BY <1>1
  <2>2. ASSUME NEW k \in 0 .. m - 1 PROVE r1[a + k] = 0
    <3>1. a + k \in Words /\ a + k # b /\ k \in 0 .. n - 1
      <4> HIDE DEF R0, r1, R1, hi, u, vs, l1, l, d, h, e, f
      <4>1. k \in Nat /\ k < m /\ a + k \in Nat /\ a + k < b /\ b < Order
        BY <1>1
      <4>2. k \in 0 .. n - 1 /\ a + k # b
        BY <1>1, <4>1
      <4>3. a + k \in 0 .. Order - 1
        BY <1>1, <4>1
      <4> QED
        BY <4>2, <4>3 DEF Words
    <3>2. r[a + k] = 0
      BY <3>1, Zenon DEF Free
    <3> QED
      BY <1>11, <3>1, <3>2, Zenon
  <2>3. ASSUME NEW k \in 0 .. 1 - 1 PROVE r[b + k] = 0
    <3>1. m \in 0 .. n - 1 /\ b + k = a + m
      BY <1>1
    <3> QED
      BY <3>1 DEF Free
  <2> QED
    BY <2>1, <2>2, <2>3 DEF Free
<1>15. ASSUME NEW R \in Memory, \A i \in Words : i - a \notin 0 .. n - 1 => R[i] = r[i]
       PROVE  Clear(x, p, hi, R)
  <2>1. Elsewhere(R, r, a, n)
    BY <1>15, Zenon DEF Elsewhere
  <2> QED
    BY <1>1, <2>1, BorrowedIsSafe
<1> HIDE DEF b, R0, r1, R1, u, vs, l1, l, d, h, e, f
<1>16. \A k \in 0 .. m : Clear(x, p, hi, Part(r1, a, w, k)) /\ Clear(x, p, hi, Part(r, a, w, k))
  <2> SUFFICES ASSUME NEW k \in 0 .. m
               PROVE  Clear(x, p, hi, Part(r1, a, w, k)) /\ Clear(x, p, hi, Part(r, a, w, k))
    OBVIOUS
  <2>1. Holding(Part(r1, a, w, k), r1, a, w, k) /\ Holding(Part(r, a, w, k), r, a, w, k)
    BY <1>11, PartHolds, Zenon
  <2>2. ASSUME NEW i \in Words, i - a \notin 0 .. n - 1
        PROVE  Part(r1, a, w, k)[i] = r[i] /\ Part(r, a, w, k)[i] = r[i]
    <3>1. i - a \notin 0 .. k - 1 /\ i # b
      <4>1. i \in Int /\ m \in 0 .. n - 1 /\ k <= n /\ k \in Int
        BY <1>1 DEF Words
      <4>2. i # b
        <5> SUFFICES ASSUME i = a + m PROVE FALSE
          BY DEF b
        <5>1. i - a = m
          OBVIOUS
        <5> QED
          BY <2>2, <4>1, <5>1
      <4>3. i - a \in Int /\ k - 1 <= n - 1
        BY <1>1, <4>1
      <4> QED
        BY <2>2, <4>1, <4>2, <4>3
    <3> QED
      BY <1>11, <2>1, <3>1 DEF Holding
  <2> QED
    BY <1>15, <2>1, <2>2 DEF Holding
<1>17. \A k \in 0 .. 1 : Clear(x, p, hi, Part(r, b, vs, k))
  <2> SUFFICES ASSUME NEW k \in 0 .. 1 PROVE Clear(x, p, hi, Part(r, b, vs, k))
    OBVIOUS
  <2>1. Holding(Part(r, b, vs, k), r, b, vs, k)
    BY <1>1, <1>7, PartHolds, Zenon
  <2>2. ASSUME NEW i \in Words, i - a \notin 0 .. n - 1 PROVE Part(r, b, vs, k)[i] = r[i]
    <3>1. i - b \notin 0 .. k - 1
      <4>1. i \in Int /\ m \in 0 .. n - 1 /\ k \in 0 .. 1
        BY <1>1 DEF Words
      <4>2. i # b
        <5> SUFFICES ASSUME i = a + m PROVE FALSE
          BY DEF b
        <5>1. i - a = m
          OBVIOUS
        <5> QED
          BY <2>2, <4>1, <5>1
      <4>3. b \in Int
        BY <1>1
      <4>4. i - b # 0
        BY <4>1, <4>2, <4>3
      <4> QED
        BY <4>1, <4>3, <4>4
    <3> QED
      BY <2>1, <3>1 DEF Holding
  <2> QED
    BY <1>15, <2>1, <2>2 DEF Holding
<1>18. Clear(x, p, hi, R0) /\ Clear(x, p, hi, R1) /\ Clear(x, p, hi, r1) /\ Clear(x, p, hi, r)
  <2>1. m \in 0 .. m /\ 0 \in 0 .. m /\ 0 \in 0 .. Len(w)
    OBVIOUS
  <2>2. Part(r1, a, w, 0) = r1 /\ Part(r, a, w, 0) = r
    BY <1>11, PartStart
  <2> QED
    BY <1>16, <2>1, <2>2 DEF R0, R1
<1>19. hi = q + 2 + l1 - 1 /\ hi \in Int /\ p \in Int
  <2>1. hi = (q + 2 + l1) - 1
    BY <1>6
  <2> HIDE DEF hi
  <2> QED
    BY <1>4, <2>1
<1> HIDE DEF hi
<1>20. /\ q \in p .. hi /\ q + 1 \in p .. hi /\ p + 3 \in p .. hi /\ p + 4 \in p .. hi
       /\ p + 2 \in p .. hi /\ p + 1 \in p .. hi /\ p \in p .. hi
  <2>1. q = p + 5 + l /\ l \in Nat /\ l1 \in Nat
    BY <1>4, <1>6
  <2> QED
    BY <1>19, <2>1
<1>21. Good(x, At(q + 2, Put(Less(b + 1, 1), u), r1, c))
  <2>1. Good(x, At(q + 2 + l1, Put(Less(b, 1), vs \o u), r, c))
    BY <1>6, <1>9 DEF b, u
  <2>2. \A k \in 0 .. 1 : Clear(x, q + 2, q + 2 + l1 - 1, Part(r, b, vs, k))
    <3>1. p <= q + 2 /\ hi <= q + 2 + l1 - 1 /\ q + 2 \in Int /\ q + 2 + l1 - 1 \in Int
      <4>1. q = p + 5 + l /\ l \in Nat /\ l1 \in Nat
        BY <1>4, <1>6
      <4> QED
        BY <1>19, <4>1
    <3> QED
      BY <1>17, <1>19, <3>1, ClearPart
  <2>3. q + 2 \in Nat /\ b \in Nat
    BY <1>1
  <2>4. Good(x, At(q + 2, Put(Less(b + 1, 1), u), Part(r, b, vs, 1), c))
    BY <1>6, <1>7, <1>8, <1>14, <2>1, <2>2, <2>3, RestoreGivesBack, Zenon DEF l1
  <2> QED
    BY <1>12, <2>4
<1>22. Good(x, At(q, Put(e, u), r1, c))
  <2>1. Good(x, At(q + 2, Put(Plus(h, e), u), r1, c))
    BY <1>10, <1>21
  <2>2. Safe(x, At(q, Put(e, u), r1, c)) /\ Safe(x, At(q + 1, Put(h, Put(e, u)), r1, c))
    BY <1>18, <1>20, ClearIsSafe, Zenon
  <2> QED
    BY <1>6, <1>8, <1>10, <2>1, <2>2, ShiftRule, Zenon
<1>23. Good(x, At(p + 5, Put(Less(a + m, 1), s), R1, c))
  <2>1. Good(x, At(p + 5 + l, Put(Less(a, 1), w \o s), r1, c))
    BY <1>6, <1>22 DEF e, u
  <2>2. \A k \in 0 .. m : Clear(x, p + 5, p + 5 + l - 1, Part(r1, a, w, k))
    <3>1. p <= p + 5 /\ p + 5 + l - 1 <= hi /\ p + 5 \in Int /\ p + 5 + l - 1 \in Int
      <4>1. q = p + 5 + l /\ l \in Nat /\ l1 \in Nat
        BY <1>4, <1>6
      <4> QED
        BY <1>19, <4>1
    <3> QED
      BY <1>16, <1>19, <3>1, ClearPart
  <2>3. p + 5 \in Nat
    OBVIOUS
  <2> QED
    BY <1>6, <1>11, <1>14, <2>1, <2>2, <2>3, RestoreGivesBack DEF l, R1
<1>24. Good(x, At(p + 3, Put(f, s), R1, c))
  <2>1. p + 3 + 2 = p + 5 /\ p + 3 + 1 = p + 4 /\ p + 3 \in Nat
    OBVIOUS
  <2>2. Good(x, At(p + 3 + 2, Put(Plus(d, f), s), R1, c))
    BY <1>10, <1>23, <2>1 DEF b
  <2>3. Safe(x, At(p + 3, Put(f, s), R1, c)) /\ Safe(x, At(p + 4, Put(d, Put(f, s)), R1, c))
    BY <1>18, <1>20, ClearIsSafe, Zenon
  <2> QED
    BY <1>6, <1>10, <2>1, <2>2, <2>3, ShiftRule, Zenon
<1>25. Good(x, At(p + 2, Put(b, Put(v, s)), R0, c))
  <2>1. p + 2 + 1 = p + 3
    OBVIOUS
  <2>2. Good(x, At(p + 2 + 1, Put(Plus(b, 1), s), Stored(R0, b, vs), c))
    BY <1>13, <1>24, <2>1 DEF f
  <2>3. Safe(x, At(p + 2, Put(b, Put(v, s)), R0, c))
    BY <1>18, <1>20, ClearIsSafe, Zenon
  <2> QED
    BY <1>2, <1>6, <2>2, <2>3, WriteOneRule, Zenon DEF vs
<1>26. Good(x, At(p + 1, Put(v, Put(b, s)), R0, c))
  <2>1. p + 1 + 1 = p + 2
    OBVIOUS
  <2>2. Good(x, At(p + 1 + 1, Put(b, Put(v, s)), R0, c))
    BY <1>25, <2>1
  <2>3. Safe(x, At(p + 1, Put(v, Put(b, s)), R0, c))
    BY <1>18, <1>20, ClearIsSafe, Zenon
  <2> QED
    BY <1>2, <1>6, <2>2, <2>3, SwapOneRule, Zenon
<1>27. Good(x, At(p, Put(b, s), R0, c))
  <2>1. Put(b, s)[Window - 1 + 1] = v /\ Window - 1 \in 0 .. Window - 1
    <3>1. Window \in Nat /\ Window > 1
      BY MachineAssumption
    <3>2. \A i \in 1 .. Window : Put(b, s)[i + 1] = s[i]
      BY <1>2, Tops
    <3>3. Window - 1 \in 1 .. Window /\ Window - 1 \in 0 .. Window - 1
      BY <3>1
    <3>4. Put(b, s)[(Window - 1) + 1] = s[Window - 1]
      BY <3>2, <3>3
    <3> QED
      BY <3>4, <3>3
  <2>2. Safe(x, At(p, Put(b, s), R0, c))
    BY <1>18, <1>20, ClearIsSafe
  <2> QED
    BY <1>6, <1>8, <1>26, <2>1, <2>2, DupRule, Zenon
<1> QED
  BY <1>3, <1>27 DEF R0

\* Where the parts of a deep swap are.
DeepSwapAt(x, p, m) ==
    /\ x.code[p] = <<"dup", 0>> /\ x.code[p + 1] = <<"push", Literal(-m)>> /\ x.code[p + 2] = <<"add", 0>>
    /\ x.code[p + 3] = <<"read_mem", 1>> /\ x.code[p + 4] = <<"pop", 1>>
    /\ x.code[p + 5] = <<"swap", Window - 1>> /\ x.code[p + 6] = <<"dup", 1>>
    /\ x.code[p + 7] = <<"push", Literal(-m)>> /\ x.code[p + 8] = <<"add", 0>>
    /\ x.code[p + 9] = <<"write_mem", 1>> /\ x.code[p + 10] = <<"pop", 1>>
    /\ x.code[p + 11] = <<"push", Literal(-1)>> /\ x.code[p + 12] = <<"add", 0>>
    /\ Placed(x, p + 13, Restore(m)) /\ p + Len(DeepSwap(m)) = p + 13 + Len(Restore(m))

\* They are there.
LEMMA DeepSwapCode ==
    ASSUME NEW x, NEW p \in Nat, NEW m \in Nat, Placed(x, p, DeepSwap(m))
    PROVE  Len(Restore(m)) \in Nat /\ DeepSwapAt(x, p, m)
<1> DEFINE a == <<Dup(0), Push(-m), Add, ReadMem(1), Pop(1), Swap(Window - 1),
                  Dup(1), Push(-m), Add, WriteMem(1), Pop(1), Push(-1), Add>>
           b == Restore(m)
<1>1. a \in Seq(Instructions)
  <2>1. Window - 1 \in Nat /\ -m \in Int
    BY MachineAssumption
  <2>2. /\ Dup(0) \in Instructions /\ Push(-m) \in Instructions /\ Add \in Instructions
        /\ ReadMem(1) \in Instructions /\ Pop(1) \in Instructions /\ Swap(Window - 1) \in Instructions
        /\ Dup(1) \in Instructions /\ WriteMem(1) \in Instructions /\ Push(-1) \in Instructions
    BY <2>1, InstructionsAre
  <2> QED
    BY <2>2
<1>2. b \in Seq(Instructions) /\ Len(b) \in Nat
  BY RestoreIs
<1>3. /\ Len(a) = 13 /\ a[1] = <<"dup", 0>> /\ a[2] = <<"push", Literal(-m)>> /\ a[3] = <<"add", 0>>
      /\ a[4] = <<"read_mem", 1>> /\ a[5] = <<"pop", 1>> /\ a[6] = <<"swap", Window - 1>>
      /\ a[7] = <<"dup", 1>> /\ a[8] = <<"push", Literal(-m)>> /\ a[9] = <<"add", 0>>
      /\ a[10] = <<"write_mem", 1>> /\ a[11] = <<"pop", 1>> /\ a[12] = <<"push", Literal(-1)>>
      /\ a[13] = <<"add", 0>>
  BY DEF Dup, Push, Add, ReadMem, Pop, Swap, WriteMem
<1>4. DeepSwap(m) = a \o b
  BY DEF DeepSwap
<1> HIDE DEF a, b
<1>5. Placed(x, p, a \o b)
  BY <1>4
<1>6. Placed(x, p, a) /\ Placed(x, p + Len(a), b) /\ Len(a \o b) = Len(a) + Len(b)
  BY <1>1, <1>2, <1>5, PlacedConcat
<1>7. \A j \in 1 .. 13 : x.code[p + j - 1] = a[j]
  BY <1>3, <1>6, Zenon DEF Placed
<1>8. /\ x.code[p + 1 - 1] = a[1] /\ x.code[p + 2 - 1] = a[2] /\ x.code[p + 3 - 1] = a[3]
      /\ x.code[p + 4 - 1] = a[4] /\ x.code[p + 5 - 1] = a[5] /\ x.code[p + 6 - 1] = a[6]
  BY <1>7
<1>9. /\ x.code[p + 7 - 1] = a[7] /\ x.code[p + 8 - 1] = a[8] /\ x.code[p + 9 - 1] = a[9]
      /\ x.code[p + 10 - 1] = a[10] /\ x.code[p + 11 - 1] = a[11] /\ x.code[p + 12 - 1] = a[12]
      /\ x.code[p + 13 - 1] = a[13]
  BY <1>7
<1>10. /\ p + 1 - 1 = p /\ p + 2 - 1 = p + 1 /\ p + 3 - 1 = p + 2 /\ p + 4 - 1 = p + 3
       /\ p + 5 - 1 = p + 4 /\ p + 6 - 1 = p + 5 /\ p + 7 - 1 = p + 6 /\ p + 8 - 1 = p + 7
       /\ p + 9 - 1 = p + 8 /\ p + 10 - 1 = p + 9 /\ p + 11 - 1 = p + 10 /\ p + 12 - 1 = p + 11
       /\ p + 13 - 1 = p + 12
  OBVIOUS
<1>11. /\ x.code[p] = a[1] /\ x.code[p + 1] = a[2] /\ x.code[p + 2] = a[3] /\ x.code[p + 3] = a[4]
       /\ x.code[p + 4] = a[5] /\ x.code[p + 5] = a[6]
  BY <1>8, <1>10
<1>12. /\ x.code[p + 6] = a[7] /\ x.code[p + 7] = a[8] /\ x.code[p + 8] = a[9] /\ x.code[p + 9] = a[10]
       /\ x.code[p + 10] = a[11] /\ x.code[p + 11] = a[12] /\ x.code[p + 12] = a[13]
  BY <1>9, <1>10
<1>13. Placed(x, p + 13, b) /\ p + Len(DeepSwap(m)) = p + 13 + Len(b)
  <2> DEFINE l == Len(b)
  <2>1. Len(DeepSwap(m)) = 13 + l /\ l \in Nat /\ Placed(x, p + 13, b)
    BY <1>2, <1>3, <1>4, <1>6
  <2> HIDE DEF l
  <2>2. p + (13 + l) = p + 13 + l
    BY <2>1
  <2> QED
    BY <2>1, <2>2 DEF l
<1>14. Placed(x, p + 13, Restore(m)) /\ p + Len(DeepSwap(m)) = p + 13 + Len(Restore(m))
       /\ Len(Restore(m)) \in Nat
  BY <1>2, <1>13 DEF b
<1> QED
  BY <1>3, <1>11, <1>12, <1>14 DEF DeepSwapAt

\* A stack with one word changed.
LEMMA ExceptType ==
    ASSUME NEW t \in Seq(Words), NEW i \in 1 .. Len(t), NEW v \in Words
    PROVE  [t EXCEPT ![i] = v] \in Seq(Words) /\ Len([t EXCEPT ![i] = v]) = Len(t)
OBVIOUS

\* q is t but for the word i, which is v.
Changed(q, t, i, v) == \A k \in 1 .. Len(t) : q[k] = IF k = i THEN v ELSE t[k]

\* EXCEPT changes it so.
LEMMA ExceptAt ==
    ASSUME NEW t \in Seq(Words), NEW i \in 1 .. Len(t), NEW v \in Words, NEW q, q = [t EXCEPT ![i] = v]
    PROVE  Changed(q, t, i, v)
BY DEF Changed

\* A word of a stack.
LEMMA WordOf ==
    ASSUME NEW t \in Seq(Words), NEW i \in 1 .. Len(t)
    PROVE  t[i] \in Words
OBVIOUS

\* The top word changes places with a word below the pointer.
FarSwapped(g, e, v, s, j) ==
    /\ Exchanged(Put(g, Put(e, s)), Window - 1) = Put(v, Put(e, [s EXCEPT ![j] = g]))
    /\ [s EXCEPT ![j] = g] \in Deep

\* A swap does that.
LEMMA FarSwap ==
    ASSUME NEW g \in Words, NEW e \in Words, NEW v \in Words, NEW s \in Deep, s[Window - 2] = v,
           3 \in 0 .. Window - 1
    PROVE  FarSwapped(g, e, v, s, Window - 2)
<1> DEFINE j == Window - 2
           n == Len(s)
           z == [s EXCEPT ![j] = g]
           t == Put(g, Put(e, s))
           u == Put(v, Put(e, z))
           y == Exchanged(t, Window - 1)
<1>1. Window \in Nat /\ n \in Nat /\ n >= Window /\ s \in Seq(Words) /\ j \in 1 .. n /\ j # 1 /\ Window - 1 + 1 = j + 2
  <2>1. Window \in Nat /\ n \in Nat /\ n >= Window /\ s \in Seq(Words) /\ Window > 3
    <3>1. Window \in Nat /\ Len(s) \in Nat /\ Len(s) >= Window /\ s \in Seq(Words)
      BY DeepFacts
    <3>2. 3 <= Window - 1
      OBVIOUS
    <3> QED
      BY <3>1, <3>2
  <2> HIDE DEF n, z, t, u, y
  <2>2. j \in 1 .. n /\ j # 1 /\ Window - 1 + 1 = j + 2
    BY <2>1
  <2> QED
    BY <2>1, <2>2
<1>2. z \in Seq(Words) /\ Len(z) = n /\ z[j] = g /\ \A i \in 1 .. n : i # j => z[i] = s[i]
  BY <1>1
<1>3. z \in Deep
  BY <1>1, <1>2 DEF Deep
<1> HIDE DEF z
<1>4. ASSUME NEW a \in Words, NEW q \in Seq(Words), Len(q) = n
      PROVE  /\ Put(a, Put(e, q)) \in Seq(Words) /\ Len(Put(a, Put(e, q))) = n + 2
             /\ Put(a, Put(e, q))[1] = a /\ Put(a, Put(e, q))[2] = e
             /\ \A i \in 1 .. n : Put(a, Put(e, q))[i + 2] = q[i]
  <2> DEFINE f == Put(e, q)
  <2>1. f \in Seq(Words) /\ Len(f) = n + 1 /\ f[1] = e /\ \A i \in 1 .. n : f[i + 1] = q[i]
    <3>1. /\ f \in Seq(Words) /\ Len(f) = Len(q) + 1 /\ f[1] = e
          /\ \A i \in 1 .. Len(q) : f[i + 1] = q[i]
      BY PutFacts
    <3> HIDE DEF n, t, u, y, f
    <3> QED
      BY <1>4, <3>1
  <2> HIDE DEF f
  <2>2. /\ Put(a, f) \in Seq(Words) /\ Len(Put(a, f)) = Len(f) + 1 /\ Put(a, f)[1] = a
        /\ \A i \in 1 .. Len(f) : Put(a, f)[i + 1] = f[i]
    BY <2>1, PutFacts, Zenon
  <2>3. 1 \in 1 .. Len(f) /\ 1 + 1 = 2 /\ Len(f) + 1 = n + 2
    BY <1>1, <2>1
  <2>4. ASSUME NEW i \in 1 .. n PROVE Put(a, f)[i + 2] = q[i]
    <3>1. i + 1 \in 1 .. Len(f) /\ i + 1 + 1 = i + 2
      BY <1>1, <2>1
    <3>2. Put(a, f)[(i + 1) + 1] = f[i + 1]
      BY <2>2, <3>1
    <3> QED
      BY <2>1, <3>1, <3>2
  <2> QED
    BY <2>1, <2>2, <2>3, <2>4 DEF f
<1>5. /\ t \in Seq(Words) /\ Len(t) = n + 2 /\ t[1] = g /\ t[2] = e /\ \A i \in 1 .. n : t[i + 2] = s[i]
  BY <1>1, <1>4
<1>6. /\ u \in Seq(Words) /\ Len(u) = n + 2 /\ u[1] = v /\ u[2] = e /\ \A i \in 1 .. n : u[i + 2] = z[i]
  BY <1>2, <1>4
<1> HIDE DEF t, u
<1>7. t[j + 2] = v
  BY <1>1, <1>5, Zenon DEF j
<1>8. y = [t EXCEPT ![1] = v, ![j + 2] = g]
  BY <1>1, <1>5, <1>7, Zenon DEF Exchanged
<1> HIDE DEF j, n, y
<1>9. y \in Seq(Words) /\ Len(y) = n + 2
  <2> DEFINE q == [t EXCEPT ![1] = v]
             i == j + 2
  <2>1. 1 \in 1 .. Len(t) /\ i \in 1 .. Len(t)
    <3> DEFINE len == Len(t)
    <3>1. len = n + 2 /\ n \in Nat /\ j \in 1 .. n
      BY <1>1, <1>5
    <3> HIDE DEF len
    <3>2. 1 \in 1 .. len /\ j + 2 \in 1 .. len
      BY <3>1
    <3> QED
      BY <3>2 DEF len
  <2>2. q \in Seq(Words) /\ Len(q) = Len(t)
    BY <1>5, <2>1, ExceptType
  <2>3. y = [q EXCEPT ![i] = g]
    BY <1>8
  <2> HIDE DEF q, i
  <2>4. y \in Seq(Words) /\ Len(y) = Len(q)
    BY <2>1, <2>2, <2>3, ExceptType
  <2> QED
    BY <1>5, <2>2, <2>4
<1>10. DOMAIN t = 1 .. n + 2 /\ DOMAIN y = 1 .. n + 2 /\ DOMAIN u = 1 .. n + 2
  BY <1>5, <1>6, <1>9
<1>11. ASSUME NEW i \in 1 .. n + 2 PROVE y[i] = u[i]
  <2>1. y[i] = IF i = j + 2 THEN g ELSE IF i = 1 THEN v ELSE t[i]
    BY <1>1, <1>8, <1>10
  <2>2. CASE i = 1
    BY <1>1, <1>6, <2>1, <2>2
  <2>3. CASE i = 2
    <3>1. j + 2 # 2
      BY <1>1
    <3> QED
      BY <1>5, <1>6, <2>1, <2>3, <3>1
  <2>4. CASE i # 1 /\ i # 2
    <3> DEFINE k == i - 2
    <3>1. k \in 1 .. n /\ i = k + 2 /\ (i = j + 2 <=> k = j)
      BY <1>1, <2>4
    <3> HIDE DEF k
    <3>2. u[i] = z[k] /\ t[i] = s[k]
      BY <1>5, <1>6, <3>1
    <3>3. z[k] = IF k = j THEN g ELSE s[k]
      BY <1>2, <3>1
    <3> QED
      BY <2>1, <2>4, <3>1, <3>2, <3>3
  <2> QED
    BY <2>2, <2>3, <2>4
<1>12. y = u
  <2>1. y = [i \in 1 .. n + 2 |-> y[i]] /\ u = [i \in 1 .. n + 2 |-> u[i]]
    BY <1>6, <1>9, <1>10
  <2> QED
    BY <1>11, <2>1
<1> QED
  BY <1>3, <1>12 DEF FarSwapped, y, t, u, z, j

\* The rest of a deep swap: the word below changes places with the one in a
\* cell, and all the words come back.
LEMMA DeepSwapRule ==
    ASSUME NEW x, NEW p \in Nat, NEW m \in 1 .. Order - 1, 1 \in Words, 3 \in 0 .. Window - 1,
           NEW r \in Memory, NEW a \in Nat, Free(r, a, m), NEW w \in Seq(Words), Len(w) = m, NEW s \in Deep,
           NEW c, NEW v \in Words, s[Window - 2] = v, Placed(x, p, DeepSwap(m)),
           Inside(x, p, p + Len(DeepSwap(m)) - 1), x.cells = m, x.start.ram = r,
           Good(x, At(p + Len(DeepSwap(m)),
                      Put(Less(a, 1), [w EXCEPT ![1] = v] \o [s EXCEPT ![Window - 2] = w[1]]), r, c))
    PROVE  Good(x, At(p, Put(Plus(a, m), s), Part(r, a, w, m), c))
<1> DEFINE g == w[1]
           w2 == [w EXCEPT ![1] = v]
           s2 == [s EXCEPT ![Window - 2] = g]
           R0 == Part(r, a, w, m)
           R1 == Part(r, a, w2, m)
           hi == p + Len(DeepSwap(m)) - 1
           l == Len(Restore(m))
           d == Literal(-m)
           h == Literal(-1)
           e == Plus(a, m)
           es == Put(e, s)
           es2 == Put(e, s2)
<1>1. Order \in Nat /\ m \in Nat /\ m # 0 /\ m < Order /\ a + m <= Order /\ a <= Order
  <2>1. Order \in Nat
    BY MachineAssumption
  <2>2. a \in 0 .. Order - m
    BY DEF Free
  <2> HIDE DEF g, w2, s2, R0, R1, hi, l, d, h, e, es, es2
  <2>3. a + m <= Order
    BY <2>1, <2>2
  <2> QED
    BY <2>1, <2>3
<1>2. /\ a \in Words /\ w2 \in Seq(Words) /\ Len(w2) = m /\ R0[a] = g /\ g \in Words
      /\ Cell(R0, a, v) = R1
  <2>1. Renewed(r, a, m, w, v)
    BY <1>1, CellFirst
  <2> QED
    BY <2>1 DEF Renewed
<1>3. R0 \in Memory /\ R1 \in Memory
  <2>1. m \in 0 .. Len(w) /\ m \in 0 .. Len(w2)
    BY <1>1, <1>2
  <2> HIDE DEF w2
  <2> QED
    BY <1>2, <2>1, PartType
<1>4. Stored(R0, a, <<v>>) = R1
  BY <1>2, <1>3, CellIs
<1> HIDE DEF R0, R1, hi, l, d, h, e, g
<1>5. e \in Words /\ d \in Words /\ h \in Words /\ Plus(d, e) = a /\ Plus(h, e) = Less(a + m, 1)
  <2>1. Plus(Literal(-m), (a + m) % Order) = (a + m + -m) % Order /\ Literal(-m) \in Words
    <3>1. -m \in Int /\ -Order < -m /\ -m < Order /\ a + m \in Int /\ -1 <= a + m
      BY <1>1
    <3> QED
      BY <1>1, <3>1, Shifted, Zenon
  <2>2. Plus(Literal(-1), (a + m) % Order) = (a + m + -1) % Order /\ Literal(-1) \in Words
    <3>1. -1 \in Int /\ -Order < -1 /\ -1 < Order /\ a + m \in Int /\ -1 <= a + m
      BY <1>1
    <3> QED
      BY <1>1, <3>1, Shifted, Zenon
  <2>3. a + m + -m = a /\ a + m + -1 = a + m - 1 /\ a + m \in Int /\ a \in Int
    BY <1>1
  <2>4. a % Order = a /\ (a + m) % Order \in Words
    BY <1>2, <2>3, Residues
  <2>5. e = (a + m) % Order
    BY DEF e, Plus
  <2>6. Plus(d, e) = a
    BY <2>1, <2>3, <2>4, <2>5 DEF d
  <2>7. Plus(h, e) = Less(a + m, 1)
    BY <2>2, <2>3, <2>5 DEF h, Less
  <2> QED
    BY <2>1, <2>2, <2>4, <2>5, <2>6, <2>7 DEF d, h
<1>6. s2 \in Deep /\ Exchanged(Put(g, es), Window - 1) = Put(v, es2)
  <2>1. FarSwapped(g, e, v, s, Window - 2)
    BY <1>2, <1>5, FarSwap, Zenon
  <2> QED
    BY <2>1 DEF FarSwapped
<1> HIDE DEF w2, s2
<1>7. es \in Deep /\ es2 \in Deep /\ Put(g, es) \in Deep /\ Put(v, es2) \in Deep
      /\ Put(e, es) \in Deep /\ Put(e, Put(v, es2)) \in Deep
  BY <1>2, <1>5, <1>6, DeepFacts, Zenon
<1>8. l \in Nat /\ DeepSwapAt(x, p, m)
  BY <1>1, DeepSwapCode DEF l
<1>9. /\ x.code[p] = <<"dup", 0>> /\ x.code[p + 1] = <<"push", d>> /\ x.code[p + 2] = <<"add", 0>>
      /\ x.code[p + 3] = <<"read_mem", 1>> /\ x.code[p + 4] = <<"pop", 1>>
      /\ x.code[p + 5] = <<"swap", Window - 1>> /\ x.code[p + 6] = <<"dup", 1>>
      /\ x.code[p + 7] = <<"push", d>> /\ x.code[p + 8] = <<"add", 0>>
      /\ x.code[p + 9] = <<"write_mem", 1>> /\ x.code[p + 10] = <<"pop", 1>>
      /\ x.code[p + 11] = <<"push", h>> /\ x.code[p + 12] = <<"add", 0>>
      /\ Placed(x, p + 13, Restore(m)) /\ p + Len(DeepSwap(m)) = p + 13 + l
  BY <1>8 DEF DeepSwapAt, d, h, l
<1>10. hi = p + 13 + l - 1 /\ hi \in Int /\ p \in Int
  <2>1. hi = (p + 13 + l) - 1
    BY <1>9 DEF hi
  <2> QED
    BY <1>8, <2>1
<1>11. /\ p \in p .. hi /\ p + 1 \in p .. hi /\ p + 2 \in p .. hi /\ p + 3 \in p .. hi
       /\ p + 4 \in p .. hi /\ p + 5 \in p .. hi /\ p + 6 \in p .. hi /\ p + 7 \in p .. hi
       /\ p + 8 \in p .. hi /\ p + 9 \in p .. hi /\ p + 10 \in p .. hi /\ p + 11 \in p .. hi
       /\ p + 12 \in p .. hi
  BY <1>8, <1>10
<1>12. \A k \in 0 .. m : Clear(x, p, hi, Part(r, a, w, k)) /\ Clear(x, p, hi, Part(r, a, w2, k))
  <2> SUFFICES ASSUME NEW k \in 0 .. m
               PROVE  Clear(x, p, hi, Part(r, a, w, k)) /\ Clear(x, p, hi, Part(r, a, w2, k))
    OBVIOUS
  <2>1. Holding(Part(r, a, w, k), r, a, w, k) /\ Holding(Part(r, a, w2, k), r, a, w2, k)
    BY <1>2, PartHolds
  <2>2. \A i \in Words : i - a \notin 0 .. m - 1 => i - a \notin 0 .. k - 1
    <3>1. k <= m /\ k \in Int
      BY <1>1
    <3> QED
      BY <1>1, <3>1
  <2> QED
    <3>1. Elsewhere(Part(r, a, w, k), r, a, m) /\ Elsewhere(Part(r, a, w2, k), r, a, m)
      BY <2>1, <2>2, Zenon DEF Elsewhere, Holding
    <3>2. Part(r, a, w, k) \in Memory /\ Part(r, a, w2, k) \in Memory
      BY <2>1, Zenon DEF Holding
    <3> QED
      BY <1>1, <3>1, <3>2, BorrowedIsSafe DEF hi
<1>13. Clear(x, p, hi, R0) /\ Clear(x, p, hi, R1)
  <2>1. m \in 0 .. m
    BY <1>1
  <2> QED
    BY <1>12, <2>1 DEF R0, R1
<1>14. Good(x, At(p + 13, Put(Less(a + m, 1), s2), R1, c))
  <2>1. Good(x, At(p + 13 + l, Put(Less(a, 1), w2 \o s2), r, c))
    BY <1>9 DEF w2, s2, g
  <2>2. \A k \in 0 .. m : Clear(x, p + 13, p + 13 + l - 1, Part(r, a, w2, k))
    <3>1. p <= p + 13 /\ p + 13 + l - 1 <= hi /\ p + 13 \in Int /\ p + 13 + l - 1 \in Int
      BY <1>8, <1>10
    <3> QED
      BY <1>10, <1>12, <3>1, ClearPart
  <2>3. p + 13 \in Nat
    OBVIOUS
  <2> QED
    BY <1>1, <1>2, <1>6, <1>9, <2>1, <2>2, <2>3, RestoreGivesBack, Zenon DEF l, R1
<1> HIDE DEF es, es2
<1>15. Good(x, At(p + 11, Put(e, s2), R1, c))
  <2>1. p + 11 + 2 = p + 13 /\ p + 11 + 1 = p + 12 /\ p + 11 \in Nat
    OBVIOUS
  <2>2. Good(x, At(p + 11 + 2, Put(Plus(h, e), s2), R1, c))
    BY <1>5, <1>14, <2>1
  <2>3. Safe(x, At(p + 11, Put(e, s2), R1, c)) /\ Safe(x, At(p + 12, Put(h, Put(e, s2)), R1, c))
    BY <1>11, <1>13, ClearIsSafe, Zenon
  <2> QED
    BY <1>5, <1>6, <1>9, <2>1, <2>2, <2>3, ShiftRule, Zenon
<1>16. Good(x, At(p + 10, Put(Plus(a, 1), es2), R1, c))
  <2>1. p + 10 + 1 = p + 11 /\ a + 1 \in Int
    OBVIOUS
  <2>2. Plus(a, 1) \in Words
    BY <2>1, Residues DEF Plus
  <2>3. Good(x, At(p + 10 + 1, es2, R1, c)) /\ Safe(x, At(p + 10, Put(Plus(a, 1), es2), R1, c))
    BY <1>11, <1>13, <1>15, <2>1, ClearIsSafe, Zenon DEF es2
  <2> QED
    BY <1>7, <1>9, <2>2, <2>3, PopOneRule, Zenon
<1>17. Good(x, At(p + 9, Put(a, Put(v, es2)), R0, c))
  <2>1. p + 9 + 1 = p + 10
    OBVIOUS
  <2>2. Good(x, At(p + 9 + 1, Put(Plus(a, 1), es2), Stored(R0, a, <<v>>), c))
    BY <1>4, <1>16, <2>1
  <2>3. Safe(x, At(p + 9, Put(a, Put(v, es2)), R0, c))
    BY <1>11, <1>13, ClearIsSafe, Zenon
  <2> QED
    BY <1>2, <1>7, <1>9, <2>2, <2>3, WriteOneRule, Zenon
<1>18. Good(x, At(p + 7, Put(e, Put(v, es2)), R0, c))
  <2>1. p + 7 + 2 = p + 9 /\ p + 7 + 1 = p + 8 /\ p + 7 \in Nat
    OBVIOUS
  <2>2. Good(x, At(p + 7 + 2, Put(Plus(d, e), Put(v, es2)), R0, c))
    BY <1>5, <1>17, <2>1
  <2>3. Safe(x, At(p + 7, Put(e, Put(v, es2)), R0, c))
        /\ Safe(x, At(p + 8, Put(d, Put(e, Put(v, es2))), R0, c))
    BY <1>11, <1>13, ClearIsSafe, Zenon
  <2> QED
    BY <1>5, <1>7, <1>9, <2>1, <2>2, <2>3, ShiftRule, Zenon
<1>19. Good(x, At(p + 6, Put(v, es2), R0, c))
  <2>1. p + 6 + 1 = p + 7
    OBVIOUS
  <2>2. Good(x, At(p + 6 + 1, Put(e, Put(v, Put(e, s2))), R0, c))
        /\ Safe(x, At(p + 6, Put(v, Put(e, s2)), R0, c))
    BY <1>11, <1>13, <1>18, <2>1, ClearIsSafe, Zenon DEF es2
  <2>3. Good(x, At(p + 6, Put(v, Put(e, s2)), R0, c))
    BY <1>5, <1>6, <1>9, <2>2, DupOneRule, Zenon
  <2> QED
    BY <2>3 DEF es2
<1>20. Good(x, At(p + 5, Put(g, es), R0, c))
  <2>1. p + 5 + 1 = p + 6 /\ Window - 1 \in 0 .. Window - 1
    BY MachineAssumption
  <2>2. Good(x, At(p + 5 + 1, Exchanged(Put(g, es), Window - 1), R0, c))
        /\ Safe(x, At(p + 5, Put(g, es), R0, c))
    BY <1>6, <1>11, <1>13, <1>19, <2>1, ClearIsSafe, Zenon DEF es, es2
  <2> QED
    BY <1>7, <1>9, <2>1, <2>2, SwapAnyRule, Zenon
<1>21. Good(x, At(p + 4, Put(Less(a, 1), Put(g, es)), R0, c))
  <2>1. p + 4 + 1 = p + 5 /\ a - 1 \in Int
    OBVIOUS
  <2>2. Less(a, 1) \in Words
    BY <2>1, Residues DEF Less
  <2>3. Good(x, At(p + 4 + 1, Put(g, es), R0, c)) /\ Safe(x, At(p + 4, Put(Less(a, 1), Put(g, es)), R0, c))
    BY <1>11, <1>13, <1>20, <2>1, ClearIsSafe, Zenon
  <2> QED
    BY <1>7, <1>9, <2>2, <2>3, PopOneRule, Zenon
<1>22. Good(x, At(p + 3, Put(a, es), R0, c))
  <2>1. p + 3 + 1 = p + 4
    OBVIOUS
  <2>2. Good(x, At(p + 3 + 1, Put(Less(a, 1), Put(R0[a], es)), R0, c))
        /\ Safe(x, At(p + 3, Put(a, es), R0, c))
    BY <1>2, <1>11, <1>13, <1>21, <2>1, ClearIsSafe, Zenon DEF g, R0
  <2> QED
    BY <1>2, <1>3, <1>7, <1>9, <2>2, ReadOneRule, Zenon
<1>23. Good(x, At(p + 1, Put(e, es), R0, c))
  <2>1. p + 1 + 2 = p + 3 /\ p + 1 + 1 = p + 2 /\ p + 1 \in Nat
    OBVIOUS
  <2>2. Good(x, At(p + 1 + 2, Put(Plus(d, e), es), R0, c))
    BY <1>5, <1>22, <2>1
  <2>3. Safe(x, At(p + 1, Put(e, es), R0, c)) /\ Safe(x, At(p + 2, Put(d, Put(e, es)), R0, c))
    BY <1>11, <1>13, ClearIsSafe, Zenon
  <2> QED
    BY <1>5, <1>7, <1>9, <2>1, <2>2, <2>3, ShiftRule, Zenon
<1>24. Good(x, At(p, Put(e, s), R0, c))
  <2>1. Good(x, At(p + 1, Put(e, Put(e, s)), R0, c)) /\ Safe(x, At(p, Put(e, s), R0, c))
    BY <1>11, <1>13, <1>23, ClearIsSafe, Zenon DEF es
  <2> QED
    BY <1>5, <1>9, <2>1, DupZeroRule, Zenon
<1> QED
  BY <1>24 DEF e, R0

\* A part of a piece is in it.
LEMMA InsidePart ==
    ASSUME NEW x, NEW lo \in Int, NEW hi \in Int, NEW l \in Int, NEW h \in Int, lo <= l, h <= hi,
           Inside(x, lo, hi)
    PROVE  Inside(x, l, h)
BY DEF Inside

\* With the RAM it began with, the machine is safe in the piece.
LEMMA UntouchedIsClear ==
    ASSUME NEW x, NEW lo, NEW hi, Inside(x, lo, hi), NEW r, x.start.ram = r
    PROVE  Clear(x, lo, hi, r)
BY DEF Inside, Clear, Calm, Kept

\* The first m words of a stack and the others.
Parted(st, m, w, s) ==
    /\ w \in Seq(Words) /\ Len(w) = m /\ s \in Seq(Words) /\ Len(s) = Len(st) - m /\ st = w \o s
    /\ \A i \in 1 .. m : w[i] = st[i]
    /\ \A i \in 1 .. Len(st) - m : s[i] = st[m + i]

\* A stack is parted so.
LEMMA Parting ==
    ASSUME NEW st \in Seq(Words), NEW m \in Nat, m <= Len(st)
    PROVE  Parted(st, m, SubSeq(st, 1, m), Over(st, m))
<1> DEFINE w == SubSeq(st, 1, m)
           s == Over(st, m)
           n == Len(st)
           t == w \o s
<1>1. n \in Nat /\ \A i \in 1 .. n : st[i] \in Words
  OBVIOUS
<1>2. w \in Seq(Words) /\ Len(w) = m /\ \A i \in 1 .. m : w[i] = st[i]
  <2>1. \A i \in 1 .. m : st[i] \in Words
    BY <1>1
  <2>2. \A i \in 1 .. m : i \in 1 .. n
    BY <1>1
  <2> QED
    BY <1>1, <2>1, <2>2, SubSeqProperties
<1>3. s \in Seq(Words) /\ Len(s) = n - m /\ \A i \in 1 .. n - m : s[i] = st[i + m]
  BY OverIs
<1>4. \A i \in 1 .. n - m : s[i] = st[m + i]
  <2> SUFFICES ASSUME NEW i \in 1 .. n - m PROVE s[i] = st[m + i]
    OBVIOUS
  <2>1. i + m = m + i
    BY <1>1
  <2> QED
    BY <1>3, <2>1
<1> HIDE DEF w, s
<1>5. t \in Seq(Words) /\ Len(t) = m + Len(s)
      /\ \A i \in 1 .. m + Len(s) : t[i] = IF i <= m THEN w[i] ELSE s[i - m]
  <2>1. t = w \o s
    OBVIOUS
  <2>2. w \in Seq(Words) /\ s \in Seq(Words) /\ Len(w) = m
    BY <1>2, <1>3, Zenon
  <2> HIDE DEF t
  <2>3. Joined(t, w, s)
    BY <2>1, <2>2, Joining
  <2> QED
    BY <2>2, <2>3 DEF Joined
<1>6. m + Len(s) = n
  BY <1>1, <1>3
<1> HIDE DEF t, n
<1>7. ASSUME NEW i \in 1 .. n PROVE t[i] = st[i]
  <2>1. CASE i <= m
    <3>1. i \in 1 .. m
      BY <1>1, <2>1
    <3> QED
      BY <1>2, <1>5, <1>6, <2>1, <3>1
  <2>2. CASE ~(i <= m)
    <3>1. i - m \in 1 .. n - m /\ m + (i - m) = i
      BY <1>1, <2>2
    <3>2. s[i - m] = st[m + (i - m)]
      BY <1>4, <3>1
    <3>3. t[i] = s[i - m]
      BY <1>5, <1>6, <2>2
    <3> QED
      BY <3>1, <3>2, <3>3
  <2> QED
    BY <2>1, <2>2
<1>8. t = st
  <2>1. t = [i \in 1 .. n |-> t[i]] /\ st = [i \in 1 .. n |-> st[i]]
    BY <1>5, <1>6 DEF n
  <2> QED
    BY <1>7, <2>1
<1> QED
  BY <1>2, <1>3, <1>4, <1>8, Zenon DEF Parted, t, n, w, s

\* Wherever the words w have been moved to free cells, the rest goes on to t.
Resumes(x, n, m, rest, r, w, s, t, c) ==
    \A y \in Nat, a \in 0 .. Order - n :
       Free(r, a, n) /\ Placed(x, y, rest) /\ Inside(x, y, y + Len(rest) - 1)
       /\ (\A e \in Words : Good(x, At(y + Len(rest), Put(e, t), r, c)))
         => Good(x, At(y, Put(Plus(a, m), s), Part(r, a, w, m), c))

\* A deep access as far as the rest of its code.
LEMMA DeeplyRule ==
    ASSUME NEW x, NEW p \in Nat, NEW n \in 1 .. Order - 1, Preferred + n <= Order, Chunk > 1,
           NEW m \in Nat, m <= n, NEW rest \in Seq(Instructions), Placed(x, p, Deeply(n, m, rest)),
           NEW st \in Deep, NEW w \in Seq(Words), Len(w) = m, NEW s \in Deep, st = w \o s,
           NEW r \in Memory, NEW c \in Seq(Nat \X Nat), NEW f, NEW z, Searches(x, f, z),
           Safe(x, At(p, st, r, c)), Inside(x, p + 1, p + Len(Deeply(n, m, rest)) - 1),
           x.cells = n, x.start.ram = r, NEW t \in Deep,
           Good(x, At(p + Len(Deeply(n, m, rest)), t, r, c)),
           Resumes(x, n, m, rest, r, w, s, t, c)
    PROVE  Good(x, At(p, st, r, c))
<1> DEFINE lb == Len(Borrow(n))
           lw == Len(Batch("write_mem", m))
           lr == Len(rest)
           hi == p + Len(Deeply(n, m, rest)) - 1
<1>1. Deeply(n, m, rest) \in Seq(Instructions)
      /\ \E q \in Nat, y \in Nat, e \in Nat : DeeplyAt(x, p, n, m, rest, q, y, e)
  BY DeeplyCode, Zenon
<1>2. PICK q \in Nat, y \in Nat, e \in Nat : DeeplyAt(x, p, n, m, rest, q, y, e)
  BY <1>1, Zenon
<1>3. /\ q = p + lb /\ y = q + lw /\ e = y + lr /\ p < q /\ q <= y /\ y <= e
      /\ Placed(x, p, Borrow(n)) /\ Placed(x, q, Batch("write_mem", m)) /\ Placed(x, y, rest)
      /\ x.code[e] = <<"pop", 1>> /\ p + Len(Deeply(n, m, rest)) = e + 1
  BY <1>2 DEF DeeplyAt
<1>4. lb \in Nat /\ lw \in Nat /\ lr \in Nat /\ n \in Nat /\ Order \in Nat
  <2>1. n \in Nat /\ Order \in Nat
    BY MachineAssumption
  <2>2. Batch("write_mem", m) \in Seq(Instructions)
    BY BatchType
  <2>3. lb \in Nat
    BY <2>1, BorrowType
  <2>4. lw \in Nat /\ lr \in Nat
    BY <2>2
  <2> QED
    BY <2>1, <2>3, <2>4
<1>5. hi = e
  <2>1. hi = (e + 1) - 1
    BY <1>3
  <2> HIDE DEF hi
  <2> QED
    BY <2>1
<1>6. Inside(x, p + 1, e)
  BY <1>5, Zenon
<1> HIDE DEF lb, lw, lr, hi
<1>7. Inside(x, p + 1, p + lb - 1) /\ Inside(x, q, q + lw - 1) /\ Inside(x, y, y + lr - 1) /\ Inside(x, e, e)
  <2>1. /\ p + 1 \in Int /\ e \in Int /\ q \in Int /\ y \in Int /\ p + lb - 1 \in Int /\ q + lw - 1 \in Int
        /\ y + lr - 1 \in Int
    BY <1>4
  <2>2. p + 1 <= p + 1 /\ p + 1 <= q /\ p + 1 <= y /\ p + 1 <= e /\ e <= e
    <3>1. p < q /\ q <= y /\ y <= e
      BY <1>3
    <3> QED
      BY <3>1
  <2>3. p + lb - 1 <= e /\ q + lw - 1 <= e /\ y + lr - 1 <= e
    BY <1>3, <1>4
  <2>4. Inside(x, p + 1, p + lb - 1)
    BY <1>6, <2>1, <2>3, <2>2, InsidePart
  <2>5. Inside(x, q, q + lw - 1)
    BY <1>6, <2>1, <2>3, <2>2, InsidePart
  <2>6. Inside(x, y, y + lr - 1)
    BY <1>6, <2>1, <2>3, <2>2, InsidePart
  <2>7. Inside(x, e, e)
    BY <1>6, <2>1, <2>2, InsidePart
  <2> QED
    BY <2>4, <2>5, <2>6, <2>7
<1>8. \A b \in Words : Good(x, At(y + lr, Put(b, t), r, c))
  <2> SUFFICES ASSUME NEW b \in Words PROVE Good(x, At(y + lr, Put(b, t), r, c))
    OBVIOUS
  <2>1. Clear(x, e, e, r) /\ e \in e .. e
    <3>1. e \in e .. e
      OBVIOUS
    <3>2. Clear(x, e, e, r)
      BY <1>7, UntouchedIsClear, Zenon
    <3> QED
      BY <3>1, <3>2
  <2>2. Safe(x, At(e, Put(b, t), r, c))
    BY <2>1, ClearIsSafe
  <2>3. Good(x, At(e + 1, t, r, c))
    BY <1>3
  <2>4. Good(x, At(e, Put(b, t), r, c))
    BY <1>3, <2>2, <2>3, PopOneRule, Zenon
  <2> QED
    BY <1>3, <2>4
<1>9. ASSUME NEW b \in 0 .. Order - n, Free(r, b, n)
      PROVE  Good(x, At(q, Put(b, st), r, c))
  <2>1. b \in Nat /\ b \in Words /\ b + 0 = b
    BY <1>4 DEF Words
  <2>2. Plus(b, 0) = b
    BY <2>1, Residues DEF Plus
  <2>3. Good(x, At(y, Put(Plus(b, m), s), Part(r, b, w, m), c))
    BY <1>3, <1>7, <1>8, <1>9, Zenon DEF Resumes, lr
  <2>4. Good(x, At(q + lw, Put(Plus(b, m), s), Part(r, b, w, m), c))
    BY <1>3, <2>3
  <2>5. Good(x, At(q, Put(Plus(b, 0), w \o s), r, c))
    BY <1>3, <1>4, <1>7, <1>9, <2>1, <2>4, SpillRule, Zenon DEF lw
  <2> QED
    BY <2>2, <2>5
<1>10. Lent(x, p + lb, st, r, c, n)
  BY <1>3, <1>9, Zenon DEF Lent
<1>11. Clear(x, p + 1, p + lb - 1, r)
  BY <1>7, UntouchedIsClear, Zenon
<1> QED
  BY <1>3, <1>10, <1>11, BorrowFindsFreeCells, Zenon DEF lb

\* The code of the two accesses.
LEMMA DeepCodeType ==
    ASSUME NEW m \in Nat, NEW n \in Nat
    PROVE  DeepDup(m, n) \in Seq(Instructions) /\ DeepSwap(m) \in Seq(Instructions)
<1> DEFINE a == <<Dup(Window - 1), Swap(1), WriteMem(1), Push(-2), Add>>
           b == Restore(m)
           d == <<Push(n), Add>>
           e == Restore(1)
           ab == a \o b
           abd == ab \o d
           g == <<Dup(0), Push(-m), Add, ReadMem(1), Pop(1), Swap(Window - 1),
                  Dup(1), Push(-m), Add, WriteMem(1), Pop(1), Push(-1), Add>>
<1>1. a \in Seq(Instructions) /\ d \in Seq(Instructions) /\ g \in Seq(Instructions)
  <2>1. Window - 1 \in Nat /\ -m \in Int
    BY MachineAssumption
  <2>2. /\ Dup(Window - 1) \in Instructions /\ Swap(1) \in Instructions /\ WriteMem(1) \in Instructions
        /\ Push(-2) \in Instructions /\ Add \in Instructions /\ Push(n) \in Instructions
        /\ Dup(0) \in Instructions /\ Push(-m) \in Instructions /\ Swap(Window - 1) \in Instructions
        /\ ReadMem(1) \in Instructions /\ Pop(1) \in Instructions
        /\ Dup(1) \in Instructions /\ Push(-1) \in Instructions
    BY <2>1, InstructionsAre
  <2> QED
    BY <2>2
<1>2. b \in Seq(Instructions) /\ e \in Seq(Instructions)
  BY RestoreIs
<1>3. DeepDup(m, n) = abd \o e /\ DeepSwap(m) = g \o b
  BY DEF DeepDup, DeepSwap
<1> HIDE DEF a, b, d, e, g
<1>4. ab \in Seq(Instructions)
  BY <1>1, <1>2, ConcatProperties
<1> HIDE DEF ab
<1>5. abd \in Seq(Instructions)
  BY <1>1, <1>4, ConcatProperties
<1> HIDE DEF abd
<1> QED
  BY <1>1, <1>2, <1>3, <1>5, ConcatProperties

\* What the code of a dup below the window promises, anywhere in a program,
\* at any depth, from any stack that is deep enough and with any RAM: it ends
\* with the word on top and RAM as it was.
THEOREM DeepDupAccess ==
    ASSUME NEW x, NEW p \in Nat, NEW m \in Nat, m >= 2, NEW n \in 1 .. Order - 1, n = m + 1,
           Preferred + n <= Order, Chunk > 1, NEW depth \in Nat, depth = m + (Window - 2),
           NEW st \in Seq(Words), Len(st) >= depth + 3, NEW r \in Memory, NEW c \in Seq(Nat \X Nat),
           NEW f, NEW z, Searches(x, f, z), Placed(x, p, Deeply(n, m, DeepDup(m, n))),
           Safe(x, At(p, st, r, c)), Inside(x, p + 1, p + Len(Deeply(n, m, DeepDup(m, n))) - 1),
           x.cells = n, x.start.ram = r,
           Good(x, At(p + Len(Deeply(n, m, DeepDup(m, n))), Put(st[depth + 1], st), r, c))
    PROVE  Good(x, At(p, st, r, c))
<1> DEFINE rest == DeepDup(m, n)
           w == SubSeq(st, 1, m)
           s == Over(st, m)
           v == st[depth + 1]
           t == Put(v, st)
<1>1. Window \in Nat /\ Window > 2 /\ Order \in Nat
  BY MachineAssumption
<1>2. m \in Nat /\ m # 0 /\ m <= n /\ 1 \in Words /\ n \in Nat
  <2> HIDE DEF rest, w, s, v, t
  <2>1. m \in Nat /\ m # 0 /\ m <= n /\ 1 \in 0 .. Order - 1 /\ n \in Nat
    BY <1>1
  <2> QED
    BY <2>1 DEF Words
<1>3. rest \in Seq(Instructions)
  BY <1>2, DeepCodeType
<1>4. Len(st) \in Nat /\ m <= Len(st) /\ Len(st) - m >= Window /\ depth + 1 \in 1 .. Len(st)
      /\ Window - 1 \in 1 .. Len(st) - m /\ m + (Window - 1) = depth + 1
  <2> DEFINE l == Len(st)
  <2>1. l \in Nat /\ l >= depth + 3
    OBVIOUS
  <2> HIDE DEF l, rest, w, s, v, t
  <2>2. m <= l /\ l - m >= Window
    BY <1>1, <1>2, <2>1
  <2>3. depth + 1 \in 1 .. l /\ Window - 1 \in 1 .. l - m /\ m + (Window - 1) = depth + 1
    BY <1>1, <1>2, <2>1, <2>2
  <2> QED
    BY <2>1, <2>2, <2>3 DEF l
<1>5. Parted(st, m, w, s)
  BY <1>2, <1>4, Parting, Zenon
<1>6. w \in Seq(Words) /\ Len(w) = m /\ s \in Seq(Words) /\ Len(s) = Len(st) - m /\ st = w \o s
      /\ s[Window - 1] = st[m + (Window - 1)]
  BY <1>4, <1>5, Zenon DEF Parted
<1>7. s \in Deep /\ st \in Deep
  <2>1. Len(st) >= Window
    BY <1>1, <1>2, <1>4
  <2> QED
    BY <1>4, <1>6, <2>1, Zenon DEF Deep
<1>8. v \in Words /\ s[Window - 1] = v
  <2>1. v \in Words
    BY <1>4, WordOf, Zenon
  <2>2. s[Window - 1] = st[depth + 1]
    BY <1>4, <1>6, Zenon
  <2> QED
    BY <2>1, <2>2
<1>9. t \in Deep /\ t = Put(v, w \o s)
  BY <1>6, <1>7, <1>8, DeepFacts, Zenon
<1>10. Good(x, At(p + Len(Deeply(n, m, rest)), t, r, c))
  OBVIOUS
<1> HIDE DEF rest, w, s, v, t
<1>11. ASSUME NEW y \in Nat, NEW a \in 0 .. Order - n, Free(r, a, n), Placed(x, y, rest),
              Inside(x, y, y + Len(rest) - 1), \A e \in Words : Good(x, At(y + Len(rest), Put(e, t), r, c))
       PROVE  Good(x, At(y, Put(Plus(a, m), s), Part(r, a, w, m), c))
  <2>1. a \in Nat /\ a + m - 1 \in Int
    BY <1>1, <1>2
  <2>2. Less(a + m, 1) \in Words
    <3>1. a + m - 1 = (a + m) - 1
      BY <1>2
    <3> QED
      BY <2>1, <3>1, Residues DEF Less
  <2>3. Good(x, At(y + Len(rest), Put(Less(a + m, 1), Put(v, w \o s)), r, c))
    BY <1>9, <1>11, <2>2
  <2> QED
    BY <1>1, <1>2, <1>6, <1>7, <1>8, <1>11, <2>1, <2>3, DeepDupRule, Zenon DEF rest
<1>12. Placed(x, p, Deeply(n, m, rest)) /\ Inside(x, p + 1, p + Len(Deeply(n, m, rest)) - 1)
  BY DEF rest
<1>13. Resumes(x, n, m, rest, r, w, s, t, c)
  BY <1>11, Zenon DEF Resumes
<1> QED
  BY <1>2, <1>3, <1>6, <1>7, <1>9, <1>10, <1>12, <1>13, DeeplyRule, Zenon

\* The same for a swap: it ends with the two words exchanged and RAM as it was.
THEOREM DeepSwapAccess ==
    ASSUME NEW x, NEW p \in Nat, NEW m \in Nat, m >= 3, NEW n \in 1 .. Order - 1, n = m,
           Preferred + n <= Order, Chunk > 1, 3 \in 0 .. Window - 1, NEW depth \in Nat, depth = m + (Window - 3),
           NEW st \in Seq(Words), Len(st) >= depth + 3, NEW r \in Memory, NEW c \in Seq(Nat \X Nat),
           NEW f, NEW z, Searches(x, f, z), Placed(x, p, Deeply(n, m, DeepSwap(m))),
           Safe(x, At(p, st, r, c)), Inside(x, p + 1, p + Len(Deeply(n, m, DeepSwap(m))) - 1),
           x.cells = n, x.start.ram = r,
           Good(x, At(p + Len(Deeply(n, m, DeepSwap(m))), Exchanged(st, depth), r, c))
    PROVE  Good(x, At(p, st, r, c))
<1> DEFINE rest == DeepSwap(m)
           w == SubSeq(st, 1, m)
           s == Over(st, m)
           v == st[depth + 1]
           w2 == [w EXCEPT ![1] = v]
           s2 == [s EXCEPT ![Window - 2] = w[1]]
           t == Exchanged(st, depth)
<1>1. Window \in Nat /\ Window > 3 /\ Order \in Nat
  <2>1. Window \in Nat /\ Order \in Nat
    BY MachineAssumption
  <2> QED
    BY <2>1
<1>2. m \in Nat /\ m >= 3 /\ m <= n /\ 1 \in Words /\ m \in 1 .. Order - 1
  <2> HIDE DEF rest, w, s, v, w2, s2, t
  <2>1. m \in Nat /\ m >= 3 /\ m <= n /\ 1 \in 0 .. Order - 1 /\ m \in 1 .. Order - 1
    BY <1>1
  <2> QED
    BY <2>1 DEF Words
<1>3. rest \in Seq(Instructions)
  BY <1>2, DeepCodeType
<1>4. Len(st) \in Nat /\ m <= Len(st) /\ Len(st) - m >= Window /\ depth + 1 \in 1 .. Len(st)
      /\ Window - 2 \in 1 .. Len(st) - m /\ m + (Window - 2) = depth + 1
  <2> DEFINE l == Len(st)
  <2>1. l \in Nat /\ l >= depth + 3
    OBVIOUS
  <2> HIDE DEF l, rest, w, s, v, t, w2, s2
  <2>2. m <= l /\ l - m >= Window
    BY <1>1, <1>2, <2>1
  <2>3. depth + 1 \in 1 .. l /\ Window - 2 \in 1 .. l - m /\ m + (Window - 2) = depth + 1
    BY <1>1, <1>2, <2>1, <2>2
  <2> QED
    BY <2>1, <2>2, <2>3 DEF l
<1>5. Parted(st, m, w, s)
  BY <1>2, <1>4, Parting, Zenon
<1>6. w \in Seq(Words) /\ Len(w) = m /\ s \in Seq(Words) /\ Len(s) = Len(st) - m /\ st = w \o s
      /\ s[Window - 2] = st[m + (Window - 2)]
      /\ (\A i \in 1 .. m : w[i] = st[i]) /\ (\A i \in 1 .. Len(st) - m : s[i] = st[m + i])
  BY <1>4, <1>5, Zenon DEF Parted
<1>7. s \in Deep /\ st \in Deep
  <2>1. Len(st) >= Window
    BY <1>1, <1>2, <1>4
  <2> QED
    BY <1>4, <1>6, <2>1, Zenon DEF Deep
<1>8. v \in Words /\ s[Window - 2] = v /\ w[1] \in Words /\ w[1] = st[1]
  <2>1. v \in Words
    BY <1>4, WordOf, Zenon
  <2>2. s[Window - 2] = v
    BY <1>4, <1>6, Zenon
  <2>3. 1 \in 1 .. m
    BY <1>2
  <2>4. w[1] = st[1]
    BY <1>6, <2>3
  <2>5. w[1] \in Words
    BY <1>6, <2>3, WordOf
  <2> QED
    BY <2>1, <2>2, <2>4, <2>5
<1> HIDE DEF w, s, v, rest
<1>9. w2 \in Seq(Words) /\ Len(w2) = m /\ w2[1] = v /\ \A i \in 1 .. m : i # 1 => w2[i] = w[i]
  BY <1>2, <1>6, <1>8
<1>10. /\ s2 \in Seq(Words) /\ Len(s2) = Len(s) /\ s2[Window - 2] = w[1]
       /\ \A i \in 1 .. Len(s) : i # Window - 2 => s2[i] = s[i]
  <2>1. Window - 2 \in 1 .. Len(s)
    BY <1>4, <1>6
  <2>2. s2 \in Seq(Words) /\ Len(s2) = Len(s)
    BY <1>6, <1>8, <2>1, ExceptType, Zenon
  <2>3. \A i \in 1 .. Len(s) : s2[i] = IF i = Window - 2 THEN w[1] ELSE s[i]
    <3> DEFINE j == Window - 2
               b == w[1]
    <3>1. s \in Seq(Words) /\ j \in 1 .. Len(s) /\ b \in Words
      BY <1>6, <1>8, <2>1
    <3>2. s2 = [s EXCEPT ![j] = b]
      OBVIOUS
    <3> HIDE DEF j, b, s2
    <3>3. Changed(s2, s, j, b)
      BY <3>1, <3>2, ExceptAt
    <3> QED
      BY <3>3, Zenon DEF Changed, j, b
  <2> HIDE DEF s2
  <2> QED
    BY <2>1, <2>2, <2>3, Zenon
<1>11. t \in Seq(Words) /\ Len(t) = Len(st)
       /\ \A i \in 1 .. Len(st) : t[i] = IF i = depth + 1 THEN st[1] ELSE IF i = 1 THEN v ELSE st[i]
  <2> DEFINE j == depth + 1
             q == [st EXCEPT ![1] = v]
  <2>1. t = [q EXCEPT ![j] = st[1]] /\ st[1] \in Words
    BY <1>8 DEF Exchanged, v
  <2>2. 1 \in 1 .. Len(st) /\ j \in 1 .. Len(st)
    BY <1>4
  <2>3. q \in Seq(Words) /\ Len(q) = Len(st)
    BY <1>8, <2>2, ExceptType
  <2>4. \A i \in 1 .. Len(st) : q[i] = IF i = 1 THEN v ELSE st[i]
    <3>1. q = [st EXCEPT ![1] = v]
      OBVIOUS
    <3> HIDE DEF q
    <3>2. Changed(q, st, 1, v)
      BY <1>8, <2>2, <3>1, ExceptAt
    <3> QED
      BY <3>2, Zenon DEF Changed
  <2> HIDE DEF q, j, t
  <2>5. t \in Seq(Words) /\ Len(t) = Len(q)
    BY <2>1, <2>2, <2>3, ExceptType
  <2>6. \A i \in 1 .. Len(q) : t[i] = IF i = j THEN st[1] ELSE q[i]
    <3>1. Changed(t, q, j, st[1])
      BY <2>1, <2>2, <2>3, ExceptAt
    <3> QED
      BY <3>1, Zenon DEF Changed
  <2> QED
    BY <2>3, <2>4, <2>5, <2>6, Zenon DEF j
<1> HIDE DEF w2, s2, t
<1>12. w2 \o s2 = t
  <2> DEFINE u == w2 \o s2
             l == Len(st)
             k == Len(s)
  <2>1. u \in Seq(Words) /\ Len(u) = m + k /\ \A i \in 1 .. m + k : u[i] = IF i <= m THEN w2[i] ELSE s2[i - m]
    <3>1. /\ w2 \o s2 \in Seq(Words) /\ Len(w2 \o s2) = Len(w2) + Len(s2)
          /\ \A i \in 1 .. Len(w2) + Len(s2) :
                (w2 \o s2)[i] = IF i <= Len(w2) THEN w2[i] ELSE s2[i - Len(w2)]
      <4>1. w2 \in Seq(Words) /\ s2 \in Seq(Words)
        BY <1>9, <1>10
      <4> QED
        BY <4>1, ConcatProperties
    <3>2. Len(w2) = m /\ Len(s2) = k
      BY <1>9, <1>10
    <3> QED
      BY <3>1, <3>2, Zenon
  <2>2. l \in Nat /\ k = l - m /\ m + k = l
    BY <1>2, <1>4, <1>6
  <2> HIDE DEF u, l, k
  <2>3. ASSUME NEW i \in 1 .. l PROVE u[i] = t[i]
    <3>1. t[i] = IF i = depth + 1 THEN st[1] ELSE IF i = 1 THEN v ELSE st[i]
      BY <1>11 DEF l
    <3>2. CASE i <= m
      <4>1. i \in 1 .. m /\ i # depth + 1
        BY <1>1, <1>2, <2>2, <3>2
      <4>2. u[i] = w2[i]
        BY <2>1, <2>2, <3>2
      <4>3. w2[i] = IF i = 1 THEN v ELSE st[i]
        BY <1>6, <1>9, <4>1
      <4> QED
        BY <3>1, <4>1, <4>2, <4>3
    <3>3. CASE ~(i <= m)
      <4> DEFINE j == i - m
      <4>1. j \in 1 .. k /\ m + j = i /\ i # 1 /\ (j = Window - 2 <=> i = depth + 1)
        BY <1>1, <1>2, <1>4, <2>2, <3>3
      <4>2. u[i] = s2[j]
        BY <2>1, <2>2, <3>3, Zenon
      <4> HIDE DEF j
      <4>3. s2[j] = IF j = Window - 2 THEN w[1] ELSE s[j]
        BY <1>10, <4>1, Zenon DEF k
      <4>4. s[j] = st[i]
        BY <1>6, <2>2, <4>1, Zenon DEF l
      <4> QED
        BY <1>8, <3>1, <4>1, <4>2, <4>3, <4>4
    <3> QED
      BY <3>2, <3>3
  <2>4. u = t
    <3>1. u = [i \in 1 .. l |-> u[i]] /\ t = [i \in 1 .. l |-> t[i]]
      <4>1. u \in Seq(Words) /\ Len(u) = l
        BY <2>1, <2>2, Zenon
      <4>2. t \in Seq(Words) /\ Len(t) = l
        BY <1>11 DEF l
      <4> HIDE DEF l
      <4> QED
        BY <4>1, <4>2
    <3> QED
      BY <2>3, <3>1
  <2> QED
    BY <2>4 DEF u
<1>13. t \in Deep
  BY <1>7, <1>11 DEF Deep
<1>14. Good(x, At(p + Len(Deeply(n, m, rest)), t, r, c))
  BY DEF rest, t
<1>15. ASSUME NEW y \in Nat, NEW a \in 0 .. Order - n, Free(r, a, n), Placed(x, y, rest),
              Inside(x, y, y + Len(rest) - 1), \A e \in Words : Good(x, At(y + Len(rest), Put(e, t), r, c))
       PROVE  Good(x, At(y, Put(Plus(a, m), s), Part(r, a, w, m), c))
  <2>1. a \in Nat /\ a - 1 \in Int
    BY <1>1, <1>2
  <2>2. Less(a, 1) \in Words
    BY <2>1, Residues DEF Less
  <2>3. Good(x, At(y + Len(rest), Put(Less(a, 1), w2 \o s2), r, c))
    BY <1>12, <1>15, <2>2
  <2>4. Free(r, a, m) /\ x.cells = m
    BY <1>1, <1>15
  <2> QED
    BY <1>2, <1>6, <1>7, <1>8, <1>15, <2>1, <2>3, <2>4, DeepSwapRule, Zenon DEF rest, w2, s2
<1>16. Placed(x, p, Deeply(n, m, rest)) /\ Inside(x, p + 1, p + Len(Deeply(n, m, rest)) - 1)
  BY DEF rest
<1>17. Resumes(x, n, m, rest, r, w, s, t, c)
  BY <1>15, Zenon DEF Resumes
<1> QED
  BY <1>2, <1>3, <1>6, <1>7, <1>13, <1>14, <1>16, <1>17, DeeplyRule, Zenon

-----------------------------------------------------------------------------
(* A program of one operation.                                             *)

\* The only member is the largest.
LEMMA MaxOne == Max({1}) = 1
  BY DEF Max

\* The domains of no element and of one.
LEMMA NoDomain == DOMAIN <<>> = {}
  OBVIOUS

LEMMA OneDomain ==
    ASSUME NEW b
    PROVE  DOMAIN <<b>> = {1} /\ <<b>>[1] = b /\ Len(<<b>>) = 1
  OBVIOUS

\* A recursion over the subsets of {1}.
OverOne(g, v, base) == g = [s \in SUBSET {1} |-> IF s = {} THEN base ELSE v]

\* There is one such function.
LEMMA OverOneIs ==
    ASSUME NEW g, NEW v, NEW base, OverOne(g, v, base)
    PROVE  g[{}] = base /\ g[{1}] = v
  BY DEF OverOne

LEMMA OverOneExists ==
    ASSUME NEW v, NEW base
    PROVE  \E g : OverOne(g, v, base)
  BY Zenon DEF OverOne

\* Nothing is left of it without its member.
LEMMA OneLess ==
    ASSUME NEW s \in SUBSET {1}, s # {}
    PROVE  s = {1} /\ s \ {1} = {}
  BY Zenon


\* Sums over no block, and over one.
LEMMA OpsOfNone == SumOf(<<>>, LAMBDA x : x.ops) = 0
  BY NoDomain, Zenon DEF SumOf, FoldLeft, MapThenFoldSet

LEMMA LengthOfNone == SumOf(<<>>, LAMBDA x : Len(x.code)) = 0
  BY NoDomain, Zenon DEF SumOf, FoldLeft, MapThenFoldSet

\* The recursion by which SumOf counts operations, over no element and one.
OpsRecursion(g, t) ==
    g = [s \in SUBSET DOMAIN t |-> IF s = {} THEN 0 ELSE g[s \ {Max(s)}] + t[Max(s)].ops]

\* One block has its operations.
LEMMA OpsOfOne ==
    ASSUME NEW b
    PROVE  SumOf(<<b>>, LAMBDA x : x.ops) = 0 + b.ops
<1> DEFINE t == <<b>>
<1>1. SumOf(<<b>>, LAMBDA x : x.ops) = (CHOOSE g : OpsRecursion(g, t))[DOMAIN t]
  BY Zenon DEF SumOf, FoldLeft, MapThenFoldSet, OpsRecursion
<1>2. ASSUME NEW g, OpsRecursion(g, t) PROVE g[DOMAIN t] = 0 + b.ops
  <2>1. g = [s \in SUBSET {1} |-> IF s = {} THEN 0 ELSE g[s \ {Max(s)}] + t[Max(s)].ops]
    BY <1>2, OneDomain, Zenon DEF OpsRecursion
  <2>2. g[{}] = 0
    BY <2>1
  <2>3. g[{1}] = g[{1} \ {Max({1})}] + t[Max({1})].ops
    BY <2>1, Zenon
  <2>4. g[{1}] = 0 + b.ops
    BY <2>2, <2>3, MaxOne, OneDomain, OneLess
  <2> QED
    BY <2>4, OneDomain
<1>3. \E g : OpsRecursion(g, t)
  <2>1. PICK g : OverOne(g, 0 + b.ops, 0)
    BY OverOneExists
  <2>2. g[{}] = 0 /\ g[{1}] = 0 + b.ops
    BY <2>1, OverOneIs
  <2>3. ASSUME NEW s \in SUBSET {1}, s # {} PROVE 0 + b.ops = g[s \ {Max(s)}] + t[Max(s)].ops
    <3>1. s = {1} /\ s \ {1} = {}
      BY <2>3, OneLess
    <3> QED
      BY <2>2, <3>1, MaxOne, OneDomain
  <2>4. g = [s \in SUBSET {1} |-> IF s = {} THEN 0 ELSE g[s \ {Max(s)}] + t[Max(s)].ops]
    BY <2>1, <2>3, Zenon DEF OverOne
  <2>5. OpsRecursion(g, t)
    BY <2>4, OneDomain, Zenon DEF OpsRecursion
  <2> QED
    BY <2>5
<1> QED
  BY <1>1, <1>2, <1>3, Zenon

\* The same for the lengths of code.
LengthRecursion(g, t) ==
    g = [s \in SUBSET DOMAIN t |-> IF s = {} THEN 0 ELSE g[s \ {Max(s)}] + Len(t[Max(s)].code)]

\* One block has its code.
LEMMA LengthOfOne ==
    ASSUME NEW b
    PROVE  SumOf(<<b>>, LAMBDA x : Len(x.code)) = 0 + Len(b.code)
<1> DEFINE t == <<b>>
<1>1. SumOf(<<b>>, LAMBDA x : Len(x.code)) = (CHOOSE g : LengthRecursion(g, t))[DOMAIN t]
  BY Zenon DEF SumOf, FoldLeft, MapThenFoldSet, LengthRecursion
<1>2. ASSUME NEW g, LengthRecursion(g, t) PROVE g[DOMAIN t] = 0 + Len(b.code)
  <2>1. g = [s \in SUBSET {1} |-> IF s = {} THEN 0 ELSE g[s \ {Max(s)}] + Len(t[Max(s)].code)]
    BY <1>2, OneDomain, Zenon DEF LengthRecursion
  <2>2. g[{}] = 0
    BY <2>1
  <2>3. g[{1}] = g[{1} \ {Max({1})}] + Len(t[Max({1})].code)
    BY <2>1, Zenon
  <2>4. g[{1}] = 0 + Len(b.code)
    <3>1. Max({1}) = 1 /\ {1} \ {1} = {} /\ t[1] = b
      BY MaxOne, OneDomain
    <3> HIDE DEF t
    <3> QED
      BY <2>2, <2>3, <3>1, Zenon
  <2> QED
    BY <2>4, OneDomain
<1>3. \E g : LengthRecursion(g, t)
  <2>1. PICK g : OverOne(g, 0 + Len(b.code), 0)
    BY OverOneExists, Zenon
  <2>2. g[{}] = 0 /\ g[{1}] = 0 + Len(b.code)
    BY <2>1, OverOneIs
  <2>3. ASSUME NEW s \in SUBSET {1}, s # {} PROVE 0 + Len(b.code) = g[s \ {Max(s)}] + Len(t[Max(s)].code)
    <3>1. s = {1} /\ s \ {1} = {}
      BY <2>3, OneLess
    <3> QED
      BY <2>2, <3>1, MaxOne, OneDomain, Zenon
  <2>4. g = [s \in SUBSET {1} |-> IF s = {} THEN 0 ELSE g[s \ {Max(s)}] + Len(t[Max(s)].code)]
    BY <2>1, <2>3, Zenon DEF OverOne
  <2>5. LengthRecursion(g, t)
    BY <2>4, OneDomain, Zenon DEF LengthRecursion
  <2> QED
    BY <2>5
<1> QED
  BY <1>1, <1>2, <1>3, Zenon

\* The recursion by which Follow applies the operations.
MeaningRecursion(g, t, base) ==
    g = [s \in SUBSET DOMAIN t |-> IF s = {} THEN base ELSE Meaning(g[s \ {Max(s)}], t[Max(s)])]

\* One operation is applied.
LEMMA MeaningOfOne ==
    ASSUME NEW b, NEW base
    PROVE  FoldLeft(Meaning, base, <<b>>) = Meaning(base, b)
<1> DEFINE t == <<b>>
<1>1. FoldLeft(Meaning, base, <<b>>) = (CHOOSE g : MeaningRecursion(g, t, base))[DOMAIN t]
  BY Zenon DEF FoldLeft, MapThenFoldSet, MeaningRecursion
<1>2. ASSUME NEW g, MeaningRecursion(g, t, base) PROVE g[DOMAIN t] = Meaning(base, b)
  <2>1. g = [s \in SUBSET {1} |-> IF s = {} THEN base ELSE Meaning(g[s \ {Max(s)}], t[Max(s)])]
    BY <1>2, OneDomain, Zenon DEF MeaningRecursion
  <2>2. g[{}] = base
    BY <2>1
  <2>3. g[{1}] = Meaning(g[{1} \ {Max({1})}], t[Max({1})])
    BY <2>1, Zenon
  <2>4. g[{1}] = Meaning(base, b)
    BY <2>2, <2>3, MaxOne, OneDomain, OneLess
  <2> QED
    BY <2>4, OneDomain
<1>3. \E g : MeaningRecursion(g, t, base)
  <2>1. PICK g : OverOne(g, Meaning(base, b), base)
    BY OverOneExists
  <2>2. g[{}] = base /\ g[{1}] = Meaning(base, b)
    BY <2>1, OverOneIs
  <2>3. ASSUME NEW s \in SUBSET {1}, s # {} PROVE Meaning(base, b) = Meaning(g[s \ {Max(s)}], t[Max(s)])
    <3>1. s = {1} /\ s \ {1} = {}
      BY <2>3, OneLess
    <3> QED
      BY <2>2, <3>1, MaxOne, OneDomain
  <2>4. g = [s \in SUBSET {1} |-> IF s = {} THEN base ELSE Meaning(g[s \ {Max(s)}], t[Max(s)])]
    BY <2>1, <2>3, Zenon DEF OverOne
  <2>5. MeaningRecursion(g, t, base)
    BY <2>4, OneDomain, Zenon DEF MeaningRecursion
  <2> QED
    BY <2>5
<1> QED
  BY <1>1, <1>2, <1>3, Zenon


\* The parts of a sequence of one.
LEMMA OneSub ==
    ASSUME NEW op
    PROVE  SubSeq(<<op>>, 1, 1) = <<op>> /\ Head(<<op>>) = op /\ Len(SubSeq(<<op>>, 1, 0)) = 0
<1> DEFINE t == <<op>>
<1>1. t \in Seq({op}) /\ Len(t) = 1 /\ Head(t) = op
  OBVIOUS
<1> HIDE DEF t
<1>2. SubSeq(t, 1, 1) = t
  BY <1>1, SubSeqFull
<1>3. Len(SubSeq(t, 1, 0)) = 0
  BY <1>1, SubSeqProperties
<1> QED
  BY <1>1, <1>2, <1>3 DEF t

\* One operation is no shuffle.
LEMMA NoPlan ==
    ASSUME NEW op, Horizon \in Nat
    PROVE  Plan(<<op>>) = {}
<1> DEFINE ops == <<op>>
           Q(k) == /\ k <= Horizon /\ \A j \in 1 .. k : Pure(ops[j])
                   /\ k = Horizon \/ k = Len(ops) \/ ~Pure(ops[k + 1])
           n == CHOOSE k \in 0 .. Len(ops) : Q(k)
<1>1. Len(ops) = 1 /\ ops[1] = op
  OBVIOUS
<1>2. \E k \in 0 .. 1 : Q(k)
  <2>1. CASE Horizon = 0
    <3>1. Q(0)
      BY <2>1
    <3> QED
      BY <3>1
  <2>2. CASE Horizon # 0 /\ Pure(op)
    <3>1. Q(1)
      BY <2>2
    <3> QED
      BY <3>1
  <2>3. CASE Horizon # 0 /\ ~Pure(op)
    <3>1. ~Pure(ops[0 + 1]) /\ 0 <= Horizon
      BY <1>1, <2>3
    <3>2. Q(0)
      BY <3>1
    <3> QED
      BY <3>2
  <2> QED
    BY <2>1, <2>2, <2>3
<1>3. n \in 0 .. 1
  BY <1>1, <1>2
<1>4. Run(ops) = SubSeq(ops, 1, n)
  BY DEF Run
<1> HIDE DEF n, Q
<1>5. ~(Len(Run(ops)) >= 2)
  <2>1. n = 0 \/ n = 1
    BY <1>3
  <2>2. Len(Run(ops)) = 0 \/ Len(Run(ops)) = 1
    BY <1>1, <1>4, <2>1, OneSub
  <2> DEFINE l == Len(Run(ops))
  <2>3. l = 0 \/ l = 1
    BY <2>2
  <2> HIDE DEF l
  <2>4. ~(l >= 2)
    BY <2>3
  <2> QED
    BY <2>4 DEF l
<1>6. \A b : ~Worth(Run(ops), b)
  BY <1>5 DEF Worth
<1> HIDE DEF ops
<1>7. PlanOf(Run(ops), Final(Run(ops))) = {}
  BY <1>6 DEF PlanOf
<1> QED
  BY <1>7 DEF Plan, ops

\* The recursion of LowerOps over one operation.
Unrolled(g, b) ==
    g = [i \in 1 .. 2 |-> IF i > 1 THEN <<>> ELSE <<b>> \o g[i + b.ops]]

\* It ends with the one block.
LEMMA UnrolledIs ==
    ASSUME NEW b, b.ops = 1
    PROVE  (CHOOSE g : Unrolled(g, b))[1] = <<b>>
<1>1. ASSUME NEW g, Unrolled(g, b) PROVE g[1] = <<b>>
  <2>1. g[2] = <<>> /\ g[1] = <<b>> \o g[1 + 1]
    BY <1>1 DEF Unrolled
  <2>2. <<b>> \o <<>> = <<b>>
    OBVIOUS
  <2>3. g[1 + 1] = <<>>
    BY <2>1
  <2>4. g[1] = <<b>> \o g[1 + 1]
    BY <2>1
  <2> QED
    BY <2>2, <2>3, <2>4, Zenon
<1>2. \E g : Unrolled(g, b)
  <2> DEFINE g == [i \in 1 .. 2 |-> IF i > 1 THEN <<>> ELSE <<b>>]
  <2>1. g[2] = <<>> /\ <<b>> \o <<>> = <<b>>
    OBVIOUS
  <2>2. ASSUME NEW i \in 1 .. 2, ~(i > 1) PROVE <<b>> = <<b>> \o g[i + b.ops]
    <3>1. i + b.ops = 2
      BY <2>2
    <3> QED
      BY <2>1, <3>1
  <2>3. g = [i \in 1 .. 2 |-> IF i > 1 THEN <<>> ELSE <<b>> \o g[i + b.ops]]
    BY <2>2
  <2> HIDE DEF g
  <2>4. Unrolled(g, b)
    BY <2>3, Zenon DEF Unrolled
  <2> QED
    BY <2>4
<1> QED
  BY <1>1, <1>2

\* It becomes one block.
LEMMA LowerOne ==
    ASSUME NEW op, Horizon \in Nat
    PROVE  LowerOps(<<op>>) = <<Single(op)>>
<1> DEFINE ops == <<op>>
           block == [i \in DOMAIN ops |-> FirstBlock(SubSeq(ops, i, Len(ops)))]
<1>1. FirstBlock(<<op>>) = Single(op)
  BY NoPlan, OneSub DEF FirstBlock
<1>2. Len(ops) = 1 /\ DOMAIN ops = {1}
  OBVIOUS
<1>3. block[1] = Single(op)
  BY <1>1, <1>2, OneSub, Zenon
<1>4. LowerOps(ops) =
        (CHOOSE g : g = [i \in 1 .. Len(ops) + 1 |->
                           IF i > Len(ops) THEN <<>> ELSE <<block[i]>> \o g[i + block[i].ops]])[1]
  BY DEF LowerOps
<1> HIDE DEF block
<1>5. ASSUME NEW g
      PROVE  [i \in 1 .. Len(ops) + 1 |->
                IF i > Len(ops) THEN <<>> ELSE <<block[i]>> \o g[i + block[i].ops]]
             = [i \in 1 .. 2 |-> IF i > 1 THEN <<>> ELSE <<Single(op)>> \o g[i + Single(op).ops]]
  <2>1. 1 .. Len(ops) + 1 = 1 .. 2
    BY <1>2
  <2>2. \A i \in 1 .. 2 : ~(i > 1) => i = 1
    BY SMTT(30)
  <2> QED
    BY <1>2, <1>3, <2>1, <2>2
<1>6. LowerOps(ops) = (CHOOSE g : Unrolled(g, Single(op)))[1]
  BY <1>4, <1>5 DEF Unrolled
<1>7. Single(op).ops = 1
  BY DEF Single
<1> QED
  BY <1>6, <1>7, UnrolledIs, Zenon

\* Where a block begins, and what is complete there.
CodeOf(blocks) == SumOf(blocks, LAMBDA x : Len(x.code))
OpsOf(blocks) == SumOf(blocks, LAMBDA x : x.ops)
Begin(blocks, k) == 1 + CodeOf(SubSeq(blocks, 1, k - 1))
Complete(blocks, k) == OpsOf(SubSeq(blocks, 1, k - 1))

\* The map at of Assemble.
Marks(blocks) ==
    [i \in {Begin(blocks, k) : k \in 1 .. Len(blocks) + 1} |->
       LET k == Max({c \in 1 .. Len(blocks) + 1 : Begin(blocks, c) = i})
       IN [ops |-> Complete(blocks, k),
           cells |-> IF k > Len(blocks) THEN 0 ELSE blocks[k].cells]]

\* One block, and where it ends.
LEMMA BeginOne ==
    ASSUME NEW b, Len(b.code) \in Nat, b.ops = 1
    PROVE  /\ Begin(<<b>>, 1) = 1 /\ Begin(<<b>>, 2) = 1 + Len(b.code)
           /\ Complete(<<b>>, 1) = 0 /\ Complete(<<b>>, 2) = 1
<1> DEFINE t == <<b>>
<1>1. SubSeq(t, 1, 1 - 1) = <<>> /\ SubSeq(t, 1, 2 - 1) = <<b>>
  <2>1. SubSeq(t, 1, 0) = <<>>
    BY SubSeqEmpty
  <2> QED
    BY <2>1, OneSub
<1>2. CodeOf(<<>>) = 0
  BY LengthOfNone, Zenon DEF CodeOf
<1>3. CodeOf(<<b>>) = 0 + Len(b.code)
  BY LengthOfOne, Zenon DEF CodeOf
<1>4. OpsOf(<<>>) = 0
  BY OpsOfNone, Zenon DEF OpsOf
<1>5. OpsOf(<<b>>) = 0 + b.ops
  BY OpsOfOne, Zenon DEF OpsOf
<1> HIDE DEF t
<1>6. CodeOf(SubSeq(t, 1, 1 - 1)) = 0 /\ OpsOf(SubSeq(t, 1, 1 - 1)) = 0
  BY <1>1, <1>2, <1>4, Zenon
<1>7. CodeOf(SubSeq(t, 1, 2 - 1)) = 0 + Len(b.code) /\ OpsOf(SubSeq(t, 1, 2 - 1)) = 0 + b.ops
  BY <1>1, <1>3, <1>5, Zenon
<1>8. Begin(t, 1) = 1 /\ Complete(t, 1) = 0
  BY <1>6 DEF Begin, Complete
<1>9. Begin(t, 2) = 1 + Len(b.code) /\ Complete(t, 2) = 1
  BY <1>7 DEF Begin, Complete
<1> QED
  BY <1>8, <1>9 DEF t

\* One block of l instructions, followed by a halt and the search.
Assembled(y, b, l) ==
    /\ y.code = b.code \o <<Halt>> \o (Search \o Scan)
    /\ y.entry = [search |-> l + 2, scan |-> l + 2 + Len(Search)]
    /\ DOMAIN y.at = {1, l + 1}
    /\ y.at[1] = [ops |-> 0, cells |-> b.cells]
    /\ y.at[l + 1] = [ops |-> 1, cells |-> 0]

\* The map for one block.
LEMMA MarksOne ==
    ASSUME NEW b, NEW l \in Nat, l # 0, Len(b.code) = l, b.ops = 1
    PROVE  /\ DOMAIN Marks(<<b>>) = {1, l + 1}
           /\ Marks(<<b>>)[1] = [ops |-> 0, cells |-> b.cells]
           /\ Marks(<<b>>)[l + 1] = [ops |-> 1, cells |-> 0]
<1> DEFINE t == <<b>>
           C(i) == {c \in 1 .. Len(t) + 1 : Begin(t, c) = i}
<1>1. Begin(t, 1) = 1 /\ Begin(t, 2) = l + 1 /\ Complete(t, 1) = 0 /\ Complete(t, 2) = 1
  BY BeginOne
<1>2. 1 .. Len(t) + 1 = {1, 2} /\ Len(t) = 1 /\ t[1] = b
  OBVIOUS
<1> HIDE DEF t
<1>3. C(1) = {1} /\ C(l + 1) = {2}
  BY <1>1, <1>2
<1>4. Max(C(1)) = 1 /\ Max(C(l + 1)) = 2
  BY <1>3 DEF Max
<1>5. {Begin(t, k) : k \in 1 .. Len(t) + 1} = {1, l + 1}
  BY <1>1, <1>2
<1> HIDE DEF C
<1>6. Marks(t) = [i \in {1, l + 1} |->
                    [ops |-> Complete(t, Max(C(i))),
                     cells |-> IF Max(C(i)) > Len(t) THEN 0 ELSE t[Max(C(i))].cells]]
  BY <1>5, Zenon DEF Marks, C
<1>7. DOMAIN Marks(t) = {1, l + 1}
  BY <1>6
<1>8. Marks(t)[1] = [ops |-> Complete(t, 1), cells |-> IF 1 > Len(t) THEN 0 ELSE t[1].cells]
  BY <1>4, <1>6
<1>9. Marks(t)[l + 1] = [ops |-> Complete(t, 2), cells |-> IF 2 > Len(t) THEN 0 ELSE t[2].cells]
  BY <1>4, <1>6
<1>10. Marks(t)[1] = [ops |-> 0, cells |-> b.cells]
  BY <1>1, <1>2, <1>8
<1>11. Marks(t)[l + 1] = [ops |-> 1, cells |-> 0]
  BY <1>1, <1>2, <1>9
<1> QED
  BY <1>7, <1>10, <1>11 DEF t

\* One block is assembled so.
LEMMA AssembleOne ==
    ASSUME NEW b, b.code \in Seq(Instructions), NEW l \in Nat, l # 0, Len(b.code) = l, b.ops = 1, b.cells > 0
    PROVE  Assembled(Assemble(<<b>>), b, l)
<1> DEFINE t == <<b>>
           seqs == [k \in DOMAIN t |-> t[k].code]
           main == FlattenSeq(seqs)
           y == Assemble(t)
<1>1. seqs \in [1 .. 1 -> Seq(Instructions)] /\ seqs[1] = b.code
  BY OneDomain
<1>2. main = b.code
  <2> HIDE DEF seqs
  <2>1. PICK f \in [1 .. 1 -> Seq(Instructions)] : Joins(f, 1, seqs)
    <3>1. 1 \in Nat \ {0}
      OBVIOUS
    <3> QED
      BY <1>1, <3>1, FlattenSeqIs, Zenon
  <2> QED
    BY <1>1, <2>1 DEF Joins
<1>3. DOMAIN t = {1} /\ t[1] = b
  BY OneDomain
<1> HIDE DEF t
<1>4. y = [code |-> main \o <<Halt>> \o (IF \E k \in DOMAIN t : t[k].cells > 0 THEN Search \o Scan ELSE <<>>),
           entry |-> [search |-> Len(main) + 2, scan |-> Len(main) + 2 + Len(Search)],
           at |-> Marks(t)]
  BY Zenon DEF Assemble, Marks, Begin, Complete, CodeOf, OpsOf
<1>5. \E k \in DOMAIN t : t[k].cells > 0
  BY <1>3
<1> HIDE DEF main, y
<1>6. y.code = b.code \o <<Halt>> \o (Search \o Scan)
  BY <1>2, <1>4, <1>5, Zenon
<1>7. y.entry = [search |-> l + 2, scan |-> l + 2 + Len(Search)]
  BY <1>2, <1>4
<1>8. y.at = Marks(t)
  BY <1>4
<1>9. DOMAIN Marks(t) = {1, l + 1} /\ Marks(t)[1] = [ops |-> 0, cells |-> b.cells]
       /\ Marks(t)[l + 1] = [ops |-> 1, cells |-> 0]
  BY MarksOne, Zenon DEF t
<1> QED
  BY <1>6, <1>7, <1>8, <1>9, Zenon DEF Assembled, t, y

\* The code of a dup or swap of a word below the window, and its cells.
DupOf(op, m, n) ==
    /\ n = m + 1 /\ op[2] = m + (Window - 2)
    /\ LowerOp(op) = Deeply(n, m, DeepDup(m, n)) /\ Single(op).cells = n
SwapOf(op, m) ==
    /\ op[2] = m + (Window - 3)
    /\ LowerOp(op) = Deeply(m, m, DeepSwap(m)) /\ Single(op).cells = m

\* That is what LowerOp emits.
LEMMA DupIs ==
    ASSUME NEW op, NEW depth \in Nat, op[1] = "Dup", op[2] = depth, depth >= Window
    PROVE  \E m \in Nat, n \in Nat : DupOf(op, m, n) /\ m >= 2 /\ Cells(depth, TRUE) = n
<1> DEFINE m == depth - (Window - 2)
           n == m + 1
<1>1. m \in Nat /\ n \in Nat /\ m >= 2 /\ depth = m + (Window - 2) /\ ~(depth < Window)
  BY MachineAssumption
<1>2. Spilled(depth, TRUE) = m
  BY DEF Spilled
<1> HIDE DEF m
<1>3. Cells(depth, TRUE) = n
  BY <1>2, Zenon DEF Cells
<1> HIDE DEF n
<1>4. Access(depth, TRUE) = Borrow(Cells(depth, TRUE)) \o Batch("write_mem", Spilled(depth, TRUE))
                     \o DeepDup(Spilled(depth, TRUE), Cells(depth, TRUE)) \o <<Pop(1)>>
  BY <1>1, Zenon DEF Access
<1>5. Access(depth, TRUE) = Deeply(n, m, DeepDup(m, n))
  BY <1>2, <1>3, <1>4, Zenon DEF Deeply
<1>6. LowerOp(op) = Access(depth, TRUE)
  BY Zenon DEF LowerOp
<1>7. Single(op).cells = Cells(op[2], op[1] = "Dup")
  BY DEF Single
<1>8. (op[1] = "Dup") = TRUE
  OBVIOUS
<1>9. Single(op).cells = n
  BY <1>3, <1>7, <1>8, Zenon
<1>10. n = m + 1
  BY DEF n
<1> QED
  BY <1>1, <1>3, <1>5, <1>6, <1>9, <1>10, Zenon DEF DupOf

\* The same for a swap.
LEMMA SwapIs ==
    ASSUME NEW op, NEW depth \in Nat, op[1] = "Swap", op[2] = depth, depth >= Window, Window > 3
    PROVE  \E m \in Nat : SwapOf(op, m) /\ m >= 3 /\ Cells(depth, FALSE) = m
<1> DEFINE m == depth - (Window - 3)
<1>1. m \in Nat /\ m >= 3 /\ depth = m + (Window - 3) /\ ~(depth < Window)
  BY MachineAssumption
<1>2. Spilled(depth, FALSE) = m
  BY DEF Spilled
<1>3. m + 0 = m
  BY <1>1
<1> HIDE DEF m
<1>4. Cells(depth, FALSE) = m
  BY <1>2, <1>3, Zenon DEF Cells
<1>5. Access(depth, FALSE) = Borrow(Cells(depth, FALSE)) \o Batch("write_mem", Spilled(depth, FALSE))
                     \o DeepSwap(Spilled(depth, FALSE)) \o <<Pop(1)>>
  BY <1>1, Zenon DEF Access
<1>6. Access(depth, FALSE) = Deeply(m, m, DeepSwap(m))
  BY <1>2, <1>4, <1>5, Zenon DEF Deeply
<1>7. LowerOp(op) = Access(depth, FALSE)
  BY Zenon DEF LowerOp
<1>8. Single(op).cells = Cells(op[2], op[1] = "Dup")
  BY DEF Single
<1>9. (op[1] = "Dup") = FALSE
  OBVIOUS
<1>10. Single(op).cells = m
  BY <1>4, <1>8, <1>9, Zenon
<1> QED
  BY <1>1, <1>4, <1>6, <1>7, <1>10, Zenon DEF SwapOf

\* The code of an access is code.
LEMMA DeeplyType ==
    ASSUME NEW n \in Nat, NEW m \in Nat, NEW rest \in Seq(Instructions)
    PROVE  /\ Deeply(n, m, rest) \in Seq(Instructions)
           /\ Len(Deeply(n, m, rest)) \in Nat /\ Len(Deeply(n, m, rest)) # 0
<1> DEFINE a == Borrow(n)
           b == Batch("write_mem", m)
           e == <<Pop(1)>>
           ab == a \o b
           abr == ab \o rest
<1>1. a \in Seq(Instructions) /\ b \in Seq(Instructions)
  BY BorrowType, BatchType, Zenon
<1>2. e \in Seq(Instructions) /\ Len(e) = 1
  BY InstructionsAre
<1>3. Deeply(n, m, rest) = abr \o e
  BY DEF Deeply
<1> HIDE DEF a, b, e
<1>4. ab \in Seq(Instructions)
  BY <1>1, ConcatProperties
<1> HIDE DEF ab
<1>5. abr \in Seq(Instructions)
  BY <1>4, ConcatProperties
<1> HIDE DEF abr
<1>6. Deeply(n, m, rest) \in Seq(Instructions) /\ Len(Deeply(n, m, rest)) = Len(abr) + Len(e)
  BY <1>2, <1>3, <1>5, ConcatProperties, Zenon
<1>7. Len(abr) \in Nat
  BY <1>5
<1> QED
  BY <1>2, <1>6, <1>7

\* search and scan are code.
LEMMA SearchType ==
    Search \in Seq(Instructions) /\ Len(Search) = 5 /\ Scan \in Seq(Instructions) /\ Len(Scan) = 25
<1>1. Search \in Seq(Instructions)
  <2>1. Pop(2) \in Instructions /\ Push(0) \in Instructions /\ Call("scan") \in Instructions
        /\ Return \in Instructions
    BY InstructionsAre
  <2> QED
    BY <2>1 DEF Search
<1>2. Len(Search) = 5 /\ Len(Scan) = 25
  BY DEF Search, Scan
<1>3. Scan \in Seq(Instructions)
  <2>1. /\ Dup(0) \in Instructions /\ Dup(1) \in Instructions /\ Dup(3) \in Instructions
        /\ ReadMem(1) \in Instructions /\ Pop(1) \in Instructions /\ Swap(1) \in Instructions
        /\ Push(0) \in Instructions /\ Push(1) \in Instructions
    BY InstructionsAre
  <2>2. /\ Eq \in Instructions /\ Add \in Instructions /\ Mul \in Instructions /\ Skiz \in Instructions
        /\ Return \in Instructions /\ AssertOne \in Instructions /\ Recurse \in Instructions
    BY InstructionsAre
  <2> QED
    BY <2>1, <2>2 DEF Scan
<1> QED
  BY <1>1, <1>2, <1>3

\* The piece of code that is block b of l instructions, between stack s and RAM r
\* and stack t and the same RAM.
BlockCode(y, b, l, s, r, t) ==
    [code |-> y.code, entry |-> y.entry, cells |-> b.cells,
     start |-> At(1, s, r, <<>>), exit |-> At(l + 1, t, r, <<>>),
     inside |-> (2 .. l) \cup (l + 2 .. l + 31)]

\* What it consists of.
LEMMA BlockCodeIs ==
    ASSUME NEW y, NEW b, NEW l, NEW s, NEW r, NEW t
    PROVE  /\ BlockCode(y, b, l, s, r, t).code = y.code /\ BlockCode(y, b, l, s, r, t).entry = y.entry
           /\ BlockCode(y, b, l, s, r, t).cells = b.cells
           /\ BlockCode(y, b, l, s, r, t).start = At(1, s, r, <<>>)
           /\ BlockCode(y, b, l, s, r, t).exit = At(l + 1, t, r, <<>>)
           /\ BlockCode(y, b, l, s, r, t).inside = (2 .. l) \cup (l + 2 .. l + 31)
           /\ BlockCode(y, b, l, s, r, t).start.ram = r
<1>1. At(1, s, r, <<>>).ram = r
  BY AtFields
<1> QED
  BY <1>1 DEF BlockCode

\* Where its parts are.
Readied(x, b, l) ==
    /\ Placed(x, 1, b.code) /\ x.code[l + 1] = Halt
    /\ Searches(x, l + 2, l + 7) /\ Inside(x, 2, l)
    /\ 1 \notin x.inside /\ l + 1 \notin x.inside /\ Safe(x, x.start)

\* They are there.
LEMMA BlockCodeLaid ==
    ASSUME NEW y, NEW b, b.code \in Seq(Instructions), NEW l \in Nat, l # 0, Len(b.code) = l,
           Assembled(y, b, l), NEW s, NEW r, NEW t
    PROVE  Readied(BlockCode(y, b, l, s, r, t), b, l)
<1> DEFINE x == BlockCode(y, b, l, s, r, t)
           h == <<Halt>>
           bh == b.code \o h
           ss == Search \o Scan
<1>1. x.code = y.code /\ x.entry = y.entry /\ x.inside = (2 .. l) \cup (l + 2 .. l + 31)
      /\ x.start.ram = r
  BY BlockCodeIs
<1> HIDE DEF x
<1>2. x.code = bh \o ss
  BY <1>1 DEF Assembled
<1>3. h \in Seq(Instructions) /\ Len(h) = 1 /\ h[1] = Halt
  BY InstructionsAre
<1> HIDE DEF h
<1>4. bh \in Seq(Instructions) /\ Len(bh) = l + 1
  BY <1>3, ConcatProperties
<1>5. ss \in Seq(Instructions)
  BY SearchType, ConcatProperties
<1> HIDE DEF bh, ss
<1>6. Placed(x, 1, bh \o ss)
  <2>1. \A j \in 1 .. Len(bh \o ss) : 1 + j - 1 = j
    BY <1>4, <1>5, ConcatProperties
  <2> QED
    BY <1>2, <2>1 DEF Placed
<1>7. Placed(x, 1, bh) /\ Placed(x, 1 + Len(bh), ss)
  BY <1>4, <1>5, <1>6, PlacedConcat
<1>8. Placed(x, 1, b.code) /\ Placed(x, 1 + l, h)
  BY <1>3, <1>7, PlacedConcat DEF bh
<1>9. 1 + Len(bh) = l + 2 /\ l + 2 \in Nat
  BY <1>4
<1>10. Placed(x, l + 2, Search) /\ Placed(x, l + 2 + 5, Scan)
  <2>1. Placed(x, l + 2, Search \o Scan)
    BY <1>7, <1>9 DEF ss
  <2>2. Placed(x, l + 2, Search) /\ Placed(x, l + 2 + Len(Search), Scan)
    BY <1>9, <2>1, SearchType, PlacedConcat, Zenon
  <2> QED
    BY <2>2, SearchType
<1>11. l + 2 + 5 = l + 7 /\ 1 + l = l + 1 /\ l + 1 + 1 - 1 = l + 1 /\ 1 \in 1 .. 1
  OBVIOUS
<1>12. x.code[l + 1] = Halt
  <2>1. Placed(x, l + 1, h)
    BY <1>8, <1>11
  <2>2. x.code[l + 1 + 1 - 1] = h[1]
    BY <1>3, <1>11, <2>1 DEF Placed
  <2> QED
    BY <1>3, <1>11, <2>2
<1>13. x.entry["search"] = l + 2 /\ x.entry["scan"] = l + 7
  <2>1. x.entry = [search |-> l + 2, scan |-> l + 2 + 5]
    BY <1>1, SearchType DEF Assembled
  <2> QED
    BY <1>11, <2>1
<1>14. Inside(x, 2, l) /\ Inside(x, l + 2, l + 6) /\ Inside(x, l + 7, l + 31)
       /\ 1 \notin x.inside /\ l + 1 \notin x.inside
  BY <1>1 DEF Inside
<1>15. l + 2 + 4 = l + 6 /\ l + 7 + 24 = l + 31 /\ l + 2 \in Nat /\ l + 7 \in Nat
  OBVIOUS
<1>16. Clear(x, l + 2, l + 6, r) /\ Clear(x, l + 7, l + 31, r)
  BY <1>1, <1>14, UntouchedIsClear
<1>17. Searches(x, l + 2, l + 7)
  BY <1>1, <1>10, <1>11, <1>13, <1>15, <1>16 DEF Searches
<1>18. Safe(x, x.start)
  BY DEF Safe
<1>19. Readied(x, b, l)
  BY <1>8, <1>12, <1>14, <1>17, <1>18 DEF Readied
<1> QED
  BY <1>19 DEF x

\* Programs that are one dup or swap of a word below the window, of a stack
\* that is deep enough for it; the cells it borrows fit into RAM from the
\* preferred address up.
FitsRam(n) == n < Order /\ Preferred + n <= Order
DupProgram(q, depth) == q = <<<<"Dup", depth>>>> /\ FitsRam(Cells(depth, TRUE))
SwapProgram(q, depth) == q = <<<<"Swap", depth>>>> /\ FitsRam(Cells(depth, FALSE))
OneDeepAccess(q) ==
    \E depth \in Nat :
       /\ depth >= Window /\ \A s \in Stacks : Len(s) >= depth + 3
       /\ DupProgram(q, depth) \/ SwapProgram(q, depth)

\* Program q, executed from stack s and RAM r, is piece x of l instructions.
Marked(q, x, l, n) ==
    /\ l \in Nat /\ l # 0 /\ n \in Nat /\ n # 0
    /\ x.code = Lowered[q].code /\ x.entry = Lowered[q].entry /\ x.cells = n
    /\ DOMAIN Lowered[q].at = {1, l + 1}
    /\ Lowered[q].at[1] = [ops |-> 0, cells |-> n]
    /\ Lowered[q].at[l + 1] = [ops |-> 1, cells |-> 0]
    /\ 1 \notin x.inside /\ l + 1 \notin x.inside /\ x.code[l + 1] = Halt

\* The piece takes stack s to t, as the one operation of q does.
Fits(q, s, r, t, x, l, n) ==
    /\ Marked(q, x, l, n)
    /\ t \in Deep /\ x.start = At(1, s, r, <<>>) /\ x.exit = At(l + 1, t, r, <<>>)
    /\ Good(x, x.start)
    /\ q = <<q[1]>> /\ Meaning([stack |-> s, ram |-> r], q[1]) = [stack |-> t, ram |-> r]

\* It is one block of this code.
OneBlock(q, code, l, n, s, r, t) ==
    \E x : /\ Marked(q, x, l, n) /\ x.start = At(1, s, r, <<>>) /\ x.exit = At(l + 1, t, r, <<>>)
           /\ x.start.ram = r /\ Placed(x, 1, code) /\ Searches(x, l + 2, l + 7) /\ Inside(x, 2, l)
           /\ Safe(x, x.start)

\* What Lowered is for a program of one operation that becomes code.
LEMMA OneMarked ==
    ASSUME NEW q \in Programs, NEW op, q = <<op>>, Horizon \in Nat, NEW code, LowerOp(op) = code,
           code \in Seq(Instructions), NEW l \in Nat, l # 0, Len(code) = l, NEW n \in Nat, n # 0,
           Single(op).cells = n, NEW s, NEW r, NEW t
    PROVE  OneBlock(q, code, l, n, s, r, t)
<1> DEFINE b == Single(op)
           y == Assemble(<<b>>)
           x == BlockCode(y, b, l, s, r, t)
<1>1. b.ops = 1 /\ b.code = code /\ b.cells = n /\ n > 0
  BY DEF Single
<1>2. Lowered[q] = y
  <2>1. Lowered[q] = Assemble(LowerOps(<<op>>))
    BY DEF Lowered, Lower
  <2> QED
    BY <2>1, LowerOne
<1> HIDE DEF b
<1>3. Assembled(y, b, l)
  BY <1>1, AssembleOne
<1> HIDE DEF y
<1>4. Readied(x, b, l)
  BY <1>1, <1>3, BlockCodeLaid
<1>5. /\ x.code = y.code /\ x.entry = y.entry /\ x.cells = n
      /\ x.start = At(1, s, r, <<>>) /\ x.exit = At(l + 1, t, r, <<>>) /\ x.start.ram = r
  BY <1>1, BlockCodeIs
<1> HIDE DEF x
<1>6. Marked(q, x, l, n)
  BY <1>1, <1>2, <1>3, <1>4, <1>5 DEF Marked, Assembled, Readied
<1>7. Placed(x, 1, code) /\ Searches(x, l + 2, l + 7) /\ Inside(x, 2, l) /\ Safe(x, x.start)
  BY <1>1, <1>4 DEF Readied
<1> QED
  BY <1>5, <1>6, <1>7 DEF OneBlock

\* What the operations mean.
LEMMA DupMeans ==
    ASSUME NEW s, NEW r, NEW depth
    PROVE  Meaning([stack |-> s, ram |-> r], <<"Dup", depth>>) = [stack |-> Put(s[depth + 1], s), ram |-> r]
  BY Zenon DEF Meaning, Put

LEMMA SwapMeans ==
    ASSUME NEW s, NEW r, NEW depth
    PROVE  Meaning([stack |-> s, ram |-> r], <<"Swap", depth>>) = [stack |-> Exchanged(s, depth), ram |-> r]
  BY DEF Meaning, Exchanged

\* A swap leaves as many words.
LEMMA ExchangedDeep ==
    ASSUME NEW s \in Deep, NEW n \in Nat, n + 1 <= Len(s)
    PROVE  Exchanged(s, n) \in Deep
<1> DEFINE a == s[n + 1]
           d == s[1]
           s1 == [s EXCEPT ![1] = a]
           s2 == [s1 EXCEPT ![n + 1] = d]
<1>1. Len(s) \in Nat /\ 1 \in 1 .. Len(s) /\ n + 1 \in 1 .. Len(s) /\ s \in Seq(Words) /\ Len(s) >= Window
  BY DeepFacts
<1>2. a \in Words /\ d \in Words
  BY <1>1, WordOf
<1>3. Exchanged(s, n) = s2
  BY DEF Exchanged
<1> HIDE DEF a, d
<1>4. s1 \in Seq(Words) /\ Len(s1) = Len(s)
  BY <1>1, <1>2, ExceptType
<1> HIDE DEF s1
<1>5. s2 \in Seq(Words) /\ Len(s2) = Len(s)
  <2>1. n + 1 \in 1 .. Len(s1)
    BY <1>1, <1>4
  <2> QED
    BY <1>2, <1>4, <2>1, ExceptType
<1> HIDE DEF s2
<1> QED
  BY <1>1, <1>3, <1>5 DEF Deep

\* The code of a deep dup does what it means.
LEMMA DupFits ==
    ASSUME NEW q \in Programs, NEW depth \in Nat, depth >= Window, DupProgram(q, depth),
           NEW s \in Stacks, Len(s) >= depth + 3, NEW r \in Rams, Horizon \in Nat, Chunk > 1
    PROVE  \E t, x, l, n : Fits(q, s, r, t, x, l, n)
<1> DEFINE op == <<"Dup", depth>>
           t == Put(s[depth + 1], s)
<1>1. op[1] = "Dup" /\ op[2] = depth /\ q = <<op>>
  BY DEF DupProgram
<1>2. Meaning([stack |-> s, ram |-> r], op) = [stack |-> t, ram |-> r]
  BY DupMeans
<1>3. s \in Seq(Words) /\ s \in Deep /\ r \in Memory /\ <<>> \in Seq(Nat \X Nat)
  BY StacksAssumption, RamsAssumption DEF Deep, Memory
<1>4. t \in Deep
  <2>1. Len(s) \in Nat /\ depth + 1 \in 1 .. Len(s)
    BY <1>3
  <2> QED
    BY <1>3, <2>1, WordOf, DeepFacts, Zenon
<1>5. PICK m \in Nat, n \in Nat : DupOf(op, m, n) /\ m >= 2 /\ Cells(depth, TRUE) = n
  BY <1>1, DupIs, Zenon
<1>6. n < Order /\ Preferred + n <= Order
  BY <1>5, Zenon DEF DupProgram, FitsRam
<1> DEFINE code == Deeply(n, m, DeepDup(m, n))
           l == Len(code)
<1>7. /\ n = m + 1 /\ depth = m + (Window - 2) /\ LowerOp(op) = code /\ Single(op).cells = n
  BY <1>1, <1>5 DEF DupOf
<1> HIDE DEF op, t
<1>8. code \in Seq(Instructions) /\ l \in Nat /\ l # 0 /\ Len(code) = l
  BY DeeplyType, DeepCodeType, Zenon
<1> HIDE DEF l
<1>9. n # 0 /\ n \in 1 .. Order - 1
  BY <1>6, <1>7, MachineAssumption
<1> HIDE DEF code
<1>10. PICK x : /\ Marked(q, x, l, n) /\ x.start = At(1, s, r, <<>>) /\ x.exit = At(l + 1, t, r, <<>>)
                /\ x.start.ram = r /\ Placed(x, 1, code) /\ Searches(x, l + 2, l + 7) /\ Inside(x, 2, l)
                /\ Safe(x, x.start)
  <2>1. OneBlock(q, code, l, n, s, r, t)
    BY <1>1, <1>7, <1>8, <1>9, OneMarked
  <2> QED
    BY <2>1 DEF OneBlock
<1>11. Good(x, At(l + 1, t, r, <<>>))
  BY <1>10, ExitIsGood
<1>12. x.cells = n
  BY <1>10 DEF Marked
<1>13. 1 \in Nat /\ 1 + l = l + 1 /\ 1 + 1 = 2 /\ 1 + l - 1 = l
  BY <1>8
<1>14. Good(x, At(1 + l, Put(s[depth + 1], s), r, <<>>)) /\ Safe(x, At(1, s, r, <<>>))
       /\ Inside(x, 1 + 1, 1 + l - 1)
  BY <1>10, <1>11, <1>13 DEF t
<1>15. Good(x, At(1, s, r, <<>>))
  <2> DEFINE c == Deeply(n, m, DeepDup(m, n))
  <2>1. Len(c) = l /\ Placed(x, 1, c)
    BY <1>8, <1>10 DEF code
  <2> HIDE DEF c
  <2>2. Good(x, At(1 + Len(c), Put(s[depth + 1], s), r, <<>>)) /\ Inside(x, 1 + 1, 1 + Len(c) - 1)
    BY <1>14, <2>1
  <2> QED
    BY <1>3, <1>5, <1>6, <1>7, <1>9, <1>10, <1>12, <1>13, <1>14, <2>1, <2>2, DeepDupAccess, Zenon DEF c
<1>16. Fits(q, s, r, t, x, l, n)
  <2>1. q = <<q[1]>> /\ q[1] = op
    BY <1>1
  <2> QED
    BY <1>2, <1>4, <1>10, <1>15, <2>1 DEF Fits
<1> QED
  BY <1>16

\* The code of a deep swap does what it means.
LEMMA SwapFits ==
    ASSUME NEW q \in Programs, NEW depth \in Nat, depth >= Window, SwapProgram(q, depth),
           NEW s \in Stacks, Len(s) >= depth + 3, NEW r \in Rams, Horizon \in Nat, Chunk > 1, Window > 3
    PROVE  \E t, x, l, n : Fits(q, s, r, t, x, l, n)
<1> DEFINE op == <<"Swap", depth>>
           t == Exchanged(s, depth)
<1>1. op[1] = "Swap" /\ op[2] = depth /\ q = <<op>>
  BY DEF SwapProgram
<1>2. Meaning([stack |-> s, ram |-> r], op) = [stack |-> t, ram |-> r]
  BY SwapMeans
<1>3. s \in Seq(Words) /\ s \in Deep /\ r \in Memory /\ <<>> \in Seq(Nat \X Nat)
  BY StacksAssumption, RamsAssumption DEF Deep, Memory
<1>4. t \in Deep
  <2>1. Len(s) \in Nat /\ depth + 1 <= Len(s)
    BY <1>3
  <2> QED
    BY <1>3, <2>1, ExchangedDeep
<1>5. PICK n \in Nat : SwapOf(op, n) /\ n >= 3 /\ Cells(depth, FALSE) = n
  BY <1>1, SwapIs, Zenon
<1>6. n < Order /\ Preferred + n <= Order
  BY <1>5, Zenon DEF SwapProgram, FitsRam
<1> DEFINE code == Deeply(n, n, DeepSwap(n))
           l == Len(code)
<1>7. depth = n + (Window - 3)
  BY <1>1, <1>5 DEF SwapOf
<1>8. LowerOp(op) = code /\ Single(op).cells = n
  BY <1>1, <1>5 DEF SwapOf
<1> HIDE DEF op, t
<1>9. code \in Seq(Instructions) /\ l \in Nat /\ l # 0 /\ Len(code) = l
  BY DeeplyType, DeepCodeType, Zenon
<1> HIDE DEF l
<1>10. n \in 1 .. Order - 1 /\ 3 \in 0 .. Window - 1
  BY <1>5, <1>6, MachineAssumption
<1>11. n # 0
  BY <1>5
<1> HIDE DEF code
<1>12. PICK x : /\ Marked(q, x, l, n) /\ x.start = At(1, s, r, <<>>) /\ x.exit = At(l + 1, t, r, <<>>)
                /\ x.start.ram = r /\ Placed(x, 1, code) /\ Searches(x, l + 2, l + 7) /\ Inside(x, 2, l)
                /\ Safe(x, x.start)
  <2>1. q = <<op>> /\ LowerOp(op) = code /\ code \in Seq(Instructions) /\ Len(code) = l
    BY <1>1, <1>9, <1>8
  <2>2. l \in Nat /\ l # 0 /\ n # 0 /\ Single(op).cells = n
    BY <1>9, <1>8, <1>11
  <2>3. OneBlock(q, code, l, n, s, r, t)
    BY <2>1, <2>2, OneMarked
  <2> QED
    BY <2>3 DEF OneBlock
<1>13. Good(x, At(l + 1, t, r, <<>>))
  BY <1>12, ExitIsGood
<1>14. x.cells = n
  BY <1>12 DEF Marked
<1>15. 1 \in Nat /\ 1 + l = l + 1 /\ 1 + 1 = 2 /\ 1 + l - 1 = l
  BY <1>9
<1>16. Good(x, At(1 + l, Exchanged(s, depth), r, <<>>)) /\ Safe(x, At(1, s, r, <<>>))
       /\ Inside(x, 1 + 1, 1 + l - 1)
  BY <1>12, <1>13, <1>15 DEF t
<1>17. Good(x, At(1, s, r, <<>>))
  <2> DEFINE c == Deeply(n, n, DeepSwap(n))
  <2>1. Len(c) = l /\ Placed(x, 1, c)
    BY <1>9, <1>12 DEF code
  <2> HIDE DEF c
  <2>2. Good(x, At(1 + Len(c), Exchanged(s, depth), r, <<>>)) /\ Inside(x, 1 + 1, 1 + Len(c) - 1)
    BY <1>16, <2>1
  <2> QED
    <3>1. n >= 3 /\ s \in Seq(Words) /\ r \in Memory /\ <<>> \in Seq(Nat \X Nat) /\ Preferred + n <= Order
      BY <1>3, <1>5, <1>6
    <3>2. Searches(x, l + 2, l + 7) /\ Safe(x, At(1, s, r, <<>>)) /\ x.start.ram = r /\ x.cells = n
      BY <1>12, <1>14, <1>16
    <3> QED
      BY <1>7, <1>10, <2>1, <2>2, <3>1, <3>2, DeepSwapAccess, Zenon DEF c
<1>18. Fits(q, s, r, t, x, l, n)
  <2>1. q = <<q[1]>> /\ q[1] = op
    BY <1>1
  <2> QED
    BY <1>2, <1>4, <1>12, <1>17, <2>1 DEF Fits
<1> QED
  BY <1>18

-----------------------------------------------------------------------------
(* The specification.                                                      *)

\* The code of each of these programs does what it means.
LEMMA ProgramFits ==
    ASSUME NEW q \in Programs, OneDeepAccess(q), NEW s \in Stacks, NEW r \in Rams,
           Horizon \in Nat, Chunk > 1, Window > 3
    PROVE  \E t, x, l, n : Fits(q, s, r, t, x, l, n)
<1>1. PICK depth \in Nat : /\ depth >= Window /\ \A u \in Stacks : Len(u) >= depth + 3
                           /\ DupProgram(q, depth) \/ SwapProgram(q, depth)
  BY DEF OneDeepAccess
<1>2. depth >= Window /\ Len(s) >= depth + 3
  BY <1>1
<1>3. CASE DupProgram(q, depth)
  BY <1>2, <1>3, DupFits
<1>4. CASE SwapProgram(q, depth)
  BY <1>2, <1>4, SwapFits
<1> QED
  BY <1>1, <1>3, <1>4

\* The machine executes the one operation, or has executed it.
Executing(s, r, t, x) ==
    done = 0 /\ source = [stack |-> s, ram |-> r] /\ Good(x, Processor) /\ Processor # x.exit
Executed(r, t, x) ==
    /\ done = 1 /\ source = [stack |-> t, ram |-> r]
    /\ Processor = x.exit \/ Processor = [x.exit EXCEPT !.halt = "yes"]

\* The execution of program prog, before its operation is complete or after.
Course(s, r, t, x, l, n) ==
    Fits(prog, s, r, t, x, l, n) /\ (Executing(s, r, t, x) \/ Executed(r, t, x))

\* The inductive invariant: some piece of code fits the program, and the
\* machine is in the course of it.
AccessInv == prog \in Programs /\ \E s, r, t, x, l, n : Course(s, r, t, x, l, n)

\* The parts of the two states.
LEMMA ProcessorFields ==
    /\ Processor.ip = ip /\ Processor.stack = stack /\ Processor.ram = ram
    /\ Processor.calls = calls /\ Processor.halt = halt
  BY DEF Processor

LEMMA ExitFields ==
    ASSUME NEW q, NEW s, NEW r, NEW t, NEW x, NEW l, NEW n, Fits(q, s, r, t, x, l, n)
    PROVE  /\ l + 1 # 1 /\ l + 1 \in Nat
           /\ x.start.ip = 1 /\ x.start.stack = s /\ x.start.ram = r /\ x.start.halt = "no"
           /\ x.exit.ip = l + 1 /\ x.exit.stack = t /\ x.exit.ram = r /\ x.exit.halt = "no"
           /\ x.exit.calls = <<>>
           /\ [x.exit EXCEPT !.halt = "yes"].ip = l + 1 /\ [x.exit EXCEPT !.halt = "yes"].stack = t
           /\ [x.exit EXCEPT !.halt = "yes"].ram = r /\ [x.exit EXCEPT !.halt = "yes"].halt = "yes"
<1>1. x.start = At(1, s, r, <<>>) /\ x.exit = At(l + 1, t, r, <<>>) /\ l \in Nat /\ l # 0
  BY DEF Fits, Marked
<1> QED
  BY <1>1 DEF At

\* While the operation is executed the machine is where it began, or in
\* between, where no operation is complete.
LEMMA InBetween ==
    ASSUME NEW s, NEW r, NEW t, NEW x, NEW l, NEW n, Fits(prog, s, r, t, x, l, n),
           NEW y, Safe(x, y)
    PROVE  /\ y.ip # l + 1
           /\ y.ip = 1 => y = x.start
           /\ y.ip \in DOMAIN Lowered[prog].at <=> y.ip = 1
<1>1. l + 1 # 1 /\ x.start.ip = 1
  BY ExitFields
<1>2. 1 \notin x.inside /\ l + 1 \notin x.inside /\ DOMAIN Lowered[prog].at = {1, l + 1}
  BY DEF Fits, Marked
<1>3. y = x.start \/ y.ip \in x.inside
  BY DEF Safe
<1> QED
  BY <1>1, <1>2, <1>3

\* The invariant holds at first.
LEMMA AccessInit ==
    ASSUME \A q \in Programs : OneDeepAccess(q), Horizon \in Nat, Chunk > 1, Window > 3, Init
    PROVE  AccessInv
<1>1. prog \in Programs /\ stack \in Stacks /\ ram \in Rams
  BY DEF Init
<1>2. PICK t, x, l, n : Fits(prog, stack, ram, t, x, l, n)
  BY <1>1, ProgramFits
<1>3. Processor = x.start
  <2>1. x.start = At(1, stack, ram, <<>>)
    BY <1>2 DEF Fits
  <2> QED
    BY <2>1 DEF Init, Processor, At
<1>4. Processor # x.exit
  BY <1>2, <1>3, ExitFields
<1>5. Good(x, Processor)
  BY <1>2, <1>3 DEF Fits
<1>6. Executing(stack, ram, t, x)
  BY <1>4, <1>5 DEF Executing, Init
<1> QED
  BY <1>1, <1>2, <1>6 DEF AccessInv, Course

\* Where the machine goes with a step.
LEMMA StepIsAfter ==
    ASSUME NEW s, NEW r, NEW t, NEW x, NEW l, NEW n, Fits(prog, s, r, t, x, l, n), Step
    PROVE  Processor' = After(x.code[ip], x.entry, Processor) /\ halt = "no" /\ Follow
  BY ExecuteIsAfter DEF Fits, Marked, Step

\* What the operations that have just been completed do.
LEMMA FollowIs ==
    ASSUME NEW s, NEW r, NEW t, NEW x, NEW l, NEW n, Fits(prog, s, r, t, x, l, n), Follow,
           done = 0, source = [stack |-> s, ram |-> r]
    PROVE  /\ prog' = prog
           /\ ip' # ip /\ ip' = l + 1 => done' = 1 /\ source' = [stack |-> t, ram |-> r]
           /\ ip' = 1 \/ ip' \notin DOMAIN Lowered[prog].at => done' = 0 /\ source' = source
<1>1. /\ DOMAIN Lowered[prog].at = {1, l + 1} /\ Lowered[prog].at[1].ops = 0
      /\ Lowered[prog].at[l + 1].ops = 1
  BY DEF Fits, Marked
<1>2. prog = <<prog[1]>> /\ Meaning(source, prog[1]) = [stack |-> t, ram |-> r]
  BY DEF Fits
<1>3. prog' = prog
  BY DEF Follow
<1>4. ASSUME ip' # ip, ip' = l + 1 PROVE done' = 1 /\ source' = [stack |-> t, ram |-> r]
  <2>1. done' = 1 /\ source' = FoldLeft(Meaning, source, SubSeq(prog, done + 1, done'))
    BY <1>1, <1>4 DEF Follow
  <2>2. SubSeq(prog, done + 1, done') = <<prog[1]>>
    <3>1. done + 1 = 1 /\ done' = 1
      BY <2>1
    <3>2. SubSeq(prog, 1, 1) = <<prog[1]>>
      BY <1>2, OneSub
    <3> QED
      BY <3>1, <3>2
  <2>3. FoldLeft(Meaning, source, <<prog[1]>>) = Meaning(source, prog[1])
    BY MeaningOfOne, Zenon
  <2>4. source' = FoldLeft(Meaning, source, <<prog[1]>>)
    BY <2>1, <2>2, Zenon
  <2> QED
    BY <1>2, <2>1, <2>3, <2>4, Zenon
<1>5. ASSUME ip' = 1 \/ ip' \notin DOMAIN Lowered[prog].at PROVE done' = 0 /\ source' = source
  <2>1. CASE ip' # ip /\ ip' = 1
    <3>1. done' = 0 /\ source' = FoldLeft(Meaning, source, SubSeq(prog, done + 1, done'))
      BY <1>1, <2>1 DEF Follow
    <3>2. SubSeq(prog, done + 1, done') = <<>>
      <4>1. SubSeq(prog, 1, 0) = <<>>
        BY SubSeqEmpty
      <4>2. done + 1 = 1 /\ done' = 0
        BY <3>1
      <4> QED
        BY <4>1, <4>2
    <3>3. FoldLeft(Meaning, source, <<>>) = source
      BY NoDomain, Zenon DEF FoldLeft, MapThenFoldSet
    <3>4. source' = FoldLeft(Meaning, source, <<>>)
      BY <3>1, <3>2, Zenon
    <3> QED
      BY <3>1, <3>3, <3>4, Zenon
  <2>2. CASE ~(ip' # ip /\ ip' \in DOMAIN Lowered[prog].at)
    BY <2>2 DEF Follow
  <2> QED
    BY <1>5, <2>1, <2>2
<1> QED
  BY <1>3, <1>4, <1>5

\* A step inside the operation.
LEMMA ExecutingStep ==
    ASSUME NEW s, NEW r, NEW t, NEW x, NEW l, NEW n, Fits(prog, s, r, t, x, l, n),
           Executing(s, r, t, x), Step
    PROVE  Course(s, r, t, x, l, n)'
<1>1. Processor' = After(x.code[ip], x.entry, Processor) /\ halt = "no" /\ Follow
  BY StepIsAfter
<1>2. done = 0 /\ source = [stack |-> s, ram |-> r] /\ Good(x, Processor) /\ Processor # x.exit
  BY DEF Executing
<1>3. Safe(x, Processor) /\ Good(x, Processor')
  BY <1>1, <1>2, GoodIsSafe, ProcessorFields
<1>4. ip # l + 1
  BY <1>3, InBetween, ProcessorFields
<1>5. ip' = Processor'.ip
  BY DEF Processor
<1>6. Fits(prog', s, r, t, x, l, n)
  BY <1>1 DEF Follow
<1>7. CASE Processor' = x.exit
  <2>1. ip' = l + 1
    BY <1>5, <1>7, ExitFields
  <2>2. done' = 1 /\ source' = [stack |-> t, ram |-> r]
    BY <1>1, <1>2, <1>4, <2>1, FollowIs
  <2>3. Executed(r, t, x)'
    BY <1>7, <2>2 DEF Executed
  <2> QED
    BY <1>6, <2>3 DEF Course
<1>8. CASE Processor' # x.exit
  <2>1. Safe(x, Processor')
    BY <1>3, <1>8, GoodIsSafe
  <2>2. ip' = 1 \/ ip' \notin DOMAIN Lowered[prog].at
    BY <1>5, <2>1, InBetween
  <2>3. done' = 0 /\ source' = source
    BY <1>1, <1>2, <2>2, FollowIs
  <2>4. Executing(s, r, t, x)'
    BY <1>2, <1>3, <1>8, <2>3 DEF Executing
  <2> QED
    BY <1>6, <2>4 DEF Course
<1> QED
  BY <1>7, <1>8

\* The step after it, which halts.
LEMMA ExecutedStep ==
    ASSUME NEW s, NEW r, NEW t, NEW x, NEW l, NEW n, Fits(prog, s, r, t, x, l, n),
           Executed(r, t, x), Step
    PROVE  Course(s, r, t, x, l, n)'
<1>1. Processor' = After(x.code[ip], x.entry, Processor) /\ halt = "no" /\ Follow
  BY StepIsAfter
<1>2. Processor = x.exit /\ done = 1 /\ source = [stack |-> t, ram |-> r]
  <2>1. Processor.halt = "no" /\ [x.exit EXCEPT !.halt = "yes"].halt = "yes"
    BY <1>1, ExitFields, ProcessorFields
  <2>2. Processor # [x.exit EXCEPT !.halt = "yes"]
    BY <2>1, Zenon
  <2> QED
    BY <2>2, Zenon DEF Executed
<1>3. x.code[ip] = Halt /\ x.exit = At(l + 1, t, r, <<>>) /\ t \in Deep
  <2>1. x.code[l + 1] = Halt /\ x.exit = At(l + 1, t, r, <<>>) /\ t \in Deep
    BY Zenon DEF Fits, Marked
  <2>2. x.exit.ip = l + 1
    BY <2>1 DEF At
  <2>3. Processor.ip = ip
    BY ProcessorFields
  <2> QED
    BY <1>2, <2>1, <2>2, <2>3, Zenon
<1>4. CanRun(Halt, t)
  <2>1. Len(t) \in Nat /\ Len(t) >= Window /\ Window \in Nat
    BY <1>3, DeepFacts
  <2>2. Taken(Halt) = 0
    BY DEF Taken, Halt
  <2>3. Len(t) - Taken(Halt) >= Window
    BY <2>1, <2>2
  <2> QED
    BY <2>3 DEF CanRun, Halt, Encodable
<1>5. After(Halt, x.entry, x.exit) = [x.exit EXCEPT !.halt = "yes"]
  BY <1>3, <1>4 DEF After, At, Result, Halt
<1>6. Processor' = [x.exit EXCEPT !.halt = "yes"]
  BY <1>1, <1>2, <1>3, <1>5
<1>7. ip' = ip
  <2>1. ip' = l + 1 /\ ip = l + 1
    BY <1>2, <1>6, ExitFields DEF Processor
  <2> QED
    BY <2>1
<1>8. UNCHANGED <<prog, done, source>>
  BY <1>1, <1>7 DEF Follow
<1>9. Executed(r, t, x)'
  BY <1>2, <1>6, <1>8 DEF Executed
<1> QED
  BY <1>8, <1>9 DEF Course

\* Every step preserves the invariant.
LEMMA AccessNext ==
    ASSUME AccessInv, [Next]_vars
    PROVE  AccessInv'
<1>1. PICK s, r, t, x, l, n : Course(s, r, t, x, l, n)
  BY DEF AccessInv
<1>2. CASE Step
  <2>1. Course(s, r, t, x, l, n)'
    BY <1>1, <1>2, ExecutingStep, ExecutedStep DEF Course
  <2>2. prog' \in Programs
    BY <1>2 DEF Step, Follow, AccessInv
  <2> QED
    BY <2>1, <2>2 DEF AccessInv
<1>3. CASE UNCHANGED vars
  <2>1. Processor' = Processor /\ UNCHANGED <<prog, done, source>>
    BY <1>3 DEF vars, Processor
  <2>2. Course(s, r, t, x, l, n)'
    BY <1>1, <2>1 DEF Course, Executing, Executed
  <2> QED
    BY <2>1, <2>2 DEF AccessInv
<1> QED
  BY <1>2, <1>3 DEF Next, Halted

\* The block whose code is executed.
LEMMA BlockIs ==
    ASSUME NEW s, NEW r, NEW t, NEW x, NEW l, NEW n, Fits(prog, s, r, t, x, l, n)
    PROVE  /\ done = 0 => Block.cells = n
           /\ done = 1 => Block.cells = 0
<1>1. /\ DOMAIN Lowered[prog].at = {1, l + 1} /\ 1 # l + 1
      /\ Lowered[prog].at[1] = [ops |-> 0, cells |-> n]
      /\ Lowered[prog].at[l + 1] = [ops |-> 1, cells |-> 0]
  BY ExitFields DEF Fits, Marked
<1> DEFINE at == Lowered[prog].at
           i == CHOOSE j \in DOMAIN at : at[j].ops = done
<1>2. Block = at[i]
  BY DEF Block
<1> HIDE DEF at
<1>3. /\ DOMAIN at = {1, l + 1} /\ at[1].ops = 0 /\ at[l + 1].ops = 1
      /\ at[1].cells = n /\ at[l + 1].cells = 0
  BY <1>1 DEF at
<1>4. ASSUME done = 0 PROVE i = 1
  <2>1. \E j \in DOMAIN at : at[j].ops = done
    BY <1>3, <1>4
  <2>2. i \in DOMAIN at /\ at[i].ops = done
    BY <2>1
  <2> QED
    BY <1>3, <1>4, <2>2
<1>5. ASSUME done = 1 PROVE i = l + 1
  <2>1. \E j \in DOMAIN at : at[j].ops = done
    BY <1>3, <1>5
  <2>2. i \in DOMAIN at /\ at[i].ops = done
    BY <2>1
  <2> QED
    BY <1>3, <1>5, <2>2
<1> HIDE DEF i
<1> QED
  BY <1>2, <1>3, <1>4, <1>5

\* The three properties hold while the operation is executed and after it.
LEMMA AccessProperties ==
    ASSUME AccessInv
    PROVE  LoweringIsExact /\ OccupiedCellsSurvive /\ FailsOnlyWhenFull
<1>1. PICK s, r, t, x, l, n : Course(s, r, t, x, l, n)
  BY DEF AccessInv
<1>2. Fits(prog, s, r, t, x, l, n)
  BY <1>1 DEF Course
<1>3. CASE Executing(s, r, t, x)
  <2>1. done = 0 /\ source = [stack |-> s, ram |-> r] /\ Safe(x, Processor)
    BY <1>3, GoodIsSafe DEF Executing
  <2>2. Block.cells = n /\ n > 0 /\ x.cells = n /\ x.start.ram = r /\ x.start.stack = s /\ x.start.halt = "no"
    <3>1. n \in Nat /\ n # 0 /\ x.cells = n
      BY <1>2 DEF Fits, Marked
    <3> QED
      BY <1>2, <2>1, <3>1, BlockIs, ExitFields
  <2>3. LoweringIsExact
    <3> SUFFICES ASSUME ip \in DOMAIN Lowered[prog].at PROVE stack = source.stack /\ ram = source.ram
      BY DEF LoweringIsExact
    <3>1. Processor = x.start
      BY <1>2, <2>1, InBetween, ProcessorFields
    <3> QED
      BY <2>1, <2>2, <3>1, ProcessorFields
  <2>4. OccupiedCellsSurvive
    <3>1. Kept(r, ram)
      BY <2>1, <2>2, ProcessorFields DEF Safe, Kept
    <3> QED
      BY <2>1, <3>1 DEF OccupiedCellsSurvive, Kept
  <2>5. FailsOnlyWhenFull
    <3> SUFFICES ASSUME halt = "crashed"
                 PROVE  Block.cells > 0 /\ Full(source.ram, Block.cells)
      BY DEF FailsOnlyWhenFull, Full
    <3>1. Full(x.start.ram, x.cells)
      BY <2>1, <2>2, ProcessorFields DEF Safe
    <3> QED
      BY <2>1, <2>2, <3>1
  <2> QED
    BY <2>3, <2>4, <2>5
<1>4. CASE Executed(r, t, x)
  <2>1. done = 1 /\ source = [stack |-> t, ram |-> r]
    BY <1>4 DEF Executed
  <2>2. Block.cells = 0
    BY <1>2, <2>1, BlockIs
  <2>3. stack = t /\ ram = r /\ halt # "crashed"
    <3>1. CASE Processor = x.exit
      BY <1>2, <3>1, ExitFields, ProcessorFields
    <3>2. CASE Processor = [x.exit EXCEPT !.halt = "yes"]
      BY <1>2, <3>2, ExitFields, ProcessorFields
    <3> QED
      BY <1>4, <3>1, <3>2 DEF Executed
  <2>4. LoweringIsExact
    BY <2>1, <2>3 DEF LoweringIsExact
  <2>5. OccupiedCellsSurvive
    BY <2>2 DEF OccupiedCellsSurvive
  <2>6. FailsOnlyWhenFull
    BY <2>3 DEF FailsOnlyWhenFull
  <2> QED
    BY <2>4, <2>5, <2>6
<1> QED
  BY <1>1, <1>3, <1>4 DEF Course

\* The sizes of Triton VM and of the lowerer, and programs of one dup or swap
\* that does not fit into an instruction.
DeepPrograms ==
    /\ Chunk > 1 /\ Window > 3 /\ Horizon \in Nat
    /\ \A q \in Programs : OneDeepAccess(q)

\* The inductive invariant holds for every such program, all depths, stacks and
\* contents of RAM.
THEOREM AccessIsInvariant ==
    ASSUME DeepPrograms
    PROVE  Spec => []AccessInv
<1>1. Init => AccessInv
  BY AccessInit DEF DeepPrograms
<1>2. AccessInv /\ [Next]_vars => AccessInv'
  BY AccessNext
<1> QED
  BY <1>1, <1>2, PTL DEF Spec

\* rs/lower/triton.rs, dup and swap below the window: where the code ends, the
\* stack is what the operation makes of it and RAM is what it was, whatever RAM
\* held, whichever cells were borrowed, at every depth.
THEOREM DeepAccessIsExact ==
    ASSUME DeepPrograms
    PROVE  Spec => []LoweringIsExact
<1>1. AccessInv => LoweringIsExact
  BY AccessProperties
<1> QED
  BY <1>1, AccessIsInvariant, PTL

\* No cell that was in use is ever overwritten on the way.
THEOREM DeepAccessSparesOccupiedCells ==
    ASSUME DeepPrograms
    PROVE  Spec => []OccupiedCellsSurvive
<1>1. AccessInv => OccupiedCellsSurvive
  BY AccessProperties
<1> QED
  BY <1>1, AccessIsInvariant, PTL

\* The code fails only if RAM has no run of zero cells of the length it needs.
THEOREM DeepAccessFailsOnlyWhenFull ==
    ASSUME DeepPrograms
    PROVE  Spec => []FailsOnlyWhenFull
<1>1. AccessInv => FailsOnlyWhenFull
  BY AccessProperties
<1> QED
  BY <1>1, AccessIsInvariant, PTL

=============================================================================
