--------------------------- MODULE LinkedPrograms ---------------------------
(***************************************************************************)
(* build_tasm of rs/lower/mod.rs and what becomes of its result: programs  *)
(* of one or more modules are lowered, linked and executed on Triton VM.   *)
(* What their operations mean, which the compiler defines outside the      *)
(* repository, is written down here by itself, on structured programs;     *)
(* the two must agree on everything a program leaves behind.               *)
(***************************************************************************)
EXTENDS Linker

CONSTANT Cases   (* a sequence: [modules, input, secret, stack, ram] of each
                    execution; modules is a sequence of [name, program, ops] *)

VARIABLE case

vars == <<machine, streams, case>>

-----------------------------------------------------------------------------
(* The linked program.                                                     *)

\* Every program is built once.  A refused one has no text.
Linked == [n \in DOMAIN Cases |->
             IF Refused(Cases[n].modules) THEN <<>> ELSE BuildTasm(Cases[n].modules)]

\* Labels take no place among the instructions.
Instructed(text) == SelectSeq(text, LAMBDA line : ~IsLabel(line))
Place(at, k) == k - Cardinality({j \in at : j < k})
EntryOf(text, at) ==
    [l \in {text[k][2] : k \in at} |-> Place(at, CHOOSE k \in at : text[k][2] = l)]

Program == [n \in DOMAIN Cases |->
              [code |-> Instructed(Linked[n]), entry |-> EntryOf(Linked[n], LabelsAt(Linked[n]))]]

-----------------------------------------------------------------------------
(* What operations mean.                                                   *)

\* s is a state of the source program, its stack with the top first; ok says
\* that no check has failed.  The last of several words is on top.
Top(s, n) == SubSeq(s.stack, 1, n)
Under(s, n) == SubSeq(s.stack, n + 1, Len(s.stack))
Declared(s, n) == Reverse(Top(s, n))
Gives(s, n, words) == [s EXCEPT !.stack = Reverse(words) \o Under(s, n)]
Fails(s) == [s EXCEPT !.ok = FALSE]

Word(b) == IF b THEN 1 ELSE 0

Arithmetic(s, name) ==
    LET a == s.stack[2]
        b == s.stack[1]
        two(word) == Gives(s, 2, <<word>>)
    IN CASE name = "Add" -> two((a + b) % Order)
         [] name = "Sub" -> two((a - b) % Order)
         [] name = "Mul" -> two((a * b) % Order)
         [] name = "Eq" -> two(Word(a = b))
         [] name = "Lt" -> two(Word(b < a))
         [] name = "And" -> two(Result("and", <<b, a>>)[1])
         [] name = "Xor" -> two(Result("xor", <<b, a>>)[1])
         [] name = "Pow" -> two(Power(a, b))
         [] name = "Shl" -> two((a * Power(2, b)) % Order)
         [] name = "Shr" -> two(a \div Power(2, b))
         [] name = "DivMod" -> Gives(s, 2, <<b \div a, b % a>>)
         [] name = "Neg" -> Gives(s, 1, <<(-b) % Order>>)
         [] name = "Invert" -> Gives(s, 1, Result("invert", <<b>>))
         [] name = "Log2" -> Gives(s, 1, Result("log_2_floor", <<b>>))
         [] name = "PopCount" -> Gives(s, 1, Result("pop_count", <<b>>))
         [] name = "Split" -> Gives(s, 1, <<b \div Limb, b % Limb>>)

\* Extension elements have their last coefficient on top; pointers are above.
Extension(s, name) ==
    CASE name = "ExtMul" -> [s EXCEPT !.stack = Result("xb_mul", Top(s, 4)) \o Under(s, 4)]
      [] name = "ExtInvert" -> Gives(s, 3, Result("x_invert", Declared(s, 3)))
      [] OTHER ->
           LET span == IF name = "FoldExt" THEN 3 ELSE 1
               acc == Reverse(SubSeq(s.stack, 3, 5))
           IN [s EXCEPT !.stack =
                  <<(@[1] + span) % Order, (@[2] + 3) % Order>>
                  \o Reverse(Dotted(s.ram, acc, @[1], @[2], span)) \o Under(s, 5)]

\* A node has its index below; a pointer to its sibling is above both.
Merkle(s, name) ==
    IF name = "MerkleStep"
    THEN LET up == Parent(s.stack[6], Declared(s, 5), SubSeq(s.secret, 1, 5))
         IN Gives([s EXCEPT !.secret = Suffix(@, 5)], 6, <<s.stack[6] \div 2>> \o up)
    ELSE LET node == SubSeq(Declared(s, 6), 1, 5)
             up == Parent(s.stack[7], node, CellsAt(s.ram, s.stack[1], 5))
         IN Gives(s, 7, <<s.stack[7] \div 2>> \o up \o <<(s.stack[1] + 5) % Order>>)

Crypto(s, name) ==
    CASE name = "Hash" -> Gives(s, 10, Result("hash", Declared(s, 10)))
      [] name = "SpongeInit" -> [s EXCEPT !.sponge = 0]
      [] name = "SpongeAbsorb" ->
           [s EXCEPT !.sponge = Mix(@, Declared(s, 10)), !.stack = Under(s, 10)]
      [] name = "SpongeSqueeze" ->
           [Gives(s, 0, Mixed(s.sponge, <<1>>, 10)) EXCEPT !.sponge = Mix(@, <<2>>)]
      [] name = "SpongeLoad" ->
           [s EXCEPT !.sponge = Mix(@, CellsAt(s.ram, s.stack[1], 10)),
                     !.stack = Under(s, 1)]

Written(memory, address, words) ==
    [a \in Words |-> LET k == (a - address) % Order
                     IN IF k < Len(words) THEN words[k + 1] ELSE memory[a]]

\* ReadMem and WriteMem are the instructions: the pointer moves.
Memory(s, name, n) ==
    CASE name = "RamRead" -> Gives(s, 1, CellsAt(s.ram, s.stack[1], n))
      [] name = "RamWrite" ->
           [s EXCEPT !.ram = Written(@, s.stack[n + 1], Declared(s, n)),
                     !.stack = Under(s, n + 1)]
      [] name = "ReadMem" ->
           Gives(s, 1, Reverse(CellsAt(s.ram, s.stack[1] - n + 1, n))
                         \o <<(s.stack[1] - n) % Order>>)
      [] name = "WriteMem" ->
           [s EXCEPT !.ram = Written(@, s.stack[1], SubSeq(s.stack, 2, n + 1)),
                     !.stack = <<(s.stack[1] + n) % Order>> \o Under(s, n + 1)]

\* An event shows its tag and its fields in order, or the digest of them.
Event(s, name, tag, count) ==
    LET fields == Declared(s, count)
        shown == IF name = "Reveal" THEN <<tag>> \o fields
                 ELSE Result("hash", <<tag>> \o fields \o [k \in 1 .. 9 - count |-> 0])
    IN [s EXCEPT !.output = @ \o shown, !.stack = Under(s, count)]

Entering(s, type) ==
    IF s.input = <<>> THEN Fails(s)
    ELSE LET word == Head(s.input)
             fits == CASE type = "Field" -> TRUE
                       [] type = "Bool" -> word \in {0, 1}
                       [] type = "U32" -> word < Limb
             next == [Gives(s, 0, <<word>>) EXCEPT !.input = Tail(@)]
         IN IF fits THEN next ELSE Fails(next)

\* The words of the witness: a version, and a claim and a proof with lengths.
Witness(words) ==
    LET claims == words[2]
        proofs == words[claims + 3]
    IN [claim |-> SubSeq(words, 3, claims + 2), proofs |-> proofs,
        proof |-> SubSeq(words, claims + 4, claims + 3 + proofs),
        rest |-> Suffix(words, claims + 3 + proofs)]

Convincing(words, commitment) ==
    /\ words[1] = SchemaVersion
    /\ words[2] \in 1 .. MaxClaim
    /\ LET w == Witness(words) IN
       /\ Commitment(w.claim) = commitment
       /\ w.proofs \in 1 .. MaxProof
       /\ w.proof[1] = w.proofs - 1
       /\ w.proof = ProofOf(w.claim)

VerifyAny(s, n, commitment) ==
    IF Convincing(s.secret, commitment)
    THEN [s EXCEPT !.stack = Under(s, n), !.secret = Witness(@).rest]
    ELSE Fails(s)

\* A target call, by the routine it is about.
Target(s, label) ==
    IF label = DigestEntry THEN Gives(s, 0, CellsAt(s.ram, DigestAddress, 5))
    ELSE IF label = VerifyEntry THEN VerifyAny(s, 5, Declared(s, 5))
    ELSE LET n == 5 * Pinned[label].count
             digests == [k \in 1 .. Pinned[label].count |->
                            SubSeq(Declared(s, n), 5 * k - 4, 5 * k)]
         IN VerifyAny(s, n, Commitment(ExpectedClaim(Pinned[label].program, digests)))

StackMeaning(s, name, n) ==
    LET st == s.stack IN
    CASE name = "Push" -> Gives(s, 0, <<n % Order>>)
      [] name = "Pop" -> [s EXCEPT !.stack = Under(s, n)]
      [] name = "Dup" -> Gives(s, 0, <<st[n + 1]>>)
      [] name = "Swap" -> [s EXCEPT !.stack[1] = st[n + 1], !.stack[n + 1] = st[1]]
      [] name = "ReadIo" -> [Gives(s, 0, SubSeq(s.input, 1, n)) EXCEPT !.input = Suffix(@, n)]
      [] name = "Hint" -> [Gives(s, 0, SubSeq(s.secret, 1, n)) EXCEPT !.secret = Suffix(@, n)]
      [] name = "WriteIo" -> [s EXCEPT !.output = @ \o Top(s, n), !.stack = Under(s, n)]
      [] name = "Assert" ->
           [s EXCEPT !.ok = IF n = 1 THEN st[1] = 1 ELSE Top(s, 5) = SubSeq(st, 6, 10),
                     !.stack = Under(s, IF n = 1 THEN 1 ELSE 5)]

\* One operation that holds no other.
Simple(s, name, n) ==
    CASE name \in {"Push", "Pop", "Dup", "Swap", "ReadIo", "Hint", "WriteIo", "Assert"} ->
           StackMeaning(s, name, n)
      [] name \in {"RamRead", "RamWrite", "ReadMem", "WriteMem"} -> Memory(s, name, n)
      [] name \in {"ExtMul", "ExtInvert", "FoldExt", "FoldBase"} -> Extension(s, name)
      [] name \in {"MerkleStep", "MerkleLoad"} -> Merkle(s, name)
      [] name \in {"Reveal", "Seal"} -> Event(s, name, n[1], n[2])
      [] name \in {"Hash", "SpongeInit", "SpongeAbsorb", "SpongeSqueeze", "SpongeLoad"} ->
           Crypto(s, name)
      [] name = "TargetCall" -> Target(s, Assemblies[n.name].label)
      [] name = "EntryParameters" -> FoldLeft(Entering, s, n)
      [] name \in {"Comment", "Return", "Loop", "FnStart", "FnEnd"} -> s
      [] OTHER -> Arithmetic(s, name)

-----------------------------------------------------------------------------
(* What structured programs mean.                                          *)

ModuleOf(modules, prefix) ==
    modules[CHOOSE k \in DOMAIN modules : Flat[modules[k].name] = prefix]

\* The parts of a name that count.
Plain(name) == IF Head(name) = "" THEN Tail(name) ELSE name

LoopsIn(ops, name) == {op \in Nested(ops) : op[1] = "Loop" /\ Plain(op[2].label) = name}

\* The operations of a function.
BodyOf(ops, name) ==
    LET start == CHOOSE k \in DOMAIN ops : ops[k][1] = "FnStart" /\ Plain(ops[k][2]) = name
        end == Min({k \in DOMAIN ops : k > start /\ ops[k][1] = "FnEnd"})
    IN SubSeq(ops, start + 1, end - 1)

RECURSIVE Run1(_, _, _, _), RunAll(_, _, _, _), RunLoop(_, _, _, _), RunNamed(_, _, _, _)

\* ms is the program, prefix the module whose operations are executed.
RunAll(ms, prefix, s, ops) ==
    FoldLeft(LAMBDA t, op : IF t.ok THEN Run1(ms, prefix, t, op) ELSE t, s, ops)

\* The counter is on top: it goes down to zero before each round.
RunLoop(ms, prefix, s, body) ==
    IF ~s.ok \/ s.stack[1] = 0 THEN s
    ELSE RunLoop(ms, prefix,
                 RunAll(ms, prefix, [s EXCEPT !.stack[1] = (@ - 1) % Order], body), body)

RunNamed(ms, prefix, s, name) ==
    LET ops == ModuleOf(ms, prefix).ops
        loops == LoopsIn(ops, name)
    IN IF loops # {} THEN RunLoop(ms, prefix, s, (CHOOSE l \in loops : TRUE)[2].body)
       ELSE RunAll(ms, prefix, s, BodyOf(ops, name))

Run1(ms, prefix, s, op) ==
    LET arg == op[2]
        rest == [s EXCEPT !.stack = Tail(@)]
    IN CASE op[1] = "IfElse" ->
              RunAll(ms, prefix, rest, IF s.stack[1] # 0 THEN arg[1] ELSE arg[2])
         [] op[1] = "IfOnly" ->
              RunAll(ms, prefix, rest, IF s.stack[1] # 0 THEN arg ELSE <<>>)
         [] op[1] = "ProofBlock" -> RunAll(ms, prefix, s, arg)
         [] op[1] = "Entry" -> RunNamed(ms, prefix, s, Plain(arg))
         [] op[1] = "Call" ->
              IF Head(arg) = "@" THEN RunNamed(ms, arg[2], s, Suffix(arg, 2))
              ELSE RunNamed(ms, prefix, s, Plain(arg))
         [] op[1] = "Asm" -> RunNamed(ms, prefix, s, Suffix(arg[1][2], 1))
         [] OTHER -> Simple(s, op[1], arg)

\* The operations of the program module outside functions.
TopLevel(ops) == SubSeq(ops, 1, Min({k \in DOMAIN ops : ops[k][1] = "FnStart"}) - 1)

Asks(modules) ==
    \E k \in DOMAIN modules : \E op \in Nested(modules[k].ops) :
        op[1] = "TargetCall" /\ Assemblies[op[2].name].label = DigestEntry

\* Asking for the digest takes the cells that it is kept in.
Begun(c) ==
    [stack |-> c.stack, input |-> c.input, secret |-> c.secret, output |-> <<>>,
     sponge |-> 0, ok |-> TRUE,
     ram |-> IF Asks(c.modules) THEN Written(c.ram, DigestAddress, SubSeq(c.stack, 12, 16))
             ELSE c.ram]

Meant(c) ==
    LET program == c.modules[CHOOSE k \in DOMAIN c.modules : c.modules[k].program]
    IN RunAll(c.modules, Flat[program.name], Begun(c), TopLevel(program.ops))

Expected == [n \in {k \in DOMAIN Cases : Linked[k] # <<>>} |-> Meant(Cases[n])]

-----------------------------------------------------------------------------

Init ==
    /\ case \in DOMAIN Cases
    /\ ip = 1 /\ stack = Cases[case].stack /\ ram = Cases[case].ram /\ calls = <<>>
    /\ halt = IF Linked[case] = <<>> THEN "refused" ELSE "no"
    /\ input = Cases[case].input /\ secret = Cases[case].secret /\ output = <<>> /\ sponge = 0

Step ==
    /\ halt = "no"
    /\ ExecuteAny(Program[case].code[ip], Program[case].entry)
    /\ UNCHANGED case

Stopped == halt # "no" /\ UNCHANGED vars

Next == Step \/ Stopped

Spec == Init /\ [][Next]_vars

-----------------------------------------------------------------------------
(* Properties.                                                             *)

\* In the text of a linked program each label is defined once, and each that
\* is called is defined: the labels made for branches, loops and the search
\* differ in all modules, and what was left out is not needed (linker.rs:
\* "only includes functions reachable from the program entry point").
NothingMissing ==
    LET text == Linked[case]
        defined == {text[k][2] : k \in LabelsAt(text)}
    IN /\ Cardinality(defined) = Cardinality(LabelsAt(text))
       /\ CallsIn(text) \subseteq defined

\* Besides, a linked program that halts has left the stack, the rest of its
\* input and secrets, its output, its sponge and all of its RAM as the source
\* program would: every branch was taken once and only when it should, every
\* loop went round as often, operands and digests were in the order of the
\* source.  One that fails is a source program that fails a check, or input
\* of the wrong type, or a proof that is not of the claim it should be.
LinkedIsExact ==
    /\ NothingMissing
    /\ halt = "yes" =>
          LET s == Expected[case] IN
          /\ s.ok
          /\ <<stack, input, secret, output, sponge>>
               = <<s.stack, s.input, s.secret, s.output, s.sponge>>
          /\ \A a \in Words \ Reserved : ram[a] = s.ram[a]
    /\ halt = "crashed" => ~Expected[case].ok

=============================================================================
