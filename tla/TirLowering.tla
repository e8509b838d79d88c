---------------------------- MODULE TirLowering ----------------------------
(***************************************************************************)
(* TritonLowering of rs/lower/triton.rs on whole modules: every operation  *)
(* of the intermediate representation TIR, with the branches and loops     *)
(* whose bodies become subroutines after the function that holds them, and *)
(* the checks of rs/lower/entry.rs and rs/lower/target_call.rs.            *)
(*                                                                         *)
(* An operation is a pair <<name, argument>>, a line of code an            *)
(* instruction or <<"label", l>>.  A label is the sequence of its parts    *)
(* between "__": __then__1 is <<"", "then", "1">>, and a leading part "@"  *)
(* marks a call into another module.                                       *)
(***************************************************************************)
EXTENDS Legalize, TritonNative

CONSTANTS Assemblies   (* target call -> [abi, the label it calls]          *)

Label(l) == <<"label", l>>

-----------------------------------------------------------------------------
(* Operations that always become the same instructions.                    *)

\* permute with the words numbered from zero, as in the source.
Arranged(order) == Permute([k \in DOMAIN order |-> order[k] + 1])

\* The last word of the source is on top, the first of the instruction.
Hashed == Reversed(10) \o <<Native("hash")>> \o Reversed(5)

\* The coefficients below two pointers are turned over and back.
Folded(step) == <<Swap(2), Swap(4), Swap(2), Native(step), Swap(2), Swap(4), Swap(2)>>

Fixed ==
    [Mul |-> <<Mul>>, Eq |-> <<Eq>>, Neg |-> <<Push(-1), Mul>>,
     Lt |-> <<Native("lt")>>, And |-> <<Native("and")>>, Xor |-> <<Native("xor")>>,
     DivMod |-> <<Native("div_mod")>>, Invert |-> <<Native("invert")>>,
     Split |-> <<Native("split")>>, Log2 |-> <<Native("log_2_floor")>>,
     PopCount |-> <<Native("pop_count")>>,
     Shl |-> <<Push(2), Native("pow"), Mul>>,
     Shr |-> <<Push(2), Native("pow"), Swap(1), Native("div_mod"), Pop(1)>>,
     Pow |-> <<Swap(1), Native("pow")>>,
     ExtMul |-> <<Native("xb_mul")>>,
     ExtInvert |-> <<Swap(2), Native("x_invert"), Swap(2)>>,
     FoldExt |-> Folded("xx_dot_step"), FoldBase |-> Folded("xb_dot_step"),
     Hash |-> Hashed,
     SpongeInit |-> <<Native("sponge_init")>>,
     SpongeAbsorb |-> Reversed(10) \o <<Native("sponge_absorb")>>,
     SpongeSqueeze |-> <<Native("sponge_squeeze")>> \o Reversed(10),
     SpongeLoad |-> Times(4, <<Push(0)>>)
                    \o <<Swap(4), Native("sponge_absorb_mem"), Pop(5)>>,
     MerkleStep |-> Reversed(5) \o <<Native("merkle_step")>> \o Reversed(5),
     MerkleLoad |-> <<Push(0)>> \o Arranged(<<6, 7, 0, 5, 4, 3, 2, 1>>)
                    \o <<Native("merkle_step_mem")>>
                    \o Arranged(<<2, 7, 6, 5, 4, 3, 0, 1>>) \o <<Pop(1)>>,
     Return |-> <<Return>>, Halt |-> <<Halt>>]

Streams == [ReadIo |-> "read_io", WriteIo |-> "write_io", Hint |-> "divine",
            ReadMem |-> "read_mem", WriteMem |-> "write_mem"]

Reveal(tag, count) ==
    (IF count > 1 THEN Reversed(count) ELSE <<>>)
    \o <<Push(tag), WriteIo(1)>> \o Times(count, <<WriteIo(1)>>)

\* A tag, the fields in their order and zeros up to ten words are hashed.
Seal(tag, count) ==
    Times(9 - count, <<Push(0)>>) \o <<Push(tag)>>
    \o Permute([k \in 1 .. 10 |-> IF k = 10 THEN 10
                                  ELSE IF k <= 9 - count THEN count + k ELSE 10 - k])
    \o <<Native("hash"), WriteIo(5)>>

\* entry::emit: one word of public input, within its type.
Entered(type) ==
    <<ReadIo(1)>>
    \o (CASE type = "Field" -> <<>>
          [] type = "Bool" -> <<Dup(0), Dup(0), Push(-1), Add, Mul, Push(0), Eq, AssertOne>>
          [] type = "U32" -> <<Native("split"), Swap(1), Push(0), Eq, AssertOne>>)

-----------------------------------------------------------------------------
(* The lowerer.                                                            *)

\* code is what it has written, deferred the blocks it still owes, count the
\* labels it has made, scratch the label of the search or <<>>.
Start == [code |-> <<>>, deferred |-> <<>>, count |-> 0, scratch |-> <<>>]

Emit(s, lines) == [s EXCEPT !.code = @ \o lines]

\* fresh_label: the counter goes up, then the label is made of it.
Counted(s) == [s EXCEPT !.count = @ + 1]
Fresh(kind, count) == <<"", kind, ToString(count)>>

\* ensure_scratch_search
Searching(s) ==
    IF s.scratch # <<>> THEN s
    ELSE [Counted(s) EXCEPT !.scratch = Fresh("stack_scratch", Counted(s).count)]

\* The calls of the search, by the label that this module has for it.
Scratched(scratch, lines) ==
    [k \in DOMAIN lines |->
        CASE lines[k] = Call("search") -> Call(scratch)
          [] lines[k] = Call("scan") -> Call(Append(scratch, "scan"))
          [] OTHER -> lines[k]]

EmitDeep(s, lines) == Emit(Searching(s), Scratched(Searching(s).scratch, lines))

Marked(name) == Head(name) \in {"", "@"}

\* format_label, except for names that have the form of a label.
Formatted(name) == IF Head(name) = "" THEN name ELSE <<"">> \o name

Defer(s, label, ops, clears, loop) ==
    [s EXCEPT !.deferred =
        Append(@, [label |-> label, ops |-> ops, clears |-> clears, loop |-> loop])]

\* IfElse: a flag below the condition, cleared by one branch, calls the other.
IfElse(s, then, else) ==
    LET first == Counted(s)
        second == Counted(first)
        thenLabel == Fresh("then", first.count)
        elseLabel == Fresh("else", second.count)
    IN Defer(Defer(Emit(second, <<Push(1), Swap(1), Skiz, Call(thenLabel),
                                  Skiz, Call(elseLabel)>>),
                   thenLabel, then, TRUE, FALSE),
             elseLabel, else, FALSE, FALSE)

IfOnly(s, then) ==
    LET label == Fresh("then", Counted(s).count)
    IN Defer(Emit(Counted(s), <<Skiz, Call(label)>>), label, then, FALSE, FALSE)

RECURSIVE LowerOne(_, _), LowerAll(_, _), Flush(_)

\* lower_op
LowerOne(s, op) ==
    LET name == op[1]
        arg == op[2]
    IN CASE name \in {"Push", "Pop", "Add", "Sub", "RamRead", "RamWrite"} ->
              Emit(s, LowerOp(op))
         [] name \in {"Dup", "Swap"} ->
              IF arg >= Window THEN EmitDeep(s, LowerOp(op)) ELSE Emit(s, LowerOp(op))
         [] name \in DOMAIN Fixed -> Emit(s, Fixed[name])
         [] name \in DOMAIN Streams -> Emit(s, Batch(Streams[name], arg))
         [] name = "Assert" -> Emit(s, <<IF arg = 1 THEN AssertOne ELSE Native("assert_vector")>>)
         [] name = "Reveal" -> Emit(s, Reveal(arg[1], arg[2]))
         [] name = "Seal" -> Emit(s, Seal(arg[1], arg[2]))
         [] name = "ProofBlock" -> FoldLeft(LowerOne, s, arg)
         [] name = "TargetCall" ->
              Emit(s, <<Call(<<"@">> \o Assemblies[arg.name].label)>>)
         [] name = "Call" -> Emit(s, <<Call(IF Marked(arg) THEN arg ELSE <<"">> \o arg)>>)
         [] name = "IfElse" -> IfElse(s, arg[1], arg[2])
         [] name = "IfOnly" -> IfOnly(s, arg)
         [] name = "Loop" -> Defer(s, Formatted(arg.label), arg.body, FALSE, TRUE)
         [] name = "FnStart" -> Emit(s, <<Label(Formatted(arg))>>)
         [] name = "FnEnd" -> Flush(s)
         [] name = "EntryParameters" ->
              Emit(s, FlattenSeq([k \in DOMAIN arg |-> Entered(arg[k])]))
         [] name = "Entry" -> Emit(s, <<Call(Formatted(arg)), Halt>>)
         [] name = "Asm" -> Emit(s, arg)
         [] name = "Comment" -> s

\* lower_ops: a shuffle where there is one, else one operation.
LowerAll(s, ops) ==
    IF ops = <<>> THEN s
    ELSE IF Plan(ops) = {} THEN LowerAll(LowerOne(s, Head(ops)), Tail(ops))
    ELSE LET plan == CHOOSE b \in Plan(ops) : TRUE
         IN LowerAll(EmitDeep(s, plan.code), SubSeq(ops, plan.ops + 1, Len(ops)))

\* Variant of Closing: a branch does not tell that it was taken.
ClosingSilent(block) ==
    IF block.loop THEN <<Recurse>> ELSE <<Return>>

Opening(block) ==
    (IF block.loop THEN <<Dup(0), Push(0), Eq, Skiz, Return, Push(-1), Add>> ELSE <<>>)
    \o (IF block.clears THEN <<Pop(1)>> ELSE <<>>)

Closing(block) ==
    IF block.loop THEN <<Recurse>>
    ELSE (IF block.clears THEN <<Push(0)>> ELSE <<>>) \o <<Return>>

EmitBlock(s, block) ==
    Emit(LowerAll(Emit(s, <<Label(block.label)>> \o Opening(block)), block.ops),
         Closing(block))

\* flush_deferred: the blocks owed, then those that these have deferred.
Flush(s) ==
    IF s.deferred = <<>> THEN s
    ELSE Flush(FoldLeft(EmitBlock, [s EXCEPT !.deferred = <<>>], s.deferred))

\* The search, after a halt, if anything calls it.
Appended(s) ==
    IF s.scratch = <<>> THEN s.code
    ELSE s.code \o <<Halt, Label(s.scratch)>> \o Scratched(s.scratch, Search)
         \o <<Label(Append(s.scratch, "scan"))>> \o Scan

\* lower: every module begins with a counter and labels of its own.
LowerModule(ops) == Appended(LowerAll(Start, ops))

-----------------------------------------------------------------------------
(* What is refused before it is lowered.                                   *)

Bodies(op) ==
    CASE op[1] = "IfElse" -> {op[2][1], op[2][2]}
      [] op[1] \in {"IfOnly", "ProofBlock"} -> {op[2]}
      [] op[1] = "Loop" -> {op[2].body}
      [] OTHER -> {}

RECURSIVE Nested(_)

\* All operations, those in bodies included.
Nested(ops) ==
    ToSet(ops) \cup UNION {Nested(b) : b \in UNION {Bodies(ops[k]) : k \in DOMAIN ops}}

Outside(ops, k) ==
    Cardinality({j \in 1 .. k : ops[j][1] = "FnStart"})
      = Cardinality({j \in 1 .. k : ops[j][1] = "FnEnd"})

\* validate_structure: the program is entered once, outside functions, with
\* its parameters just before.
EntryIsValid(ops) ==
    /\ \A op \in UNION {Nested(b) : b \in UNION {Bodies(ops[k]) : k \in DOMAIN ops}} :
          op[1] \notin {"Entry", "EntryParameters"}
    /\ \A k \in DOMAIN ops : ops[k][1] = "Entry" =>
          Outside(ops, k) /\ \A j \in 1 .. k - 1 : ops[j][1] # "Entry"
    /\ \A k \in DOMAIN ops : ops[k][1] = "EntryParameters" =>
          /\ Outside(ops, k) /\ k < Len(ops) /\ ops[k + 1][1] = "Entry"
          /\ \A j \in 1 .. k - 1 : ops[j][1] \notin {"Entry", "EntryParameters"}
          /\ "Unresolved" \notin ToSet(ops[k][2])

\* validate_calls: only known calls, of the right width, and no comment in
\* which the compiler has left an error.
CallsAreValid(ops) ==
    \A op \in Nested(ops) :
        /\ op[1] = "TargetCall" =>
              /\ op[2].name \in DOMAIN Assemblies
              /\ <<op[2].inputs, op[2].outputs>> = Assemblies[op[2].name].abi
        /\ op[1] # "Error"

\* validate_target_calls
Accepted(ops) == EntryIsValid(ops) /\ CallsAreValid(ops)

=============================================================================
