--------------------------- MODULE StackLowering ---------------------------
(***************************************************************************)
(* The code that TritonLowering of rs/lower/triton.rs emits for a straight *)
(* run of stack and memory operations, executed on Triton VM from any      *)
(* contents of RAM.  The operations themselves, which the compiler defines *)
(* outside the repository, are executed beside it on a stack and a RAM of  *)
(* their own; the two are compared wherever the code of one or more        *)
(* operations is complete.                                                 *)
(***************************************************************************)
EXTENDS Legalize

CONSTANTS Programs,   (* the operations that are lowered                   *)
          Stacks,     (* the operand stacks they begin with                *)
          Rams        (* the contents of RAM they begin with               *)

ASSUME StacksAssumption ==
    Stacks \subseteq Seq(Words) /\ \A s \in Stacks : Len(s) >= Window
ASSUME RamsAssumption == Rams \subseteq [Words -> Words]

VARIABLES
  prog,      (* the program that is executed                               *)
  done,      (* how many of its operations are complete                    *)
  source     (* the stack and RAM after these                              *)

vars == <<ip, stack, ram, calls, halt, prog, done, source>>

-----------------------------------------------------------------------------
(* Lowering.                                                               *)

Single(op) ==
    [ops |-> 1,
     cells |-> IF op[1] \in {"Dup", "Swap"} /\ op[2] >= Window
               THEN Cells(op[2], op[1] = "Dup") ELSE 0,
     code |-> LowerOp(op)]

\* A shuffle where there is one, else one operation.
FirstBlock(ops) ==
    LET plan == Plan(ops) IN
    IF plan = {} THEN Single(Head(ops)) ELSE CHOOSE b \in plan : TRUE

\* lower_ops
LowerOps(ops) ==
    LET block == [i \in DOMAIN ops |-> FirstBlock(SubSeq(ops, i, Len(ops)))]
        from[i \in 1 .. Len(ops) + 1] ==
            IF i > Len(ops) THEN <<>> ELSE <<block[i]>> \o from[i + block[i].ops]
    IN from[1]

\* The blocks, a halt, and the search if a block needs it.  at is where each
\* block begins and what is complete there.
Assemble(blocks) ==
    LET main == FlattenSeq([b \in DOMAIN blocks |-> blocks[b].code])
        before(b) == SubSeq(blocks, 1, b - 1)
        begin(b) == 1 + SumOf(before(b), LAMBDA x : Len(x.code))
        deep == \E b \in DOMAIN blocks : blocks[b].cells > 0
    IN [code |-> main \o <<Halt>> \o (IF deep THEN Search \o Scan ELSE <<>>),
        entry |-> [search |-> Len(main) + 2, scan |-> Len(main) + 2 + Len(Search)],
        at |-> [i \in {begin(b) : b \in 1 .. Len(blocks) + 1} |->
                  LET b == Max({c \in 1 .. Len(blocks) + 1 : begin(c) = i})
                  IN [ops |-> SumOf(before(b), LAMBDA x : x.ops),
                      cells |-> IF b > Len(blocks) THEN 0 ELSE blocks[b].cells]]]

\* lower
Lower(ops) == Assemble(LowerOps(ops))

\* Every program is lowered once, before it is executed.
Lowered == [p \in Programs |-> Lower(p)]

-----------------------------------------------------------------------------
(* What the operations mean.                                               *)

Rest(s, n) == SubSeq(s, n + 1, Len(s))

\* s.stack has its top first.
Meaning(s, op) ==
    LET st == s.stack
        n == op[2]
        on(words) == [s EXCEPT !.stack = words]
    IN CASE op[1] = "Push" -> on(<<n % Order>> \o st)
         [] op[1] = "Pop" -> on(Rest(st, n))
         [] op[1] = "Dup" -> on(<<st[n + 1]>> \o st)
         [] op[1] = "Swap" -> on([st EXCEPT ![1] = st[n + 1], ![n + 1] = st[1]])
         [] op[1] = "Add" -> on(<<(st[1] + st[2]) % Order>> \o Rest(st, 2))
         [] op[1] = "Sub" -> on(<<(st[2] - st[1]) % Order>> \o Rest(st, 2))
         [] op[1] = "RamRead" ->
              on([k \in 1 .. n |-> s.ram[(st[1] + n - k) % Order]] \o Rest(st, 1))
         [] op[1] = "RamWrite" ->
              [stack |-> Rest(st, n + 1),
               ram |-> [a \in Words |->
                          LET k == (a - st[n + 1]) % Order
                          IN IF k < n THEN st[n - k] ELSE s.ram[a]]]

-----------------------------------------------------------------------------

Init ==
    /\ prog \in Programs
    /\ stack \in Stacks
    /\ ram \in Rams
    /\ ip = 1 /\ calls = <<>> /\ halt = "no"
    /\ done = 0
    /\ source = [stack |-> stack, ram |-> ram]

\* The operations whose code has just been completed are executed as well.
Follow ==
    /\ UNCHANGED prog
    /\ IF ip' # ip /\ ip' \in DOMAIN Lowered[prog].at
       THEN /\ done' = Lowered[prog].at[ip'].ops
            /\ source' = FoldLeft(Meaning, source, SubSeq(prog, done + 1, done'))
       ELSE UNCHANGED <<done, source>>

Step ==
    /\ halt = "no"
    /\ Execute(Lowered[prog].code[ip], Lowered[prog].entry)
    /\ Follow

Halted == halt # "no" /\ UNCHANGED vars

Next == Step \/ Halted

\* The machine executes until it halts or fails.
Spec == Init /\ [][Next]_vars /\ WF_vars(Step)

-----------------------------------------------------------------------------
(* Properties.                                                             *)

\* The block whose code is executed.
Block == Lowered[prog].at[CHOOSE i \in DOMAIN Lowered[prog].at :
                             Lowered[prog].at[i].ops = done]

\* Where the code of an operation is complete, the stack and all of RAM are
\* what the operations up to there make of them: words in the right order,
\* borrowed cells zero again, whatever RAM held and whichever cells were
\* borrowed (architecture.md: "contents are restored before the next source
\* operation").
LoweringIsExact ==
    ip \in DOMAIN Lowered[prog].at => stack = source.stack /\ ram = source.ram

\* At no moment is a cell in use overwritten to keep a word of the stack
\* (architecture.md: "Occupied cells are never overwritten, including at the
\* preferred address").
OccupiedCellsSurvive ==
    Block.cells > 0 =>
        \A a \in Words : source.ram[a] # 0 => ram[a] = source.ram[a]

\* A lowered program fails only if it needs cells and RAM has no run of that
\* many zero cells, up to the very last address and not around it: never
\* for lack of stack, and never on an argument Triton does not have.
FailsOnlyWhenFull ==
    halt = "crashed" =>
        /\ Block.cells > 0
        /\ \A a \in 0 .. Order - Block.cells :
              \E k \in 0 .. Block.cells - 1 : source.ram[a + k] # 0

\* A program without loops ends, also if it finds no cells to borrow.
Ends == <>(halt # "no")

=============================================================================
