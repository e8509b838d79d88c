------------------------------ MODULE Legalize ------------------------------
(***************************************************************************)
(* How the Triton lowerer makes stack operations of any depth out of       *)
(* instructions that reach Window words: rs/lower/legalize.rs and          *)
(* rs/lower/sequence.rs.  Words that are in the way are moved to RAM cells *)
(* that are borrowed while they are zero and zeroed when they are given    *)
(* back; no address is reserved for it.  Everything here is a function     *)
(* from source operations to sequences of instructions.                    *)
(*                                                                         *)
(* An operation is a pair <<name, argument>>.                              *)
(***************************************************************************)
EXTENDS TritonMachine, SequencesExt, FiniteSetsExt

CONSTANTS Preferred,   (* 2^31, where the lowerer looks for zero cells first *)
          Horizon,     (* 1024, the operations one shuffle takes at most     *)
          Widest       (* 4096, the words one shuffle permutes at most       *)

ASSUME PreferredAssumption == Preferred \in Words

\* How n words are taken Chunk at a time.
Chunks(n) ==
    [i \in 1 .. (n + Chunk - 1) \div Chunk |-> IF i * Chunk <= n THEN Chunk ELSE n % Chunk]

Times(n, code) == FlattenSeq([i \in 1 .. n |-> code])

\* code(c) for every chunk of n words.
EachChunk(n, code(_)) == FlattenSeq([i \in DOMAIN Chunks(n) |-> code(Chunks(n)[i])])

\* batch
Batch(opcode, n) == EachChunk(n, LAMBDA c : <<<<opcode, c>>>>)

-----------------------------------------------------------------------------
(* Borrowing.                                                              *)

\* Variant of CountZeros: the words are added up, so that they may cancel out.
SumWords(c) == Times(c, <<Swap(1), Push(-1), Mul, Add, Push(1), Add>>)

\* One zero predicate for each of the c words above the counter.
CountZeros(c) == Times(c, <<Swap(1), Push(0), Eq, Add>>)

\* borrow: the base of that many zero cells is left on the stack.
Borrow(cells) ==
    LET last == Preferred + cells - 1
        check(c) == <<ReadMem(c), Swap(c + 1)>> \o CountZeros(c) \o <<Swap(1)>>
    IN <<Push(cells), Push(last), Push(cells), Push(0), Push(last)>>
       \o EachChunk(cells, check)
       \o <<Pop(1), Push(cells), Eq, Push(0), Eq, Skiz, Call("search"),
            Pop(1), Swap(1), Pop(1), Push(1 - cells), Add>>

\* Variant of Restore: the cells are not zeroed.
RestoreOnly(n) == EachChunk(n, LAMBDA c : <<ReadMem(c)>>)

\* restore: read downwards and zero what has been read.
Restore(n) ==
    EachChunk(n, LAMBDA c : <<ReadMem(c)>> \o Times(c, <<Push(0)>>)
                            \o <<Dup(c), Push(1), Add, WriteMem(c), Pop(1)>>)

\* search: forget the preferred block and scan from address zero.
Search == <<Pop(2), Push(0), Push(0), Call("scan"), Return>>

\* Variants of Scan: the cursor wraps around; it moves on before it returns.
ScanWraps ==
    <<Dup(1), ReadMem(1), Pop(1), Push(0), Eq, Swap(1), Push(1), Add, Mul,
      Dup(0), Dup(3), Eq, Skiz, Return,
      Swap(1), Push(1), Add, Swap(1), Recurse>>
ScanShort ==
    <<Dup(1), ReadMem(1), Pop(1), Push(0), Eq, Swap(1), Push(1), Add, Mul,
      Swap(1), Push(1), Add, Dup(0), Push(0), Eq, Push(0), Eq, AssertOne, Swap(1),
      Dup(0), Dup(3), Eq, Skiz, Return, Recurse>>

\* scan: the run of zero cells that ends at the cursor grows or begins again.
\* It returns before it moves on, and fails when the cursor is back at zero.
Scan ==
    <<Dup(1), ReadMem(1), Pop(1), Push(0), Eq, Swap(1), Push(1), Add, Mul,
      Dup(0), Dup(3), Eq, Skiz, Return,
      Swap(1), Push(1), Add, Dup(0), Push(0), Eq, Push(0), Eq, AssertOne,
      Swap(1), Recurse>>

-----------------------------------------------------------------------------
(* One access.                                                             *)

\* The words moved out of the way to reach this depth, and the cells for them.
Spilled(depth, duplicate) == depth - (IF duplicate THEN Window - 2 ELSE Window - 3)
Cells(depth, duplicate) == Spilled(depth, duplicate) + (IF duplicate THEN 1 ELSE 0)

DeepDup(spilled, cells) ==
    <<Dup(Window - 1), Swap(1), WriteMem(1), Push(-2), Add>>
    \o Restore(spilled) \o <<Push(cells), Add>> \o Restore(1)

DeepSwap(spilled) ==
    <<Dup(0), Push(-spilled), Add, ReadMem(1), Pop(1), Swap(Window - 1),
      Dup(1), Push(-spilled), Add, WriteMem(1), Pop(1), Push(-1), Add>>
    \o Restore(spilled)

\* access
Access(depth, duplicate) ==
    LET spilled == Spilled(depth, duplicate)
        cells == Cells(depth, duplicate)
    IN CASE depth < Window /\ duplicate -> <<Dup(depth)>>
         [] depth < Window /\ ~duplicate -> IF depth > 0 THEN <<Swap(depth)>> ELSE <<>>
         [] OTHER -> Borrow(cells) \o Batch("write_mem", spilled)
                     \o (IF duplicate THEN DeepDup(spilled, cells) ELSE DeepSwap(spilled))
                     \o <<Pop(1)>>

-----------------------------------------------------------------------------
(* Permuting a window.                                                     *)

\* Exchanging the top word with the one at index, in bottom-first order.
Exchange(s, index) ==
    LET top == Len(s.current) IN
    IF index = top THEN s
    ELSE [current |-> [s.current EXCEPT ![top] = s.current[index],
                                        ![index] = s.current[top]],
          code |-> Append(s.code, Swap(top - index))]

\* permute: each word in turn is brought to its place through the top.
Permute(order) ==
    LET place(s, position) ==
            LET found == CHOOSE k \in DOMAIN order : s.current[k] = order[position]
            IN IF found = position THEN s
               ELSE FoldLeft(Exchange, s, <<found, position, found>>)
        positions == [k \in DOMAIN order |-> k]
    IN FoldLeft(place, [current |-> positions, code |-> <<>>], positions).code

\* reverse
Reversed(width) == Permute([k \in 1 .. width |-> width + 1 - k])

-----------------------------------------------------------------------------
(* Shuffle: several operations in one borrowed block.                      *)

Pure(op) == op[1] \in {"Dup", "Swap", "Pop"}

Need(op) == IF op[1] = "Pop" THEN op[2] ELSE op[2] + 1

Change(op) == CASE op[1] = "Dup" -> 1 [] op[1] = "Swap" -> 0 [] op[1] = "Pop" -> -op[2]

CellCost(n) == 16 + 5 * n + 7 * Len(Chunks(n))

\* What an operation costs on its own, at least.
Cost(op) ==
    CASE op[1] = "Pop" -> Len(Chunks(op[2]))
      [] op[1] = "Dup" /\ op[2] < Window -> 1
      [] op[1] = "Swap" /\ op[2] < Window -> IF op[2] = 0 THEN 0 ELSE 1
      [] OTHER -> CellCost(op[2] - (Window - 3))

SumOf(ops, f(_)) == FoldLeft(LAMBDA sum, op : sum + f(op), 0, ops)

\* The pure operations ops begins with.
Run(ops) ==
    LET n == CHOOSE k \in 0 .. Len(ops) :
                 /\ k <= Horizon /\ \A j \in 1 .. k : Pure(ops[j])
                 /\ k = Horizon \/ k = Len(ops) \/ ~Pure(ops[k + 1])
    IN SubSeq(ops, 1, n)

\* The words of the stack the first k operations reach, and what they leave.
Required(run, k) ==
    Max({0} \cup {Need(run[j]) - SumOf(SubSeq(run, 1, j - 1), Change) : j \in 1 .. k})
Left(run, k) == Required(run, k) + SumOf(SubSeq(run, 1, k), Change)

\* One operation on a stack of input indices, bottom first.
Reorder(order, op) ==
    LET top == Len(order) IN
    CASE op[1] = "Dup" -> Append(order, order[top - op[2]])
      [] op[1] = "Swap" -> [order EXCEPT ![top] = order[top - op[2]],
                                         ![top - op[2]] = order[top]]
      [] op[1] = "Pop" -> SubSeq(order, 1, top - op[2])

\* The words at the bottom that stay where they are and are not needed again.
Prefix(order) ==
    Max({k \in 0 .. Len(order) : \A j \in 1 .. k :
            order[j] = j /\ \A i \in DOMAIN order : order[i] = j => i = j})

\* Shuffle::emit: spill the frame, load its words in their new order with the
\* base of the block on top, and only then zero the block.
EmitShuffle(width, order) ==
    LET load(index) ==
            LET offset == width - index IN
            <<Dup(0)>> \o (IF offset = 0 THEN <<>> ELSE <<Push(offset), Add>>)
            \o <<ReadMem(1), Pop(1), Swap(1)>>
    IN Borrow(width) \o Batch("write_mem", width) \o <<Push(-width), Add>>
       \o FlattenSeq([k \in DOMAIN order |-> load(order[k])])
       \o EachChunk(width, LAMBDA c : Times(c, <<Push(0)>>) \o <<Swap(c), WriteMem(c)>>)
       \o <<Pop(1)>>

\* Where the words of the stack come from after the run, bottom first.
Final(run) == FoldLeft(Reorder, [k \in 1 .. Required(run, Len(run)) |-> k], run)

\* A shuffle of a run that leaves this order, below which prefix words stay.
Shuffle(run, order, prefix) ==
    LET width == Required(run, Len(run)) - prefix
    IN [ops |-> Len(run), cells |-> width,
        code |-> EmitShuffle(width, [k \in 1 .. Len(order) - prefix |->
                                        order[k + prefix] - prefix])]

\* It is within the limits and shorter than the operations are one by one.
Worth(run, shuffle) ==
    /\ \A k \in DOMAIN run : Required(run, k) <= Widest /\ Left(run, k) <= Widest
    /\ Len(run) >= 2
    /\ \E k \in DOMAIN run : run[k][1] # "Pop" /\ run[k][2] >= Window
    /\ Final(run) # <<>> /\ shuffle.cells # 0
    /\ Len(shuffle.code) < SumOf(run, Cost)

PlanOf(run, order) ==
    {b \in {Shuffle(run, order, Prefix(order))} : Worth(run, b)}

\* Shuffle::plan: {} or the one shuffle that stands for the operations ops
\* begins with.
Plan(ops) == LET run == Run(ops) IN PlanOf(run, Final(run))

-----------------------------------------------------------------------------
(* One operation on the stack or on RAM, by itself.                        *)

\* A block address names its first cell; its words lie bottom first.
RamRead(n) ==
    (IF n > 1 THEN <<Push(n - 1), Add>> ELSE <<>>)
    \o Batch("read_mem", n) \o <<Pop(1)>> \o Reversed(n)

RamWrite(n) == Reversed(n + 1) \o Batch("write_mem", n) \o <<Pop(1)>>

\* lower_op
LowerOp(op) ==
    CASE op[1] = "Push" -> <<Push(op[2])>>
      [] op[1] = "Pop" -> Batch("pop", op[2])
      [] op[1] = "Dup" -> Access(op[2], TRUE)
      [] op[1] = "Swap" -> Access(op[2], FALSE)
      [] op[1] = "Add" -> <<Add>>
      [] op[1] = "Sub" -> <<Push(-1), Mul, Add>>
      [] op[1] = "RamRead" -> RamRead(op[2])
      [] op[1] = "RamWrite" -> RamWrite(op[2])

=============================================================================
