--------------------------- MODULE TritonMachine ---------------------------
(***************************************************************************)
(* The part of Triton VM that lowered stack code uses, external to the     *)
(* repository: an operand stack that never holds fewer words than its      *)
(* native window, RAM that spans the whole field, a jump stack, and one    *)
(* action per instruction.  An instruction is a pair <<name, argument>>.   *)
(*                                                                         *)
(* The machine is parameterised by the sizes the lowerer depends on: the   *)
(* field, the window of dup and swap, the words of one pop or RAM access.  *)
(***************************************************************************)
EXTENDS Integers, Sequences

CONSTANTS Order,    (* the number of field elements, which are addresses   *)
          Window,   (* 16, the words dup and swap reach                    *)
          Chunk     (* 5, the words one pop, read_mem or write_mem moves   *)

ASSUME MachineAssumption ==
    Order \in Nat \ {0} /\ Chunk \in Nat \ {0} /\ Window \in Nat /\ Window > Chunk + 1

Words == 0 .. Order - 1

VARIABLES
  ip,      (* the instruction that is next                                 *)
  stack,   (* the operand stack, its top first                             *)
  ram,     (* every cell, zero until it is written                         *)
  calls,   (* the jump stack: <<return to, called>>, the last call first   *)
  halt     (* "no", "yes", or "crashed" by an instruction that fails       *)

machine == <<ip, stack, ram, calls, halt>>

-----------------------------------------------------------------------------
(* Writing instructions.  The assembler reduces a literal into the field.  *)

Literal(k) == k % Order

Push(k) == <<"push", Literal(k)>>
Pop(n) == <<"pop", n>>
Dup(n) == <<"dup", n>>
Swap(n) == <<"swap", n>>
ReadMem(n) == <<"read_mem", n>>
WriteMem(n) == <<"write_mem", n>>
Call(label) == <<"call", label>>
Add == <<"add", 0>>
Mul == <<"mul", 0>>
Eq == <<"eq", 0>>
Skiz == <<"skiz", 0>>
Return == <<"return", 0>>
Recurse == <<"recurse", 0>>
AssertOne == <<"assert", 0>>
Halt == <<"halt", 0>>

\* Arguments the assembler accepts.
Encodable(i) ==
    /\ i[1] \in {"pop", "read_mem", "write_mem"} => i[2] \in 1 .. Chunk
    /\ i[1] \in {"dup", "swap"} => i[2] \in 0 .. Window - 1

-----------------------------------------------------------------------------
(* Running them.                                                           *)

\* The words an instruction takes off the stack for good.
Taken(i) ==
    CASE i[1] \in {"pop", "write_mem"} -> i[2]
      [] i[1] \in {"add", "mul", "eq", "skiz", "assert"} -> 1
      [] OTHER -> 0

\* The instruction can be executed.
Holds(i) ==
    /\ Encodable(i)
    /\ Len(stack) - Taken(i) >= Window
    /\ i[1] = "assert" => stack[1] = 1

Below(n) == SubSeq(stack, n + 1, Len(stack))

\* The stack becomes s and the machine goes on with the next instruction.
Leave(s) ==
    /\ stack' = s
    /\ ip' = ip + 1
    /\ UNCHANGED <<ram, calls, halt>>

DoPush(i) == i[1] = "push" /\ Leave(<<i[2]>> \o stack)

DoPop(i) == i[1] = "pop" /\ Leave(Below(i[2]))

DoDup(i) == i[1] = "dup" /\ Leave(<<stack[i[2] + 1]>> \o stack)

DoSwap(i) ==
    i[1] = "swap" /\ Leave([stack EXCEPT ![1] = stack[i[2] + 1], ![i[2] + 1] = stack[1]])

DoAdd(i) == i[1] = "add" /\ Leave(<<(stack[1] + stack[2]) % Order>> \o Below(2))

DoMul(i) == i[1] = "mul" /\ Leave(<<(stack[1] * stack[2]) % Order>> \o Below(2))

DoEq(i) ==
    i[1] = "eq" /\ Leave(<<IF stack[1] = stack[2] THEN 1 ELSE 0>> \o Below(2))

DoAssert(i) == i[1] = "assert" /\ Leave(Below(1))

\* read_mem walks down from the pointer and leaves the pointer on top.
DoReadMem(i) ==
    /\ i[1] = "read_mem"
    /\ LET n == i[2]
           cell(k) == ram[(stack[1] - k) % Order]
       IN Leave(<<(stack[1] - n) % Order>> \o [k \in 1 .. n |-> cell(n - k)] \o Below(1))

\* write_mem walks up from the pointer, the top word first.
DoWriteMem(i) ==
    /\ i[1] = "write_mem"
    /\ LET n == i[2]
           at(a) == (a - stack[1]) % Order
       IN /\ ram' = [a \in Words |-> IF at(a) < n THEN stack[at(a) + 2] ELSE ram[a]]
          /\ stack' = <<(stack[1] + n) % Order>> \o Below(n + 1)
    /\ ip' = ip + 1
    /\ UNCHANGED <<calls, halt>>

\* skiz skips the next instruction if the top word is zero.
DoSkiz(i) ==
    /\ i[1] = "skiz"
    /\ stack' = Below(1)
    /\ ip' = IF stack[1] = 0 THEN ip + 2 ELSE ip + 1
    /\ UNCHANGED <<ram, calls, halt>>

\* entry gives the first instruction of each label.
DoCall(i, entry) ==
    /\ i[1] = "call"
    /\ ip' = entry[i[2]]
    /\ calls' = <<<<ip + 1, entry[i[2]]>>>> \o calls
    /\ UNCHANGED <<stack, ram, halt>>

DoReturn(i) ==
    /\ i[1] = "return"
    /\ ip' = calls[1][1]
    /\ calls' = Tail(calls)
    /\ UNCHANGED <<stack, ram, halt>>

DoRecurse(i) ==
    /\ i[1] = "recurse"
    /\ ip' = calls[1][2]
    /\ UNCHANGED <<stack, ram, calls, halt>>

DoHalt(i) ==
    /\ i[1] = "halt"
    /\ halt' = "yes"
    /\ UNCHANGED <<ip, stack, ram, calls>>

Crash ==
    /\ halt' = "crashed"
    /\ UNCHANGED <<ip, stack, ram, calls>>

Execute(i, entry) ==
    IF Holds(i)
    THEN \/ DoPush(i) \/ DoPop(i) \/ DoDup(i) \/ DoSwap(i)
         \/ DoAdd(i) \/ DoMul(i) \/ DoEq(i) \/ DoAssert(i)
         \/ DoReadMem(i) \/ DoWriteMem(i)
         \/ DoSkiz(i) \/ DoCall(i, entry) \/ DoReturn(i) \/ DoRecurse(i) \/ DoHalt(i)
    ELSE Crash

=============================================================================
