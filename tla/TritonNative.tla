---------------------------- MODULE TritonNative ----------------------------
(***************************************************************************)
(* The other instructions of Triton VM that lowered programs use, external *)
(* to the repository: streams, arithmetic on words, the sponge, Merkle and *)
(* dot product steps.  What the lowerer must get right about them is which *)
(* word they take from where, so cryptographic ones are a mixture of their *)
(* operands that tells any two orders apart.                               *)
(***************************************************************************)
EXTENDS TritonMachine, SequencesExt

CONSTANT Limb    (* 2^32, by which split divides *)

ASSUME LimbAssumption == Limb \in 2 .. Order

VARIABLES
  input,    (* the public words not read yet                               *)
  secret,   (* the divined words not read yet                              *)
  output,   (* the words written                                           *)
  sponge    (* the state of the sponge, a word                             *)

streams == <<input, secret, output, sponge>>

-----------------------------------------------------------------------------
(* Functions of words.                                                     *)

Mix(seed, words) == FoldLeft(LAMBDA sum, w : (7 * sum + w + 3) % Order, seed, words)

\* n words made of some words, in native order: the first is on top.
Mixed(seed, words, n) == [k \in 1 .. n |-> Mix(seed + k, words)]

Power(base, exponent) ==
    LET power[n \in 0 .. exponent] ==
            IF n = 0 THEN 1 ELSE (base * power[n - 1]) % Order
    IN power[exponent]

\* name: the words it takes and gives, and what tells it from the others.
Opaque == [and |-> <<2, 1, 1>>, xor |-> <<2, 1, 2>>, invert |-> <<1, 1, 3>>,
           log_2_floor |-> <<1, 1, 4>>, pop_count |-> <<1, 1, 5>>,
           xb_mul |-> <<4, 3, 6>>, x_invert |-> <<3, 3, 7>>, hash |-> <<10, 5, 8>>]

\* What the library HashVarlen makes of that many words of RAM.
Commitment(words) == Mixed(10, words, 5)

\* A proof is its length and one word that depends on all of the claim.
ProofOf(claim) == <<1, Mix(11, claim)>>

Exact == [lt |-> 2, div_mod |-> 2, pow |-> 2, split |-> 1]

\* The words that name makes of w, which it takes from the top.
Result(name, w) ==
    CASE name \in DOMAIN Opaque -> Mixed(Opaque[name][3], w, Opaque[name][2])
      [] name = "lt" -> <<IF w[1] < w[2] THEN 1 ELSE 0>>
      [] name = "div_mod" -> <<w[1] % w[2], w[1] \div w[2]>>
      [] name = "pow" -> <<Power(w[1], w[2])>>
      [] name = "split" -> <<w[1] % Limb, w[1] \div Limb>>

\* The parent of a node, at either side of its sibling.
Parent(index, node, sibling) ==
    Result("hash", IF index % 2 = 0 THEN node \o sibling ELSE sibling \o node)

CellsAt(memory, address, n) == [k \in 1 .. n |-> memory[(address + k - 1) % Order]]

\* An accumulator after the product of two elements, the first of span words.
Dotted(memory, acc, a, b, span) ==
    LET product == Mixed(9, CellsAt(memory, a, span) \o CellsAt(memory, b, 3), 3)
    IN [k \in 1 .. 3 |-> (acc[k] + product[k]) % Order]

-----------------------------------------------------------------------------
(* Instructions.                                                           *)

Native(name) == <<name, 0>>
ReadIo(n) == <<"read_io", n>>
WriteIo(n) == <<"write_io", n>>

Operands(n) == SubSeq(stack, 1, n)

Verifies(i) ==
    CellsAt(ram, stack[1], 2) = ProofOf(CellsAt(ram, stack[2], ram[i[2]]))

\* The instruction takes no word that it must leave, and no word that is not there.
Possible(i) ==
    LET name == i[1]
        kept(n) == Len(stack) - n >= Window
    IN CASE name \in DOMAIN Opaque -> kept(Opaque[name][1] - Opaque[name][2])
         [] name \in {"lt", "pow"} -> kept(1)
         [] name = "div_mod" -> stack[2] # 0
         [] name = "read_io" -> Len(input) >= i[2]
         [] name = "divine" -> Len(secret) >= i[2]
         [] name = "merkle_step" -> Len(secret) >= 5
         [] name = "write_io" -> kept(i[2])
         [] name = "sponge_absorb" -> kept(10)
         [] name = "assert_vector" -> kept(5) /\ Operands(5) = SubSeq(stack, 6, 10)
         [] name = "stark_verify" -> kept(2) /\ Verifies(i)
         [] OTHER -> TRUE

\* The stack becomes s; input and so on become what is given for them.
Becomes(s, in, sec, out, sp) ==
    /\ stack' = s /\ input' = in /\ secret' = sec /\ output' = out /\ sponge' = sp
    /\ ip' = ip + 1
    /\ UNCHANGED <<ram, calls, halt>>

DoFunction(i) ==
    /\ i[1] \in DOMAIN Opaque \cup DOMAIN Exact
    /\ LET n == IF i[1] \in DOMAIN Opaque THEN Opaque[i[1]][1] ELSE Exact[i[1]]
       IN Becomes(Result(i[1], Operands(n)) \o Below(n), input, secret, output, sponge)

\* The word that is read last is on top; the top word is written first.
DoStream(i) ==
    LET n == i[2] IN
    \/ /\ i[1] = "read_io"
       /\ Becomes(Reverse(SubSeq(input, 1, n)) \o stack,
                  SubSeq(input, n + 1, Len(input)), secret, output, sponge)
    \/ /\ i[1] = "divine"
       /\ Becomes(Reverse(SubSeq(secret, 1, n)) \o stack,
                  input, SubSeq(secret, n + 1, Len(secret)), output, sponge)
    \/ /\ i[1] = "write_io"
       /\ Becomes(Below(n), input, secret, output \o Operands(n), sponge)

\* sponge_absorb_mem leaves four of the words it absorbs below its pointer.
DoSponge(i) ==
    LET read == CellsAt(ram, stack[1], 10) IN
    \/ i[1] = "sponge_init" /\ Becomes(stack, input, secret, output, 0)
    \/ /\ i[1] = "sponge_absorb"
       /\ Becomes(Below(10), input, secret, output, Mix(sponge, Operands(10)))
    \/ /\ i[1] = "sponge_absorb_mem"
       /\ Becomes(<<(stack[1] + 10) % Order>> \o SubSeq(read, 1, 4) \o Below(5),
                  input, secret, output, Mix(sponge, read))
    \/ /\ i[1] = "sponge_squeeze"
       /\ Becomes(Mixed(sponge, <<1>>, 10) \o stack, input, secret, output,
                  Mix(sponge, <<2>>))

\* The index lies below the node; in the form for RAM a free word and the
\* pointer lie below the index.
DoMerkle(i) ==
    LET index == stack[6] IN
    \/ /\ i[1] = "merkle_step"
       /\ Becomes(Parent(index, Operands(5), SubSeq(secret, 1, 5))
                    \o <<index \div 2>> \o Below(6),
                  input, SubSeq(secret, 6, Len(secret)), output, sponge)
    \/ /\ i[1] = "merkle_step_mem"
       /\ Becomes(Parent(index, Operands(5), CellsAt(ram, stack[8], 5))
                    \o <<index \div 2, stack[7], (stack[8] + 5) % Order>> \o Below(8),
                  input, secret, output, sponge)

\* Two pointers on top of the accumulator, whose first coefficient is on top.
DoDotStep(i) ==
    /\ i[1] \in {"xx_dot_step", "xb_dot_step"}
    /\ LET span == IF i[1] = "xx_dot_step" THEN 3 ELSE 1
       IN Becomes(<<(stack[1] + span) % Order, (stack[2] + 3) % Order>>
                    \o Dotted(ram, SubSeq(stack, 3, 5), stack[1], stack[2], span)
                    \o Below(5),
                  input, secret, output, sponge)

DoAssertVector(i) ==
    i[1] = "assert_vector" /\ Becomes(Below(5), input, secret, output, sponge)

\* The library's routines, each as one instruction.  The verifier has the
\* claim's address below the proof's; the argument is where the claim's
\* length is kept.
DoLibrary(i) ==
    \/ /\ i[1] = "hash_varlen"
       /\ Becomes(Commitment(CellsAt(ram, stack[2], stack[1])) \o Below(2),
                  input, secret, output, sponge)
    \/ i[1] = "stark_verify" /\ Becomes(Below(2), input, secret, output, sponge)

ExecuteNative(i) ==
    \/ DoFunction(i) \/ DoStream(i) \/ DoSponge(i)
    \/ DoMerkle(i) \/ DoDotStep(i) \/ DoAssertVector(i) \/ DoLibrary(i)

Instructions == DOMAIN Opaque \cup DOMAIN Exact \cup
    {"read_io", "divine", "write_io", "sponge_init", "sponge_absorb",
     "sponge_absorb_mem", "sponge_squeeze", "merkle_step", "merkle_step_mem",
     "xx_dot_step", "xb_dot_step", "assert_vector", "hash_varlen", "stark_verify"}

\* One instruction of either kind.
ExecuteAny(i, entry) ==
    IF i[1] \notin Instructions THEN Execute(i, entry) /\ UNCHANGED streams
    ELSE IF Possible(i) THEN ExecuteNative(i)
    ELSE Crash /\ UNCHANGED streams

=============================================================================
