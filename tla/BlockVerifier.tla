---------------------------- MODULE BlockVerifier ----------------------------
(***************************************************************************)
(* rs/cost/stack_verifier and rs/cost/scorer.rs: blocks of assembly without *)
(* branches are executed on test stacks, compared, scored and priced.      *)
(*                                                                         *)
(* A line is <<op, n>>, n = 0 where it has no argument.  A stack has its   *)
(* top first.  Words have 2 * Half bits and the field 2^(2h) - 2^h + 1     *)
(* elements, which at Half = 32 is Goldilocks.                             *)
(***************************************************************************)
EXTENDS Integers, Sequences, SequencesExt, FiniteSetsExt

CONSTANTS Half,       (* half the bits of a word *)
          Seeds,      (* the seeds blocks are verified with *)
          MaxLog,     (* of the height of a table, 63 *)
          BitAnd(_, _),  (* of two words, bit by bit *)
          BitXor(_, _)

ASSUME BlockVerifierAssumption == Half \in Nat \ {0, 1} /\ Seeds \subseteq Nat /\ MaxLog \in Nat

Bits == 2 * Half
Limb == 2 ^ Half
Span == 2 ^ Bits
Modulus == Span - Limb + 1

\* Only the number of a push may be negative.
IsLine(i) == i[2] \in IF i[1] = "push" THEN Int ELSE Nat

\* Empty lines, comments and labels.
Silent == {"", "//", "label"}

-----------------------------------------------------------------------------
(* StackState.                                                             *)

Fresh(stack) ==
    [stack |-> stack, error |-> FALSE, halted |-> FALSE, io_output |-> <<>>,
     divine_log |-> <<>>, assert_log |-> <<>>, assert_vector_log |-> <<>>]

Unary == {"invert", "split", "log_2_floor", "pop_count", "assert", "sponge_absorb_mem"}
Binary == {"add", "mul", "eq", "lt", "and", "xor", "div_mod", "pow"}

\* The words that the stack must hold for the instruction to be simulated.
Reach(i) ==
    CASE i[1] \in {"dup", "swap", "pick", "place", "write_mem"} -> i[2] + 1
      [] i[1] \in {"pop", "write_io"} -> i[2]
      [] i[1] \in Unary \cup {"read_mem"} -> 1
      [] i[1] \in Binary -> 2
      [] i[1] \in {"assert_vector", "hash", "sponge_absorb"} -> 10
      [] OTHER -> 0

\* Further reasons to stop with an error.  Control flow cannot be simulated.
Unsimulable(i, stack) ==
    \/ i[1] \in {"call", "skiz", "recurse_or_return"}
    \/ i = <<"swap", 0>>
    \/ i[1] \in {"div_mod", "log_2_floor"} /\ stack[1] = 0
    \/ i[1] = "assert" /\ stack[1] # 1
    \/ i[1] = "assert_vector" /\ SubSeq(stack, 1, 5) # SubSeq(stack, 6, 10)

Ones(x) == Cardinality({k \in 0 .. Bits - 1 : (x \div 2 ^ k) % 2 = 1})
TopBit(x) == Max({k \in 0 .. Bits - 1 : x >= 2 ^ k})

\* Half of the exponent at a time.
Raised(base, exponent) ==
    LET times(x, y) == (x * y) % Modulus
        power[n \in 0 .. exponent] ==
            IF n = 0 THEN 1
            ELSE LET half == power[n \div 2] IN
                 times(IF n % 2 = 1 THEN base ELSE 1, times(half, half))
    IN power[exponent]

\* What an instruction makes of its operands, b on top of a, top first.
\* invert is a negation, and the words are compared and divided as integers.
Computed(op, a, b) ==
    CASE op = "add" -> <<(a + b) % Modulus>>
      [] op = "mul" -> <<((a % Modulus) * (b % Modulus)) % Modulus>>
      [] op = "invert" -> <<(-b) % Modulus>>
      [] op = "eq" -> <<IF a = b THEN 1 ELSE 0>>
      [] op = "lt" -> <<IF a < b THEN 1 ELSE 0>>
      [] op = "and" -> <<BitAnd(a, b)>>
      [] op = "xor" -> <<BitXor(a, b)>>
      [] op = "split" -> <<b % Limb, b \div Limb>>
      [] op = "div_mod" -> <<a % b, a \div b>>
      [] op = "pow" -> <<Raised(a, b)>>
      [] op = "log_2_floor" -> <<TopBit(b)>>
      [] op = "pop_count" -> <<Ones(b)>>
      [] op = "sponge_absorb_mem" -> <<0>>

Zeros(n) == [k \in 1 .. n |-> 0]

\* The stack after an instruction that can be simulated.  What comes from
\* outside the block is zero; several instructions have no effect.
Restacked(i, stack) ==
    LET n == i[2]
        under(k) == SubSeq(stack, k + 1, Len(stack))
    IN CASE i[1] = "push" -> <<n % Modulus>> \o stack
         [] i[1] \in {"pop", "write_io"} -> under(n)
         [] i[1] = "dup" -> <<stack[n + 1]>> \o stack
         [] i[1] = "swap" -> [stack EXCEPT ![1] = stack[n + 1], ![n + 1] = stack[1]]
         [] i[1] = "pick" -> <<stack[n + 1]>> \o SubSeq(stack, 1, n) \o under(n + 1)
         [] i[1] = "place" -> SubSeq(stack, 2, n + 1) \o <<stack[1]>> \o under(n + 1)
         [] i[1] \in Binary -> Computed(i[1], stack[2], stack[1]) \o under(2)
         [] i[1] = "assert" -> under(1)
         [] i[1] \in Unary \ {"assert"} -> Computed(i[1], 0, stack[1]) \o under(1)
         [] i[1] = "assert_vector" -> under(5)
         [] i[1] \in {"read_io", "divine"} -> Zeros(n) \o stack
         [] i[1] = "read_mem" -> Zeros(n + 1) \o under(1)
         [] i[1] = "write_mem" -> <<0>> \o under(n + 1)
         [] i[1] = "hash" -> Zeros(5) \o under(10)
         [] i[1] = "sponge_absorb" -> under(10)
         [] i[1] = "sponge_squeeze" -> Zeros(10) \o stack
         [] OTHER -> stack

Logged(s, i) ==
    CASE i[1] = "write_io" -> [s EXCEPT !.io_output = @ \o SubSeq(s.stack, 1, i[2])]
      [] i[1] = "divine" -> [s EXCEPT !.divine_log = Append(@, i[2])]
      [] i[1] = "assert" -> [s EXCEPT !.assert_log = Append(@, s.stack[1])]
      [] i[1] = "assert_vector" ->
           [s EXCEPT !.assert_vector_log = Append(@, SubSeq(s.stack, 1, 5))]
      [] i[1] = "halt" -> [s EXCEPT !.halted = TRUE]
      [] OTHER -> s

ExecuteLine(s, i) ==
    IF s.error \/ s.halted \/ i[1] \in Silent THEN s
    ELSE IF Len(s.stack) < Reach(i) \/ Unsimulable(i, s.stack)
    THEN [s EXCEPT !.error = TRUE]
    ELSE [Logged(s, i) EXCEPT !.stack = Restacked(i, @)]

Simulate(stack, lines) ==
    LET after[k \in 0 .. Len(lines)] ==
            IF k = 0 THEN Fresh(stack) ELSE ExecuteLine(after[k - 1], lines[k])
    IN after[Len(lines)]

-----------------------------------------------------------------------------
(* Test stacks.                                                            *)

\* The generator's literals, as far as words of the model hold them.
Multiplier == 32557 % Span
Increment == 33103 % Span

GenerateTestStack(seed, size) ==
    LET state[k \in 0 .. size] ==
            IF k = 0 THEN (seed * Multiplier + Increment) % Span
            ELSE (state[k - 1] * Multiplier + 1) % Span
    IN [k \in 1 .. size |-> state[size + 1 - k] % Modulus]

RandomStack(seed, i) == GenerateTestStack((seed * Multiplier + i) % Span, 16)

RandomStacks(seed) == [k \in 1 .. 32 |-> RandomStack(seed, k - 1)]

Everywhere(x) == [k \in 1 .. 16 |-> x % Modulus]

\* The powers and the two halves of words are those of 64 bits, scaled.
PowersOfTwo == [k \in 0 .. 11 |-> 2 ^ (k % Bits)]
Halves == <<<<1, 1>>, <<2, Limb - 1>>, <<Limb \div 2 - 1, 0>>, <<0, Limb - 1>>, <<1, 0>>,
            <<0, 1>>, <<Limb - 3, 5>>, <<0, Limb \div 2>>, <<1, Limb \div 2>>,
            <<Limb \div 2 - 1, Limb \div 2 - 1>>, <<2, 2>>, <<4, 8>>>>

\* Written from the bottom, as in the code.
StructuredStacks ==
    [k \in 1 .. 9 |-> Reverse(
      CASE k = 1 -> Everywhere(0)
        [] k = 2 -> Everywhere(1)
        [] k = 3 -> <<5, 5, 3, 3, 7, 7, 2, 2, 9, 9, 1, 1, 4, 4, 8, 8>>
        [] k = 4 -> Everywhere(42)
        [] k = 5 -> [i \in 1 .. 16 |-> i - 1]
        [] k = 6 -> [i \in 1 .. 16 |-> 16 - i]
        [] k = 7 -> [i \in 1 .. 16 |-> <<1, 0, Modulus - 1, 0>>[(i % 4) + 1]]
        [] k = 8 -> [i \in 1 .. 12 |-> PowersOfTwo[i - 1]]
                    \o <<Limb, 2 * Limb, Limb * 2 ^ (Half \div 2), 2 ^ (Bits - 1)>>
        [] k = 9 -> [i \in 1 .. 12 |-> Halves[i][1] * Limb + Halves[i][2]]
                    \o <<0, 1, Modulus - 1, Modulus - 2>>)]

\* Variant of TestStacks: only random ones.
OnlyRandom == [seed \in Seeds |-> RandomStacks(seed)]

TestStacks == [seed \in Seeds |-> RandomStacks(seed) \o StructuredStacks]

-----------------------------------------------------------------------------
(* Comparing blocks.                                                       *)

\* ALLOWED.  invert is left out because it is simulated as a negation.
Allowed == {"push", "pop", "dup", "swap", "pick", "place", "add", "mul", "eq", "lt", "and",
            "xor", "split", "div_mod", "pow", "log_2_floor", "pop_count", "nop", "halt",
            "write_io", "read_io", "divine", "assert", "assert_vector", "read_mem",
            "write_mem", "hash", "sponge_init", "sponge_absorb", "sponge_squeeze",
            "sponge_absorb_mem", "merkle_step", "merkle_step_mem", "xb_mul", "x_invert",
            "xx_dot_step", "xb_dot_step", "return", "recurse"}

Agree(baseline, candidate, stack) ==
    LET b == Simulate(stack, baseline) IN
    /\ ~b.error
    /\ Simulate(stack, candidate) = b

VerifyEquivalent(baseline, candidate, seed) ==
    /\ \A k \in DOMAIN candidate : candidate[k][1] \in Allowed \cup Silent
    /\ \A k \in DOMAIN TestStacks[seed] : Agree(baseline, candidate, TestStacks[seed][k])

\* The stack on which blocks are scored and failures are explained.
FirstStack == [seed \in Seeds |-> RandomStack(seed, 0)]

Logs == <<"halted", "io_output", "divine_log", "assert_log", "assert_vector_log">>

\* The first difference.
DiagnoseFailure(baseline, candidate, seed) ==
    LET b == Simulate(FirstStack[seed], baseline)
        c == Simulate(FirstStack[seed], candidate)
        differing == SelectInSeq(Logs, LAMBDA log : b[log] # c[log])
    IN IF b.error THEN "baseline"
       ELSE IF c.error THEN "candidate"
       ELSE IF Len(b.stack) # Len(c.stack) THEN "depth"
       ELSE IF b.stack # c.stack THEN "stack"
       ELSE IF differing # 0 THEN Logs[differing]
       ELSE "passes"

\* Variant of ScoreCandidate: a candidate that halts is taken for one that
\* crashes.
ScoreHaltAsCrash(baseline, candidate, seed) ==
    LET b == Simulate(FirstStack[seed], baseline)
        c == Simulate(FirstStack[seed], candidate)
    IN IF c.error \/ c.halted THEN 0 ELSE IF b = c THEN 900 ELSE 100

\* Shares of the cells are compared as they are in floating point.
ScoreCandidate(baseline, candidate, seed) ==
    LET b == Simulate(FirstStack[seed], baseline)
        c == Simulate(FirstStack[seed], candidate)
        matches == Cardinality({k \in DOMAIN b.stack : b.stack[k] = c.stack[k]})
        total == Max({Len(b.stack), 1})
    IN IF b.error \/ c.error THEN 0
       ELSE IF Len(b.stack) # Len(c.stack) THEN 100
       ELSE IF matches = total THEN IF b = c THEN 900 ELSE 800
       ELSE IF 10 * matches >= 9 * total THEN 600
       ELSE IF 2 * matches >= total THEN 400
       ELSE 200

-----------------------------------------------------------------------------
(* The price of a block.                                                   *)

Tables == {"processor", "hash", "u32", "op_stack", "ram", "jump_stack"}

\* The tables an instruction adds rows to; one processor row is common to all.
OnOpStack == {"push", "pop", "dup", "swap", "pick", "place", "add", "mul", "eq", "split",
              "invert", "lt", "and", "xor", "pow", "div_mod", "hash", "sponge_absorb",
              "sponge_squeeze", "sponge_absorb_mem", "read_io", "write_io", "divine",
              "assert", "assert_vector", "skiz", "xb_mul", "x_invert", "xx_dot_step",
              "xb_dot_step"}
OnU32 == {"lt", "and", "xor", "pow", "div_mod", "log_2_floor", "pop_count", "merkle_step",
          "merkle_step_mem"}
OnHash == {"hash", "sponge_init", "sponge_absorb", "sponge_squeeze", "sponge_absorb_mem",
           "merkle_step", "merkle_step_mem"}
OnJumpStack == {"call", "return", "recurse", "recurse_or_return"}
OnRam == [sponge_absorb_mem |-> 10, merkle_step_mem |-> 5]

Rows(i, table) ==
    LET op == i[1]
        memory == op \in {"read_mem", "write_mem"}
    IN IF op \in Silent THEN 0
       ELSE IF memory THEN CASE table \in {"processor", "op_stack"} -> 2
                             [] table = "ram" -> i[2]
                             [] OTHER -> 0
       ELSE CASE table = "processor" -> 1
              [] table = "op_stack" -> IF op \in OnOpStack THEN 1 ELSE 0
              [] table = "u32" -> IF op \in OnU32 THEN 33 ELSE 0
              [] table = "hash" -> IF op \in OnHash THEN 6 ELSE 0
              [] table = "jump_stack" -> IF op \in OnJumpStack THEN 1 ELSE 0
              [] table = "ram" -> IF op \in DOMAIN OnRam THEN OnRam[op] ELSE 0

ProfileTasm(lines) ==
    [t \in Tables |-> FoldLeft(LAMBDA height, i : height + Rows(i, t), 0, lines)]

MaxHeight(profile) == Max({profile[t] : t \in Tables})

\* The least power of two that is not lower; of an empty block it is one.
PaddedHeight(profile) ==
    2 ^ Min({MaxLog} \cup {e \in 0 .. MaxLog : MaxHeight(profile) <= 2 ^ e})

Cost(lines) == PaddedHeight(ProfileTasm(lines))

IsCliffJump(profile, baseline) == PaddedHeight(profile) < PaddedHeight(baseline)

=============================================================================
