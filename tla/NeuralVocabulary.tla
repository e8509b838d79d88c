--------------------------- MODULE NeuralVocabulary ---------------------------
(***************************************************************************)
(* What a model of the neural compiler may say: the vocabulary and the     *)
(* grammar of its second version (rs/neural/model), and the 64 codes of    *)
(* its first one (rs/lower/mod.rs).  A token is its number, a line is      *)
(* <<op, n>>; the grammar follows the depth of the stack, and of each word *)
(* whether it is of the base or of the extension field.                    *)
(***************************************************************************)
EXTENDS Integers, Sequences, SequencesExt

Numbered(op, first, last) == [k \in 1 .. last - first + 1 |-> <<op, first + k - 1>>]
Plain(ops) == [k \in DOMAIN ops |-> <<ops[k], 0>>]

-----------------------------------------------------------------------------
(* Vocabularies.  Token 0 is the first, the end of a sequence.             *)

Tokens ==
    Plain(<<"">>) \o Numbered("push", -1, 10) \o <<<<"push", 16>>, <<"push", 32>>>>
    \o Numbered("pop", 1, 5) \o Numbered("dup", 0, 15) \o Numbered("swap", 1, 15)
    \o Numbered("pick", 0, 15) \o Numbered("place", 0, 15)
    \o Plain(<<"add", "mul", "invert", "split", "div_mod", "pow", "log_2_floor", "pop_count",
               "eq", "lt", "and", "xor", "or", "nop", "halt", "assert", "assert_vector",
               "skiz", "return", "recurse", "recurse_or_return">>)
    \o Numbered("read_io", 1, 5) \o Numbered("write_io", 1, 5) \o Numbered("divine", 1, 5)
    \o Numbered("read_mem", 1, 5) \o Numbered("write_mem", 1, 5)
    \o Plain(<<"hash", "sponge_init", "sponge_absorb", "sponge_squeeze", "sponge_absorb_mem",
               "merkle_step", "merkle_step_mem", "x_invert", "xb_mul", "xx_dot_step",
               "xb_dot_step">>)

VocabSize == Len(Tokens)

\* The codes of the first version.  Those of instructions that could not be
\* verified stand for others.
Codes ==
    Plain(<<"">>) \o Numbered("push", 0, 1) \o <<<<"push", -1>>>> \o Numbered("pop", 1, 5)
    \o Numbered("dup", 0, 5) \o Numbered("swap", 1, 5)
    \o Plain(<<"add", "mul", "eq", "lt", "and", "xor", "div_mod", "split", "pop_count",
               "log_2_floor", "nop", "assert">>)
    \o <<<<"dup", 9>>, <<"write_io", 1>>, <<"dup", 11>>, <<"dup", 12>>, <<"divine", 1>>,
         <<"dup", 14>>, <<"dup", 15>>>> \o Numbered("swap", 10, 13)
    \o <<<<"halt", 0>>, <<"swap", 15>>, <<"write_io", 5>>, <<"pick", 2>>, <<"pick", 3>>,
         <<"divine", 5>>, <<"pick", 5>>>> \o Numbered("place", 1, 5) \o Numbered("push", 2, 3)
    \o <<<<"assert_vector", 0>>, <<"dup", 6>>, <<"dup", 7>>>> \o Numbered("swap", 6, 9)

UpTo(tokens, Ends(_)) ==
    LET end == SelectInSeq(tokens, Ends)
    IN IF end = 0 THEN tokens ELSE SubSeq(tokens, 1, end - 1)

\* Vocab::decode_sequence skips tokens it does not know, decode_output ends.
DecodeSequence(tokens) ==
    LET known == SelectSeq(UpTo(tokens, LAMBDA t : t = 0), LAMBDA t : t < VocabSize)
    IN [k \in DOMAIN known |-> Tokens[known[k] + 1]]

DecodeOutput(codes) ==
    LET said == UpTo(codes, LAMBDA c : c = 0 \/ c >= Len(Codes))
    IN [k \in DOMAIN said |-> Codes[said[k] + 1]]

-----------------------------------------------------------------------------
(* The grammar.                                                            *)

\* Words popped and pushed by instructions without an argument.
Exchanged ==
    [add |-> <<2, 1>>, mul |-> <<2, 1>>, invert |-> <<1, 1>>, split |-> <<1, 2>>,
     div_mod |-> <<2, 2>>, pow |-> <<2, 1>>, log_2_floor |-> <<1, 1>>,
     pop_count |-> <<1, 1>>, eq |-> <<2, 1>>, lt |-> <<2, 1>>, and |-> <<2, 1>>,
     xor |-> <<2, 1>>, or |-> <<2, 1>>, assert |-> <<1, 0>>, assert_vector |-> <<5, 0>>,
     skiz |-> <<1, 0>>, hash |-> <<10, 5>>, sponge_absorb |-> <<10, 0>>,
     sponge_squeeze |-> <<0, 10>>, sponge_absorb_mem |-> <<1, 1>>,
     x_invert |-> <<3, 3>>, xb_mul |-> <<4, 3>>]

StackEffect(i) ==
    CASE i[1] \in {"push", "dup"} -> <<0, 1>>
      [] i[1] \in {"pop", "write_io"} -> <<i[2], 0>>
      [] i[1] \in {"read_io", "divine"} -> <<0, i[2]>>
      [] i[1] = "read_mem" -> <<1, i[2] + 1>>
      [] i[1] = "write_mem" -> <<i[2] + 1, 1>>
      [] i[1] \in DOMAIN Exchanged -> Exchanged[i[1]]
      [] OTHER -> <<0, 0>>

\* Variant of MinStackDepth: the words taken off, not the words reached.
MinStackDepthPopped(i) == StackEffect(i)[1]

MinStackDepth(i) ==
    CASE i[1] \in {"dup", "swap", "pick", "place"} -> i[2] + 1
      [] i[1] = "assert_vector" -> 10
      [] OTHER -> StackEffect(i)[1]

\* The tables of the grammar, by token.
Effects == [token \in 0 .. VocabSize - 1 |-> StackEffect(Tokens[token + 1])]
MinDepths == [token \in 0 .. VocabSize - 1 |-> MinStackDepth(Tokens[token + 1])]

MaxTrackedDepth == 64

NewGrammar(depth) == [depth |-> depth, types |-> [k \in 1 .. depth |-> "Unknown"]]

\* The last type is that of the top.
Typed(types, i) ==
    LET len == Len(types)
        top(n, type) ==
            IF len < n THEN types
            ELSE [k \in 1 .. len |-> IF k > len - n THEN type ELSE types[k]]
    IN CASE i[1] = "push" -> top(1, "BFE")
         [] i[1] = "dup" ->
              IF len >= 2 + i[2] THEN [types EXCEPT ![len] = types[len - 1 - i[2]]] ELSE types
         [] i[1] \in {"x_invert", "xb_mul"} -> top(3, "XFE")
         [] i[1] \in {"add", "mul", "invert", "split", "div_mod", "pow", "log_2_floor",
                      "pop_count", "eq", "lt", "and", "xor", "or"} -> top(1, "BFE")
         [] OTHER -> types

\* Types beyond those tracked are forgotten from the top.
GrammarStep(g, token) ==
    IF token = 0 \/ token >= VocabSize THEN g
    ELSE LET i == Tokens[token + 1]
             effect == Effects[token]
             kept == SubSeq(g.types, 1, Len(g.types) - effect[1])
             pushed == kept \o [k \in 1 .. effect[2] |-> "Unknown"]
             net == g.depth + effect[2] - effect[1]
         IN [depth |-> IF net < 0 THEN 0 ELSE net,
             types |-> LET typed == Typed(pushed, i)
                       IN SubSeq(typed, 1, IF Len(typed) < MaxTrackedDepth
                                           THEN Len(typed) ELSE MaxTrackedDepth)]

ValidMask(g) ==
    {token \in DOMAIN MinDepths : token = 0 \/ g.depth >= MinDepths[token]}

=============================================================================
