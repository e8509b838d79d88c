--------------------------- MODULE MCNeuralBlocks ---------------------------
(***************************************************************************)
(* Words of eight bits and the field of 241 elements, whose order has the  *)
(* form of that of Goldilocks.  Any two tokens of the whole vocabulary are *)
(* said on stacks of no, nine and 63 words; any three of the tokens that   *)
(* matter to a block are said about it.  The blocks whose candidates are   *)
(* compared with the machine have the comment's comparison of two words,   *)
(* identities, a square, and every side channel; their instructions are    *)
(* those that the verifier simulates as the machine executes them.         *)
(***************************************************************************)
EXTENDS NeuralBlocks, Bitwise

MCSeeds == {42, 7961, 15880}
MCBitAnd(a, b) == a & b
MCBitXor(a, b) == a ^^ b
MCSamples == {0, 1, 2, 7, 15, 16, 17, 240}

N(op) == <<op, 0>>

Id(i) == SelectInSeq(Tokens, LAMBDA t : t = i) - 1
Code(i) == SelectInSeq(Codes, LAMBDA t : t = i) - 1

Open(depth) == [kind |-> "v2", block |-> <<>>, depth |-> depth,
                tokens |-> 1 .. VocabSize - 1, longest |-> 2, seed |-> 42]
Said(block, alphabet, longest) ==
    [kind |-> "v2", block |-> block, depth |-> 16, tokens |-> {Id(i) : i \in ToSet(alphabet)},
     longest |-> longest, seed |-> 42]
Coded(block, alphabet, longest) ==
    [kind |-> "v1", block |-> block, depth |-> 16, tokens |-> {Code(i) : i \in ToSet(alphabet)},
     longest |-> longest, seed |-> 7961]
Varied(block) == [kind |-> "walk", block |-> block, depth |-> 16, tokens |-> {},
                  longest |-> 0, seed |-> 15880]

Compare == <<<<"dup", 1>>, <<"dup", 1>>, N("eq")>>
Square == <<<<"dup", 0>>, N("nop"), <<"dup", 1>>, N("mul"), <<"swap", 1>>, <<"pop", 1>>>>
Nothing == <<<<"push", 0>>, N("add"), <<"swap", 1>>, <<"swap", 1>>, N("nop")>>
Written == <<<<"write_io", 1>>, <<"push", 1>>, N("assert"), <<"//", 0>>, N("nop")>>
Halted == <<N("split"), <<"write_io", 1>>, N("halt"), <<"push", 3>>, <<"push", 3>>>>
Drained == <<<<"pop", 5>>, <<"pop", 5>>, <<"pop", 5>>, <<"pop", 1>>>>
Divined == <<<<"divine", 1>>, <<"pop", 1>>, N("nop"), <<"pick", 2>>, <<"place", 2>>>>

TaskList ==
    <<Open(0), Open(9), Open(63),
      Said(Compare, <<<<"push", 0>>, <<"push", 1>>, <<"dup", 0>>, <<"dup", 1>>, N("eq"),
                     <<"pop", 1>>, <<"swap", 1>>, N("or")>>, 3),
      Said(Written, <<<<"push", 1>>, N("assert"), <<"write_io", 1>>, <<"pop", 1>>,
                     N("return"), <<"dup", 0>>>>, 3),
      Said(Divined, <<<<"divine", 1>>, <<"push", 0>>, <<"pop", 1>>, <<"pick", 1>>,
                     <<"place", 1>>>>, 3),
      Coded(Square, <<<<"dup", 0>>, <<"dup", 1>>, N("mul"), <<"swap", 1>>, N("add"), N("")>>, 3),
      Coded(Nothing, <<N("nop"), <<"push", 0>>, <<"push", 1>>, N("mul"), N("add")>>, 3),
      Coded(Halted, <<N("split"), <<"write_io", 1>>, N("halt"), <<"pop", 1>>, N("nop")>>, 3),
      Coded(Drained, <<<<"pop", 1>>, <<"pop", 5>>, N("nop")>>, 4),
      Varied(Square \o Nothing),
      Varied(<<<<"push", 3>>, <<"push", 1>>, N("mul"), <<"push", 1>>, <<"dup", 0>>, <<"pop", 1>>,
               <<"push", 1>>, N("add")>>)>>

MCTasks == TaskList

\* A power, about which triton.rs says that "Triton pow consumes base on top".
OrderList == <<Said(<<<<"push", 2>>, <<"push", 1>>, N("pow")>>,
                    <<<<"push", 0>>, <<"push", 1>>, <<"push", 2>>, <<"swap", 1>>, N("pow"), N("nop")>>, 3)>>

MCOrderTasks == OrderList

=============================================================================
