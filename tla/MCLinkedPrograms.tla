-------------------------- MODULE MCLinkedPrograms --------------------------
(***************************************************************************)
(* Programs of up to three modules on a field of 127 elements, with the    *)
(* real window, chunks and hash width.  They go through every operation of *)
(* TIR, nested branches and loops, accesses beyond the window in branches  *)
(* and loops of two modules, names that two modules share, functions that  *)
(* are not needed, inputs of the wrong type, and proofs that are right,    *)
(* wrong, too long, or of another claim.                                   *)
(***************************************************************************)
EXTENDS LinkedPrograms

MCFlat == [a |-> "a", b |-> "x_b", p |-> "p"]
MCEndings == {<<"f", "half">>}

Transaction == <<"trisha_neptune_transaction_verify_v1">>
Currency == <<"trisha_neptune_native_currency_verify_v1">>

MCPinned == Transaction :> [program |-> <<21, 22, 23, 24, 25>>, count |-> 1]
            @@ Currency :> [program |-> <<31, 32, 33, 34, 35>>, count |-> 3]

MCAssemblies ==
    [triton_program_digest |-> [abi |-> <<0, 5>>, label |-> DigestEntry],
     triton_stark_verify_v1 |-> [abi |-> <<5, 0>>, label |-> VerifyEntry],
     neptune_transaction_verify_v1 |-> [abi |-> <<5, 0>>, label |-> Transaction],
     neptune_native_currency_verify_v1 |-> [abi |-> <<15, 0>>, label |-> Currency]]

-----------------------------------------------------------------------------

Fn(name, ops) == <<<<"FnStart", name>>>> \o ops \o <<<<"Return", 0>>, <<"FnEnd", 0>>>>
P(k) == <<"Push", k>>
Ps(n) == [k \in 1 .. n |-> P((5 * k + 3) % Order)]
C(name) == <<"Call", name>>
O(name) == <<name, 0>>
Do(names) == [k \in DOMAIN names |-> O(names[k])]

Main(ops) == <<<<"Entry", <<"main">>>>>> \o Fn(<<"main">>, ops)
Module(name, program, ops) == [name |-> name, program |-> program, ops |-> ops]
Alone(ops) == <<Module("p", TRUE, Main(ops))>>

\* The digest of the program under eleven zeros, and words on top.
Begin(words) == words \o [k \in 1 .. 11 |-> 0] \o <<11, 12, 13, 14, 15>>
Zeros == [a \in Words |-> 0]
Some == [a \in Words |-> IF a < 30 THEN (3 * a + 1) % Order ELSE 0]

Case(modules, in, sec) ==
    [modules |-> modules, input |-> in, secret |-> sec, stack |-> Begin(<<>>), ram |-> Some]

-----------------------------------------------------------------------------

ArithmeticOps ==
    <<P(5), P(3), O("Shl"), P(100), P(2), O("Shr"), P(3), P(4), O("Pow"),
      P(9), P(7), O("Lt"), P(7), P(9), O("Lt"), P(7), P(9), O("And"), P(7), P(9), O("Xor"),
      P(5), P(17), O("DivMod"), P(6), O("Neg"), P(6), O("Invert"), P(6), O("Log2"),
      P(6), O("PopCount"), P(70), O("Split"), P(6), P(8), O("Sub"), P(6), O("Mul"),
      P(3), O("Eq"), P(-1)>>

ExtensionOps ==
    <<P(1), P(2), P(3), P(4), O("ExtMul"), O("ExtInvert"), P(2), P(9),
      O("FoldExt"), O("FoldBase")>>

HashOps == Ps(10) \o Do(<<"Hash", "SpongeInit">>) \o Ps(10) \o Do(<<"SpongeAbsorb">>)
           \o <<P(3)>> \o Do(<<"SpongeLoad", "SpongeSqueeze">>)

MerkleOps == <<P(6)>> \o Ps(5) \o Do(<<"MerkleStep", "MerkleStep">>)
             \o <<P(5)>> \o Ps(5) \o <<P(4)>> \o Do(<<"MerkleLoad", "MerkleLoad">>)

MemoryOps == <<P(40), P(8), P(9), P(41), <<"RamWrite", 2>>, P(4), <<"RamRead", 3>>,
               P(12), <<"ReadMem", 6>>, P(60), <<"WriteMem", 3>>, <<"Pop", 6>>>>

EventOps == Ps(3) \o <<<<"Reveal", <<4, 3>>>>, P(8), <<"Reveal", <<5, 1>>>>,
              <<"Reveal", <<6, 0>>>>>> \o Ps(4) \o <<<<"Seal", <<7, 4>>>>>>
            \o Ps(9) \o <<<<"Seal", <<8, 9>>>>, <<"Seal", <<9, 0>>>>>>

StreamOps == <<<<"ReadIo", 7>>, <<"Hint", 6>>, <<"WriteIo", 8>>, <<"Pop", 5>>, O("Comment"),
               P(1), <<"Assert", 1>>>> \o Ps(5) \o Ps(5) \o <<<<"Assert", 5>>>>

\* Branches in branches, a loop in a branch and a branch in a loop.  The word
\* given chooses the branches.
Branching(flag) ==
    <<P(50), P(flag),
      <<"IfElse", <<<<P(flag - 1),
                      <<"IfElse", <<<<P(3), O("Add")>>, <<P(5), O("Add")>>>>>>,
                      P(7), O("Add")>>,
                    <<P(1), <<"IfOnly", <<P(11), O("Add")>>>>,
                      P(0), <<"IfOnly", <<P(13), O("Add")>>>>>>>>>>,
      P(3), C(<<"again">>), <<"Loop", [label |-> <<"again">>,
         body |-> <<<<"Dup", 0>>, P(1), O("Eq"),
                    <<"IfOnly", <<<<"Swap", 1>>, P(17), O("Mul"), <<"Swap", 1>>>>>>,
                    <<"Swap", 1>>, P(2), O("Add"), <<"Swap", 1>>>>]>>,
      <<"Pop", 1>>,
      <<"ProofBlock", <<P(2), <<"IfOnly", <<P(4), O("Mul")>>>>>>>>>>

\* Two modules with the same names of their own; both reach beyond the window.
Deep(n) == Ps(n) \o <<<<"Dup", 17>>, <<"Swap", 18>>, P(1),
                      <<"IfOnly", <<<<"Dup", 16>>, <<"Pop", 1>>>>>>>>
Shared ==
    <<Module("a", FALSE, Fn(<<"helper">>, Deep(6)) \o Fn(<<"unused">>, <<C(<<"half">>)>>)
                         \o Fn(<<"half">>, <<P(1)>>)),
      Module("p", TRUE, <<<<"EntryParameters", <<"Field", "Bool", "U32">>>>>>
               \o Main(<<C(<<"@", "a", "helper">>), C(<<"@", "x_b", "helper">>),
                         <<"Asm", <<Call(<<"", "helper">>)>>>>>>)
               \o Fn(<<"helper">>, Deep(3))),
      Module("b", FALSE, Fn(<<"", "helper">>, <<P(2), C(<<"", "half">>)>>)
                         \o Fn(<<"half">>, <<O("Mul")>>))>>

Calling(name, inputs, outputs) ==
    <<"TargetCall", [name |-> name, inputs |-> inputs, outputs |-> outputs]>>

Verify == Calling("triton_stark_verify_v1", 5, 0)
Digests == <<Calling("triton_program_digest", 0, 5)>>

\* The witness of a claim; the claim of the program on the stack.
WitnessOf(claim) == <<SchemaVersion, Len(claim)>> \o claim \o <<2>> \o ProofOf(claim)
Committed(claim) == [k \in 1 .. 5 |-> P(Commitment(claim)[k])]
ClaimA == <<1, 2, 3, 4, 5, 6, 7>>
Kernel == <<41, 42, 43, 44, 45>>
Salted(k) == [i \in 1 .. 5 |-> k + 2 * i]
Words5(d) == [k \in 1 .. 5 |-> P(d[k])]
CurrencyOps == Words5(Kernel) \o Words5(Salted(50)) \o Words5(Salted(60))
               \o <<Calling("neptune_native_currency_verify_v1", 15, 0)>>
TransactionOps == Words5(Kernel) \o <<Calling("neptune_transaction_verify_v1", 5, 0)>>
TransactionClaim == ExpectedClaim(MCPinned[Transaction].program, <<Kernel>>)
CurrencyClaim ==
    ExpectedClaim(MCPinned[Currency].program, <<Kernel, Salted(50), Salted(60)>>)
Recursive == Alone(Committed(ClaimA) \o <<Verify>> \o Digests)
Policies == Alone(TransactionOps \o CurrencyOps)

Straight == <<ArithmeticOps, ExtensionOps, HashOps, MemoryOps, EventOps>>

MCCases ==
    [k \in DOMAIN Straight |-> Case(Alone(Straight[k]), <<>>, <<>>)]
    \o <<Case(Alone(MerkleOps), <<>>, Salted(1) \o Salted(7)),
         Case(Alone(StreamOps), [k \in 1 .. 8 |-> k], [k \in 1 .. 6 |-> 20 + k])>>
    \o [k \in 1 .. 3 |-> Case(Alone(Branching(k - 1)), <<>>, <<>>)]
    \o <<Case(Shared, <<100, 1, 15>>, <<>>), Case(Shared, <<100, 2, 15>>, <<>>),
         Case(Shared, <<100, 0, 16>>, <<>>), Case(Shared, <<100, 0>>, <<>>),
         Case(Recursive, <<>>, WitnessOf(ClaimA) \o <<9>>),
         Case(Recursive, <<>>, WitnessOf(<<1, 2, 3, 4, 5, 6, 8>>)),
         Case(Recursive, <<>>, WitnessOf([k \in 1 .. 25 |-> k])),
         Case(Recursive, <<>>, <<SchemaVersion, 7>> \o ClaimA \o <<3>> \o ProofOf(ClaimA) \o <<0>>),
         Case(Policies, <<>>, WitnessOf(TransactionClaim) \o WitnessOf(CurrencyClaim)),
         Case(Policies, <<>>, WitnessOf(TransactionClaim) \o WitnessOf(TransactionClaim)),
         Case(Alone(<<Calling("triton_stark_verify_v1", 4, 0)>>), <<>>, <<>>),
         Case(Alone(<<<<"IfOnly", <<<<"Entry", <<"main">>>>>>>>>>), <<>>, <<>>)>>

=============================================================================
