------------------------- MODULE RecursiveAssembly -------------------------
(***************************************************************************)
(* The routines that the linker adds to a program that verifies proofs or  *)
(* asks for its own digest: rs/recursive/.  They keep their data in cells  *)
(* of RAM that are named here and are no part of the source program's RAM. *)
(***************************************************************************)
EXTENDS TritonNative

CONSTANTS
  MaxClaim, MaxProof,   (* 2^17 and 2^20, the words of each that are loaded *)
  ProofAddress,         (* 2^24                                             *)
  ClaimAddress,         (* 2^25                                             *)
  ControlAddress,       (* 2^26, the two lengths                            *)
  BinderAddress,        (* 256 cells further: a claim that is put together  *)
  DigestAddress,        (* 320 cells further: the program's digest          *)
  Pinned                (* entrypoint -> [program, count]: Neptune's programs *)

SchemaVersion == 1
NativeVersion == 5

VerifyEntry == <<"trisha_recursive_verify_v1">>
DigestEntry == <<"trisha_program_digest">>
LoadWords == <<"trisha_recursive_load_words">>
LoadFive == <<"trisha_recursive_load_five">>
LoadTail == <<"trisha_recursive_load_tail">>

Divine(n) == <<"divine", n>>
Lt == <<"lt", 0>>
Store(address) == <<Push(address), WriteMem(1), Pop(1)>>
Fetch(address) == <<Push(address), ReadMem(1), Pop(1)>>

\* The cells that belong to these routines.
Reserved ==
    ProofAddress .. ProofAddress + MaxProof
    \cup ClaimAddress .. ClaimAddress + MaxClaim
    \cup ControlAddress .. ControlAddress + 1
    \cup BinderAddress .. BinderAddress + MaxClaim
    \cup DigestAddress .. DigestAddress + 4

-----------------------------------------------------------------------------
(* The program's own digest.                                               *)

\* OpStack::new puts it below eleven zeros; it is kept before anything runs.
Prologue ==
    FlattenSeq([k \in 1 .. 5 |-> <<Dup(10 + k)>> \o Store(DigestAddress + k - 1)])

DigestAssembly ==
    <<<<"label", DigestEntry>>>>
    \o FlattenSeq([k \in 1 .. 5 |-> Fetch(DigestAddress + k - 1)]) \o <<Return>>

-----------------------------------------------------------------------------
(* The verifier.                                                           *)

\* length_guard: a length between one and max, which is kept.
LengthGuard(max, control) ==
    <<Divine(1), Dup(0), Push(0), Eq, Push(0), Eq, AssertOne,
      Push(max + 1), Dup(1), Lt, AssertOne, Dup(0)>> \o Store(control)

\* Words arrive five at a time with the last on top, and RAM is written from
\* the top.
LoadFiveCode ==
    <<<<"label", LoadFive>>, Push(5), Dup(2), Lt, Skiz, Return, Divine(5),
      Swap(5), Swap(1), Swap(4), Swap(1), Swap(2), Swap(3), Swap(2), WriteMem(5),
      Swap(1), Push(-5), Add, Swap(1), Recurse>>

LoadTailCode ==
    <<<<"label", LoadTail>>, Dup(1), Push(0), Eq, Skiz, Return, Divine(1),
      Swap(1), WriteMem(1), Swap(1), Push(-1), Add, Swap(1), Recurse>>

\* The claim is loaded and must have the commitment on the stack; the proof is
\* loaded and must have the length it says; then it is verified.
VerifyAssembly ==
    <<<<"label", VerifyEntry>>, Divine(1), Push(SchemaVersion), Eq, AssertOne>>
    \o LengthGuard(MaxClaim, ControlAddress)
    \o <<Push(ClaimAddress), Call(LoadWords), Pop(2), Push(ClaimAddress)>>
    \o Fetch(ControlAddress)
    \o <<<<"hash_varlen", 0>>, Swap(4), Swap(1), Swap(3), Swap(1),
         <<"assert_vector", 0>>, Pop(5)>>
    \o LengthGuard(MaxProof, ControlAddress + 1)
    \o <<Push(ProofAddress), Call(LoadWords), Pop(2)>>
    \o Fetch(ProofAddress) \o Fetch(ControlAddress + 1)
    \o <<Push(-1), Add, Eq, AssertOne, Push(ClaimAddress), Push(ProofAddress),
         <<"stark_verify", ControlAddress>>, Return>>
    \o <<<<"label", LoadWords>>, Call(LoadFive), Call(LoadTail), Return>>
    \o LoadFiveCode \o LoadTailCode

-----------------------------------------------------------------------------
(* Claims of pinned programs.                                              *)

\* The encoded claim of a program with this input and no output.
Encoded(program, in) ==
    program \o <<NativeVersion, Len(in)>> \o in \o <<0>>

\* expected_claim: every digest is reversed.  A digest is its words in order.
ExpectedClaim(program, digests) ==
    Encoded(program, FlattenSeq([k \in DOMAIN digests |-> Reverse(digests[k])]))

\* The input that the word on top belongs to, when popped words are gone.
InputOf(popped, width) == (5 * ((width - 1 - popped) \div 5)) + (popped % 5)

\* fixed_claim_assembly: what the caller does not choose, then what it does.
FixedClaimAssembly(entry) ==
    LET width == 5 * Pinned[entry].count
        template == Encoded(Pinned[entry].program, [k \in 1 .. width |-> 0])
        first == Len(Pinned[entry].program) + 3
        fixed == SelectSeq([k \in DOMAIN template |-> k],
                           LAMBDA k : k \notin first .. first + width - 1)
    IN <<<<"label", entry>>>>
       \o FlattenSeq([k \in DOMAIN fixed |->
              <<Push(template[fixed[k]])>> \o Store(BinderAddress + fixed[k] - 1)])
       \o FlattenSeq([k \in 1 .. width |->
              Store(BinderAddress + first - 1 + InputOf(k - 1, width))])
       \o <<Push(BinderAddress), Push(Len(template)), <<"hash_varlen", 0>>,
            Swap(4), Swap(1), Swap(3), Swap(1), Call(VerifyEntry), Return>>

=============================================================================
