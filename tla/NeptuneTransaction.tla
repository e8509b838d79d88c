------------------------- MODULE NeptuneTransaction -------------------------
(***************************************************************************)
(* What trisha decides about a Neptune transaction without a network       *)
(* (neptune/lib.rs, rs/deployment.rs): a custom-lock output is constructed *)
(* from a specification, and a complete transaction is admitted for        *)
(* submission when everything in the caller's intent is bound to the       *)
(* kernel that its proof is about.                                         *)
(*                                                                         *)
(* A value in a JSON file is [of, spelling]: the decoder upstream reads    *)
(* every spelling of a value (aliases of field words above the modulus,    *)
(* other number and hex forms, unknown fields), the encoder writes         *)
(* spelling 0.  Digests are injective.                                     *)
(***************************************************************************)
EXTENDS Integers, SequencesExt

CONSTANTS
    MaxEntries      \* coins of a specification, outputs of an intent

ASSUME MaxEntriesAssumption == MaxEntries \in Nat \ {0}

Spelled(value) == [of |-> value, spelling |-> 0]
Decoded(json) == json.of

\* Round-trip equality.
Canonical(json) == Spelled(Decoded(json)) = json

(***************************************************************************)
(* The hashes of the mutator set and of the kernel (upstream).             *)
(***************************************************************************)
Hash(program) == [program |-> program]
Commit(utxo, sender, receiver) == [utxo |-> utxo, sender |-> sender, receiver |-> receiver]
MastHash(kernel) == [kernel |-> kernel]

Parses(program) == program # "unparsable"

(***************************************************************************)
(* deploy output                                                           *)
(***************************************************************************)
Constructible(program, spec) ==
    /\ Len(spec.coins) <= MaxEntries
    /\ Parses(program)
    /\ \A coin \in ToSet(spec.coins) \cup {spec.sender, spec.receiver} : Canonical(coin)

ConstructOutput(program, spec) ==
    [utxo |-> Spelled([lock |-> Hash(program),
                       coins |-> [i \in 1 .. Len(spec.coins) |-> Decoded(spec.coins[i])]]),
     sender |-> spec.sender,
     receiver |-> spec.receiver,
     compiledLock |-> TRUE]

(***************************************************************************)
(* deploy prepare, deploy submit                                           *)
(***************************************************************************)
\* The claim that the pinned transaction program accepts this kernel.
TransactionClaim(kernelDigest) == [program |-> "SingleProof", input |-> <<kernelDigest>>]

\* Of a size that the native verifier can handle, and with no item too many.
Verifies(claim, proof) == proof.sized /\ proof.extra = 0 /\ proof.claim = claim

BoundTo(intent, network) ==
    /\ intent.schema = 1
    /\ network \in {"mainnet", "testnet", "local-testnet1"}
    /\ intent.network = network

Kernel(intent) == Decoded(intent.transaction).kernel
Proof(intent) == Decoded(intent.transaction).proof

KernelExpected(intent) ==
    /\ Canonical(intent.expected)
    /\ Canonical(intent.transaction)
    /\ MastHash(Kernel(intent)) = Decoded(intent.expected)

OrdinaryPayment(kernel) == ~kernel.coinbase /\ kernel.fee >= 0

\* Variant of DescribesEvery: as many outputs as the limit allows.
DescribesSome(intent) == Len(intent.outputs) \in 1 .. MaxEntries

DescribesEvery(intent) ==
    /\ Len(intent.outputs) \in 1 .. MaxEntries
    /\ Len(intent.outputs) = Len(Kernel(intent).outputs)

Explains(output, record, program) ==
    /\ Canonical(output.utxo) /\ Canonical(output.sender) /\ Canonical(output.receiver)
    /\ output.compiledLock => Decoded(output.utxo).lock = Hash(program)
    /\ Commit(Decoded(output.utxo), Decoded(output.sender), Decoded(output.receiver)) = record

\* The two sequences are zipped: what is longer is not looked at.
OutputsExplained(program, intent) ==
    \A i \in DOMAIN intent.outputs \cap DOMAIN Kernel(intent).outputs :
        Explains(intent.outputs[i], Kernel(intent).outputs[i], program)

LockedByProgram(intent) == \E i \in DOMAIN intent.outputs : intent.outputs[i].compiledLock

Proven(intent) ==
    /\ Proof(intent).kind = "single"
    /\ Verifies(TransactionClaim(Decoded(intent.expected)), Proof(intent))

Prepares(program, intent, network) ==
    /\ BoundTo(intent, network)
    /\ Parses(program)
    /\ KernelExpected(intent)
    /\ OrdinaryPayment(Kernel(intent))
    /\ DescribesEvery(intent)
    /\ OutputsExplained(program, intent)
    /\ LockedByProgram(intent)
    /\ Proven(intent)

\* The request carries the transaction as the decoder read it.
Prepare(intent) ==
    [network |-> intent.network,
     kernel |-> intent.expected,
     request |-> Spelled(Decoded(intent.transaction))]

(***************************************************************************)
(* deploy --dry-run                                                        *)
(***************************************************************************)
\* The program that an attached execution proof is about.
NoProof == Hash("none")

Inspects(program, attached) ==
    /\ Parses(program)
    /\ attached \in {NoProof, Hash(program)}

=============================================================================
