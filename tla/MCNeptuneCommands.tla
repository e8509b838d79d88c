------------------------- MODULE MCNeptuneCommands -------------------------
(***************************************************************************)
(* A kernel with two outputs, one of them locked by the program, and for   *)
(* each check of an intent one that only this check refuses, saved one     *)
(* after the other while the commands run; two processes that prepare and  *)
(* submit while the files change; two networks of up to seven addresses    *)
(* with a node that is moved between them; two processes on one list of    *)
(* hidden addresses; wallets that are made, removed and linked.            *)
(***************************************************************************)
EXTENDS NeptuneCommands

(***************************************************************************)
(* Transactions                                                            *)
(***************************************************************************)
Utxo(program) == [lock |-> Hash(program), coins |-> <<"coin">>]
Ours == Commit(Utxo("lock"), "s1", "r1")
Theirs == Commit(Utxo("other"), "s2", "r2")

KernelOf(outputs, coinbase, fee) == [outputs |-> outputs, coinbase |-> coinbase, fee |-> fee]
ProofOf(kind, kernel, sized, extra) ==
    [kind |-> kind, claim |-> TransactionClaim(MastHash(kernel)), sized |-> sized, extra |-> extra]

Stated(record, flagged) ==
    [utxo |-> Spelled(record.utxo), sender |-> Spelled(record.sender),
     receiver |-> Spelled(record.receiver), compiledLock |-> flagged]
Outputs == <<Stated(Ours, TRUE), Stated(Theirs, FALSE)>>

IntentOf(kernel, proof, outputs) ==
    [schema |-> 1, network |-> "testnet", expected |-> Spelled(MastHash(kernel)),
     transaction |-> Spelled([kernel |-> kernel, proof |-> proof]), outputs |-> outputs]

Pays == KernelOf(<<Ours, Theirs>>, FALSE, 1)
PaysLess == KernelOf(<<Ours>>, FALSE, 0)
Single(kernel) == ProofOf("single", kernel, TRUE, 0)
Good == IntentOf(Pays, Single(Pays), Outputs)
Other == IntentOf(PaysLess, Single(PaysLess), <<Outputs[1]>>)
Plain(kernel) == IntentOf(kernel, Single(kernel), Outputs)
WithProof(proof) == IntentOf(Pays, proof, Outputs)
WithOutputs(outputs) == IntentOf(Pays, Single(Pays), outputs)

IntentList ==
    <<Good,
      [Good EXCEPT !.schema = 2], [Good EXCEPT !.network = "mainnet"],
      [Good EXCEPT !.expected.spelling = 1], [Good EXCEPT !.transaction.spelling = 1],
      [Good EXCEPT !.expected = Other.expected],
      Plain(KernelOf(<<Ours, Theirs>>, TRUE, 1)), Plain(KernelOf(<<Ours, Theirs>>, FALSE, -1)),
      WithOutputs(<<>>), WithOutputs(<<Outputs[1]>>), WithOutputs(<<Outputs[2], Outputs[1]>>),
      WithOutputs(<<Outputs[1], Stated(Theirs, TRUE)>>),
      WithOutputs(<<Stated(Ours, FALSE), Outputs[2]>>),
      WithOutputs(<<Outputs[1], [Outputs[2] EXCEPT !.utxo.spelling = 1]>>),
      WithProof(ProofOf("primitive", Pays, TRUE, 0)), WithProof(Single(PaysLess)),
      WithProof(ProofOf("single", Pays, FALSE, 0)), WithProof(ProofOf("single", Pays, TRUE, 1)),
      Other>>

(***************************************************************************)
(* Files                                                                   *)
(***************************************************************************)
Gateway == [scheme |-> "https", loopback |-> FALSE, bare |-> TRUE]
Local == [scheme |-> "http", loopback |-> TRUE, bare |-> TRUE]
Clear == [scheme |-> "http", loopback |-> FALSE, bare |-> TRUE]
Queried == [scheme |-> "https", loopback |-> FALSE, bare |-> FALSE]

Auth(endpoint) == [regular |-> TRUE, private |-> TRUE, small |-> TRUE, guarded |-> TRUE, schema |-> 1,
                   network |-> "testnet", endpoint |-> endpoint, token |-> "graphic"]
File(holds) == [regular |-> TRUE, small |-> TRUE, guarded |-> TRUE, holds |-> holds]
Saved(program, input, auth) == [program |-> program, input |-> input, auth |-> auth]
GoodFile == Saved("lock", File(Good), Auth(Gateway))
WithAuth(auth) == Saved("lock", File(Good), auth)

ReplyOf(status, small, guarded, id, error, success) ==
    [status |-> status, small |-> small, guarded |-> guarded, jsonrpc |-> "2.0", id |-> id,
     error |-> error, success |-> success]
ReplyList == {ReplyOf(200, TRUE, TRUE, 1, FALSE, TRUE), ReplyOf(200, TRUE, TRUE, 1, FALSE, FALSE),
              ReplyOf(200, TRUE, TRUE, 0, FALSE, TRUE), ReplyOf(200, TRUE, TRUE, 1, TRUE, TRUE),
              ReplyOf(302, TRUE, TRUE, 1, FALSE, TRUE), ReplyOf(200, FALSE, TRUE, 1, FALSE, TRUE)}

Submit(endpoint) == [op |-> "submit", union |-> "neptune", network |-> "testnet", endpoint |-> endpoint]
Prep(out) == [op |-> "prepare", union |-> "neptune", network |-> "testnet", out |-> out]
Output(out) == [op |-> "output", out |-> out]
Deploy(attached, dryRun) == [op |-> "deploy", attached |-> attached, dryRun |-> dryRun]

(***************************************************************************)
(* Neurons                                                                 *)
(***************************************************************************)
M == "main"
T == "testnet-0"
Balance(n) == [op |-> "balance", network |-> n]
Boxes(n) == [op |-> "boxes", network |-> n]
Add(n, keyType, indexed) == [op |-> "add", network |-> n, keyType |-> keyType, indexed |-> indexed]
List(n, start, limit, all) ==
    [op |-> "list", network |-> n, start |-> start, limit |-> limit, all |-> all]
Hide(n, entry) == [op |-> "hide", network |-> n, entry |-> entry]
Show(n, entry) == [op |-> "show", network |-> n, entry |-> entry]
NewWallet(n) == [op |-> "create", network |-> n]
Import(n, words) == [op |-> "import", network |-> n, words |-> words]
Drop(n, confirm) == [op |-> "remove", network |-> n, confirm |-> confirm]

None == [x \in {} |-> x]

Situation == [scripts |-> <<>>, versions |-> <<GoodFile>>, paths |-> {"a", "b"}, replies |-> ReplyList,
              node |-> T, issued |-> (M :> 1 @@ T :> 2), hidden |-> (M :> {} @@ T :> {}),
              wallets |-> {<<DataDir, M>>, <<DataDir, T>>}, links |-> None, told |-> None,
              dataDir |-> TRUE, moves |-> {}]

Deploys(scripts, versions) == [Situation EXCEPT !.scripts = scripts, !.versions = versions]
Asks(scripts, moves) == [Situation EXCEPT !.scripts = scripts, !.moves = moves]
Keeps(scripts, held, links, told, dataDir) ==
    [Situation EXCEPT !.scripts = scripts, !.wallets = held, !.links = links,
                      !.told = told, !.dataDir = dataDir]

OtherFile == Saved("lock", File(Other), Auth(Gateway))
Versions == [i \in DOMAIN IntentList |-> Saved("lock", File(IntentList[i]), Auth(Gateway))]
AuthList == <<GoodFile,
              WithAuth([Auth(Gateway) EXCEPT !.private = FALSE]),
              WithAuth([Auth(Gateway) EXCEPT !.regular = FALSE]),
              WithAuth([Auth(Gateway) EXCEPT !.network = "mainnet"]),
              WithAuth([Auth(Gateway) EXCEPT !.token = "spaced"]),
              WithAuth(Auth(Local)), WithAuth(Auth(Clear)), WithAuth(Auth(Queried)),
              Saved("other", File(Good), Auth(Gateway)),
              Saved("unparsable", File(Good), Auth(Gateway)),
              Saved("lock", [File(Good) EXCEPT !.regular = FALSE], Auth(Gateway)),
              Saved("lock", [File(Good) EXCEPT !.small = FALSE], Auth(Gateway)),
              Saved("lock", [File(Good) EXCEPT !.guarded = FALSE], Auth(Gateway))>>

SpecOf(coins) == [coins |-> coins, sender |-> Spelled("s1"), receiver |-> Spelled("r1")]
Coin == Spelled("coin")
SpecList == <<Saved("lock", File(SpecOf(<<Coin>>)), Auth(Gateway)),
              Saved("lock", File(SpecOf(<<Coin, [Coin EXCEPT !.spelling = 1]>>)), Auth(Gateway)),
              Saved("lock", File(SpecOf([i \in 1 .. 4 |-> Coin])), Auth(Gateway)),
              Saved("lock", File([SpecOf(<<>>) EXCEPT !.sender.spelling = 1]), Auth(Gateway)),
              Saved("unparsable", File(SpecOf(<<>>)), Auth(Gateway))>>

First2 == {<<T, 0>>}
Part == {<<T, 0>>, <<T, 1>>, <<T, 2>>}

CaseList ==
    <<Deploys(<<<<Submit(Gateway), Prep("a")>>>>, Versions),
      Deploys(<<<<Submit(Gateway)>>, <<Submit(Local)>>>>, AuthList),
      Deploys(<<<<Submit(Clear), Submit(Queried), [Submit(Gateway) EXCEPT !.union = "other"],
                  [Submit(Gateway) EXCEPT !.network = "regtest"]>>>>, AuthList),
      Deploys(<<<<Prep("a"), Submit(Gateway)>>, <<Prep("a"), Submit(Gateway)>>>>, <<GoodFile, OtherFile>>),
      Deploys(<<<<Submit(Gateway), Submit(Gateway)>>>>, <<GoodFile>>),
      Deploys(<<<<Output("a"), Output("b")>>, <<Output("a")>>>>, SpecList),
      Deploys(<<<<Deploy(NoProof, TRUE), Deploy(Hash("lock"), TRUE), Deploy(Hash("other"), TRUE),
                  Deploy(NoProof, FALSE)>>>>, AuthList),
      Asks(<<<<Balance(T), Boxes(T), Add(T, "generation", FALSE)>>, <<List(T, 1, 2, FALSE)>>>>,
           {M, T, "none"}),
      Asks(<<<<Add(T, "symmetric", FALSE), Add(T, "generation", TRUE), Add(T, "generation", FALSE),
               List(T, 3, 4, TRUE)>>,
             <<List(T, 1, 3, TRUE), List(M, 0, 2, FALSE), List(T, 5, 1, FALSE)>>>>, {M}),
      Asks(<<<<Hide(T, First2), List(T, 0, 3, FALSE), Show(T, First2), List(T, 0, 2, FALSE)>>,
             <<Hide(M, {<<M, 0>>}), List(T, 0, 3, FALSE), List(T, 0, 3, TRUE)>>>>, {}),
      [Asks(<<<<Hide(T, First2), Show(T, Part)>>, <<Hide(T, {<<T, 1>>}), List(T, 0, 3, FALSE)>>>>, {})
         EXCEPT !.hidden = (M :> {} @@ T :> {Part, First2})],
      Keeps(<<<<NewWallet(T), Drop(T, FALSE), Drop(T, TRUE), Import(T, TRUE)>>,
              <<Drop(T, TRUE), Import(T, FALSE)>>>>, {<<DataDir, M>>}, None, None, TRUE),
      Keeps(<<<<Drop(T, TRUE), Drop(M, TRUE)>>, <<Drop(T, TRUE)>>>>, {<<DataDir, M>>, <<DataDir, T>>},
            None, None, FALSE),
      Keeps(<<<<Drop(T, TRUE), NewWallet(T)>>>>, {<<DataDir, M>>},
            (<<DataDir, T>> :> <<DataDir, M>>), None, FALSE),
      Keeps(<<<<Drop(T, TRUE)>>, <<Drop(M, TRUE)>>>>, {<<DataDir, M>>, <<"elsewhere", T>>, <<"relative", M>>},
            None, (T :> {<<"elsewhere", T>>} @@ M :> {<<"relative", M>>}), TRUE),
      Keeps(<<<<Drop(T, TRUE)>>>>, {<<DataDir, M>>, <<DataDir, T>>}, None, (T :> {<<DataDir, M>>}), FALSE),
      Keeps(<<<<Drop(T, TRUE)>>, <<Drop(T, TRUE)>>>>, {<<DataDir, T>>, <<"elsewhere", T>>}, None,
            (T :> {<<DataDir, T>>, <<"elsewhere", T>>}), FALSE)>>

MCCases == CaseList

=============================================================================
