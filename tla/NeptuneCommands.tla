-------------------------- MODULE NeptuneCommands --------------------------
(***************************************************************************)
(* The processes of one user, with the deploy commands and the neuron      *)
(* commands, on the same files and beside the same node: properties that   *)
(* hold whatever the order of their steps, with files that change under a  *)
(* command, a node that is moved, a gateway that does not answer, failing  *)
(* writes and processes that are killed.                                   *)
(***************************************************************************)
EXTENDS NeptuneSubmission, NeuronWallet

vars == <<jobVars, submissionVars, walletVars>>

Init == JobsInit /\ SubmissionInit /\ WalletInit

\* A process is killed in the middle of a command.
Kill(p) ==
    /\ ~Ready(p)
    /\ Fail(p)
    /\ torn' = (torn \/ At(p, "rewrite"))
    /\ UNCHANGED <<submissionVars, node, issued, hidden, wallets, asked, moved>>

Step(p) ==
    \/ SubmissionStep(p) /\ UNCHANGED walletVars
    \/ WalletStep(p) /\ UNCHANGED submissionVars
    \/ Kill(p)

Next ==
    \/ \E p \in Procs : Step(p)
    \/ Save /\ UNCHANGED walletVars
    \/ \E n \in case.moves : MoveNode(n) /\ UNCHANGED submissionVars

Spec == Init /\ [][Next]_vars

(***************************************************************************)
(* Properties                                                              *)
(***************************************************************************)
\* The output at this place of the kernel is one that the intent describes.
Described(record, intent) ==
    \E i \in DOMAIN intent.outputs :
        LET output == intent.outputs[i]
        IN  record = Commit(output.utxo.of, output.sender.of, output.receiver.of)

\* "deploy submit repeats all preparation checks and sends exactly that
\* transaction" (docs/reference/neptune-submission.md): whatever the user saves
\* and whenever, a request that a gateway receives is the canonical form of one
\* transaction, whose kernel is the expected one, has nothing but outputs that
\* the intent describes, one of them locked by the compiled program, and is the
\* kernel that the proof is about; it goes where the auth file says, on the
\* network that was selected; and a command sends one request.  A private file
\* was inspected before, and the file that was used is private as well unless
\* the user has saved between its inspection and its opening: the mode of the
\* file opened is not looked at (GatewayAuth::from_file).
SubmissionIsExact ==
    \A i \in DOMAIN received :
        LET request == received[i].sent.tx.request
            kernel == request.of.kernel
            intent == received[i].sent.from.intent
            auth == received[i].sent.auth
            inspected == received[i].sent.inspected
            cmd == CmdAt(received[i].by)
        IN  /\ Canonical(request)
            /\ intent.expected = Spelled(MastHash(kernel))
            /\ \A k \in DOMAIN kernel.outputs : Described(kernel.outputs[k], intent)
            /\ \E k \in DOMAIN kernel.outputs :
                  kernel.outputs[k].utxo.lock = Hash(received[i].sent.from.program)
            /\ request.of.proof.claim = TransactionClaim(MastHash(kernel))
            /\ ~kernel.coinbase /\ kernel.fee >= 0
            /\ {intent.network, auth.network} = {cmd.network}
            /\ auth.endpoint = cmd.endpoint
            /\ Private(case.versions[inspected].auth)
            /\ Private(auth) \/ inspected < received[i].sent.opened
            /\ \A j \in DOMAIN received : received[j].by = received[i].by => j = i

\* What a command reports is so, and stays so: "gateway_accepted" is a request
\* of this command that the gateway has accepted, and a prepared transaction or
\* an output that was reported is whole in its file, which no other command
\* has replaced ("cannot overwrite an existing file",
\* docs/reference/neptune-submission.md).
ReportsAreTrue ==
    \A done \in Succeeded :
        LET cmd == CmdAt(done)
            answer == AnswerAt(done)
        IN  CASE cmd.op = "submit" ->
                    \E i \in DOMAIN received : received[i].by = done /\ received[i].accepted
              [] cmd.op \in {"prepare", "output"} ->
                    artifacts[cmd.out] = [state |-> "whole", holds |-> answer]
              [] cmd.op = "deploy" -> cmd.dryRun /\ (answer.proved => cmd.attached = answer.lock)
              [] OTHER -> TRUE

\* "Address allocation/listing verifies the node's network"
\* (docs/reference/neptune-wallet.md): unless the node is moved while a command
\* runs, its answer is of the selected network, and a list has the addresses
\* handed out in the window that was asked for.  Listed are those that have
\* not been hidden on this network and not shown since, unless two commands on
\* one list of hidden addresses have met or the file was left half written.
AnswersAreRight ==
    \A done \in Succeeded :
        LET cmd == CmdAt(done)
            answer == AnswerAt(done)
        IN  /\ cmd.op \in Asking /\ answer.settled => answer.of = {cmd.network}
            /\ cmd.op = "list" =>
                  /\ answer.settled =>
                        answer.keys = {<<cmd.network, i>> : i \in
                                         {i \in 0 .. answer.last : i - cmd.start \in 0 .. cmd.limit - 1}}
                  /\ torn \/ answer.shown = answer.keys \ IF cmd.all THEN {} ELSE UNION answer.asked

\* "removes only that wallet directory" (docs/reference/neptune-wallet.md): a
\* wallet disappears only by a confirmed removal on its own network, in the
\* selected data directory, and never by way of a link.
WalletIsMeant ==
    [][\A place \in wallets \ wallets' :
          \E p \in Procs :
              /\ At(p, "delete")
              /\ Cmd(p).op = "remove" /\ Cmd(p).confirm
              /\ Selected(p) = place[2]
              /\ case.dataDir => place[1] = DataDir]_vars

=============================================================================
