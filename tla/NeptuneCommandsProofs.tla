----------------------- MODULE NeptuneCommandsProofs -----------------------
(***************************************************************************)
(* Proofs about the processes of one user, for any number of processes and *)
(* networks, any scripts, any versions of the files and a node that is     *)
(* moved at any time.  First what the commands that deploy send and        *)
(* report, whatever neuron commands run beside them; then what the neuron  *)
(* commands answer and remove, whatever is deployed beside them.           *)
(***************************************************************************)
EXTENDS NeptuneCommands, SequenceTheorems, TLAPS

-----------------------------------------------------------------------------
(* Sequences of anything.                                                  *)

IsSeq(s) == \E S : s \in Seq(S)

\* What is appended comes last, and the rest stays.
LEMMA AppendIs ==
    ASSUME NEW s, IsSeq(s), NEW e
    PROVE  /\ IsSeq(Append(s, e))
           /\ Len(s) \in Nat /\ Len(Append(s, e)) = Len(s) + 1
           /\ DOMAIN s = 1 .. Len(s) /\ DOMAIN Append(s, e) = 1 .. Len(s) + 1
           /\ \A i \in DOMAIN s : Append(s, e)[i] = s[i]
           /\ Append(s, e)[Len(s) + 1] = e
<1>1. PICK S : s \in Seq(S)
  BY DEF IsSeq
<1>2. s \in Seq(S \cup {e})
  BY <1>1
<1>3. Append(s, e) \in Seq(S \cup {e})
  BY <1>2
<1> QED
  BY <1>2, <1>3 DEF IsSeq

LEMMA EmptyIs == IsSeq(<<>>) /\ Len(<<>>) = 0 /\ DOMAIN <<>> = {}
<1>1. <<>> \in Seq({})
  OBVIOUS
<1> QED
  BY <1>1 DEF IsSeq

-----------------------------------------------------------------------------
(* Where a process may be in which command.                                *)

Offering == {"output", "prepare"}
Neurons == Asking \cup Changing \cup Walleting

SubmissionPlace(label, op) ==
    \/ label \in {"inspect", "read"} /\ op \in Deploying
    \/ label \in {"create", "write"} /\ op \in Offering
    \/ label \in {"auth", "open", "post", "answer"} /\ op = "submit"

WalletPlace(label, op) ==
    \/ label = "network" /\ op \in Asking
    \/ label \in {"balance", "unconfirmed"} /\ op = "balance"
    \/ label = "boxes" /\ op = "boxes"
    \/ label \in {"add", "offline"} /\ op = "add"
    \/ label \in {"list", "filter"} /\ op = "list"
    \/ label \in {"change", "truncate", "rewrite"} /\ op \in Changing
    \/ label \in {"check", "none", "found", "again"} /\ op \in Walleting
    \/ label = "make" /\ op \in {"create", "import"}
    \/ label = "delete" /\ op = "remove"

Place(label, op) == SubmissionPlace(label, op) \/ WalletPlace(label, op)

Busy(p) == job[p].turn <= Len(case.scripts[p])

\* The situation is one of those considered; a process has reported once for
\* each command that it has finished, and is in a command of its script.
JobsInv ==
    /\ \E i \in DOMAIN Cases : case = Cases[i]
    /\ DOMAIN job = Procs /\ DOMAIN reports = Procs
    /\ \A p \in Procs :
          /\ job[p].turn \in Nat \ {0}
          /\ IsSeq(reports[p])
          /\ Len(reports[p]) = job[p].turn - 1
          /\ Ready(p) \/ (Busy(p) /\ Place(job[p].at, Cmd(p).op))

\* A step of a process that stays in its command, and one that ends it.
Stays(p) == \E label, got : Goto(p, label, got) /\ Place(label, Cmd(p).op)
Ends(p) == \E ok, answer : Report(p, ok, answer)

\* Going on within a command.
LEMMA GotoIs ==
    ASSUME JobsInv, NEW p \in Procs, NEW label, NEW got, Goto(p, label, got)
    PROVE  /\ UNCHANGED <<case, reports>> /\ Procs' = Procs
           /\ DOMAIN job' = Procs
           /\ job'[p].turn = job[p].turn /\ job'[p].at = label /\ job'[p].got = got
           /\ \A q \in Procs \ {p} : job'[q] = job[q]
BY DEF Goto, JobsInv, Procs

\* The end of a command.
LEMMA ReportIs ==
    ASSUME JobsInv, NEW p \in Procs, NEW ok, NEW answer, Report(p, ok, answer)
    PROVE  /\ UNCHANGED case /\ Procs' = Procs
           /\ DOMAIN job' = Procs /\ DOMAIN reports' = Procs
           /\ job'[p].turn = job[p].turn + 1 /\ job'[p].at = "start"
           /\ \A q \in Procs \ {p} : job'[q] = job[q] /\ reports'[q] = reports[q]
           /\ reports'[p] = Append(reports[p], [ok |-> ok, answer |-> answer])
BY DEF Report, JobsInv, Procs

\* A process that has got further in its command, or has ended it, is where
\* it may be.
LEMMA StayKeeps ==
    ASSUME JobsInv, NEW p \in Procs, Busy(p), Stays(p)
    PROVE  JobsInv'
<1>1. PICK label, got : Goto(p, label, got) /\ Place(label, Cmd(p).op)
  BY DEF Stays
<1>2. Cmd(p)' = Cmd(p) /\ Busy(p)'
  BY <1>1, GotoIs DEF Cmd, Busy
<1>3. ASSUME NEW q \in Procs, q # p
      PROVE  /\ Ready(q)' = Ready(q) /\ Busy(q)' = Busy(q)
             /\ Place(job[q].at, Cmd(q).op)' = Place(job[q].at, Cmd(q).op)
  <2>1. job'[q] = job[q] /\ case' = case
    BY <1>1, <1>3, GotoIs
  <2>2. Ready(q)' = Ready(q) /\ Busy(q)' = Busy(q) /\ Cmd(q)' = Cmd(q)
    BY <2>1 DEF Ready, Busy, Cmd
  <2> QED
    BY <2>1, <2>2 DEF Place, SubmissionPlace, WalletPlace
<1>4. Place(job[p].at, Cmd(p).op)'
  BY <1>1, <1>2, GotoIs DEF Place, SubmissionPlace, WalletPlace
<1> QED
  BY <1>1, <1>2, <1>3, <1>4, GotoIs DEF JobsInv

LEMMA EndKeeps ==
    ASSUME JobsInv, NEW p \in Procs, Ends(p)
    PROVE  JobsInv'
<1>1. PICK ok, answer : Report(p, ok, answer)
  BY DEF Ends
<1>0. /\ UNCHANGED case /\ Procs' = Procs
      /\ DOMAIN job' = Procs /\ DOMAIN reports' = Procs
      /\ job'[p].turn = job[p].turn + 1 /\ job'[p].at = "start"
      /\ \A q \in Procs \ {p} : job'[q] = job[q] /\ reports'[q] = reports[q]
      /\ reports'[p] = Append(reports[p], [ok |-> ok, answer |-> answer])
  BY <1>1, ReportIs, Zenon
<1>2. Ready(p)' /\ job'[p].turn \in Nat \ {0}
  BY <1>0 DEF Ready, JobsInv
<1>3. ASSUME NEW q \in Procs, q # p
      PROVE  /\ Ready(q)' = Ready(q) /\ Busy(q)' = Busy(q)
             /\ Place(job[q].at, Cmd(q).op)' = Place(job[q].at, Cmd(q).op)
  <2>1. job'[q] = job[q] /\ case' = case
    BY <1>0, <1>3
  <2>2. Ready(q)' = Ready(q) /\ Busy(q)' = Busy(q) /\ Cmd(q)' = Cmd(q)
    BY <2>1 DEF Ready, Busy, Cmd
  <2> QED
    BY <2>1, <2>2 DEF Place, SubmissionPlace, WalletPlace
<1>4. IsSeq(reports'[p]) /\ Len(reports'[p]) = job'[p].turn - 1
  BY <1>0, AppendIs DEF JobsInv
<1> QED
  BY <1>1, <1>2, <1>3, <1>4, <1>0 DEF JobsInv

\* Every step of a command that deploys is within it or ends it.
LEMMA SubmissionMoves ==
    ASSUME JobsInv, NEW p \in Procs, SubmissionStep(p)
    PROVE  /\ Busy(p) /\ Cmd(p).op \in Deploying \cup {"deploy"}
           /\ Stays(p) \/ Ends(p)
<1> USE DEF At, Ready, Runs, Busy, Deploying, Offering
<1>0. Ready(p) \/ (Busy(p) /\ Place(job[p].at, Cmd(p).op))
  BY DEF JobsInv
<1>1. CASE Compile(p)
  BY <1>0, <1>1 DEF Compile, Stays, Ends, Fail, Place, SubmissionPlace
<1>2. CASE InspectInput(p)
  BY <1>0, <1>2 DEF InspectInput, Stays, Ends, Fail, Place, SubmissionPlace, WalletPlace
<1>3. CASE ReadIntent(p)
  BY <1>0, <1>3 DEF ReadIntent, Stays, Ends, Fail, Place, SubmissionPlace, WalletPlace
<1>4. CASE ReadSpec(p)
  BY <1>0, <1>4 DEF ReadSpec, Stays, Ends, Fail, Place, SubmissionPlace, WalletPlace
<1>5. CASE Create(p)
  BY <1>0, <1>5 DEF Create, Stays, Ends, Fail, Place, SubmissionPlace, WalletPlace
<1>6. CASE Write(p)
  BY <1>0, <1>6 DEF Write, Stays, Ends, Fail, Succeed, Place, SubmissionPlace, WalletPlace
<1>7. CASE ReadAuth(p)
  BY <1>0, <1>7 DEF ReadAuth, Stays, Ends, Fail, Place, SubmissionPlace, WalletPlace
<1>8. CASE Post(p)
  BY <1>0, <1>8 DEF Post, Stays, Ends, Fail, Place, SubmissionPlace, WalletPlace
<1>9. CASE Answer(p)
  BY <1>0, <1>9 DEF Answer, Stays, Ends, Fail, Succeed, Place, SubmissionPlace, WalletPlace
<1>10. CASE Plan(p)
  BY <1>0, <1>10 DEF Plan, Stays, Ends, Fail, Succeed
<1>11. CASE InspectAuth(p)
  BY <1>0, <1>11 DEF InspectAuth, Stays, Ends, Fail, Place, SubmissionPlace, WalletPlace
<1> QED
  BY <1>1, <1>2, <1>3, <1>4, <1>5, <1>6, <1>7, <1>8, <1>9, <1>10, <1>11 DEF SubmissionStep

\* So is every step of a neuron command.
LEMMA WalletMoves ==
    ASSUME JobsInv, NEW p \in Procs, WalletStep(p)
    PROVE  /\ Busy(p) /\ Cmd(p).op \in Neurons
           /\ Stays(p) \/ Ends(p)
<1> USE DEF At, Ready, Runs, Busy, Neurons, Asking, Changing, Walleting, Fail, Succeed, Ends
<1>0. Ready(p) \/ (Busy(p) /\ Place(job[p].at, Cmd(p).op))
  BY DEF JobsInv
<1>1. CASE Begin(p)
  BY <1>0, <1>1 DEF Begin, Stays, Place, SubmissionPlace, WalletPlace
<1>2. CASE RequireNodeNetwork(p)
  BY <1>0, <1>2 DEF RequireNodeNetwork, Stays, Place, SubmissionPlace, WalletPlace
<1>3. CASE ConfirmedBalance(p)
  BY <1>0, <1>3 DEF ConfirmedBalance, Stays, Place, SubmissionPlace, WalletPlace, Run
<1>4. CASE UnconfirmedBalance(p)
  BY <1>0, <1>4 DEF UnconfirmedBalance, Stays, Place, SubmissionPlace, WalletPlace
<1>5. CASE ListUtxos(p)
  BY <1>0, <1>5 DEF ListUtxos, Stays, Place, SubmissionPlace, WalletPlace, Run
<1>6. CASE NextAddress(p)
  BY <1>0, <1>6 DEF NextAddress, Stays, Place, SubmissionPlace, WalletPlace, Run
<1>7. CASE AddressAtIndex(p)
  BY <1>0, <1>7 DEF AddressAtIndex, Stays, Place, SubmissionPlace, WalletPlace
<1>8. CASE ListKeys(p)
  BY <1>0, <1>8 DEF ListKeys, Stays, Place, SubmissionPlace, WalletPlace
<1>9. CASE Refuse(p)
  BY <1>0, <1>9 DEF Refuse, Stays, Place, SubmissionPlace, WalletPlace
<1>10. CASE ListShown(p)
  BY <1>0, <1>10 DEF ListShown, Stays, Place, SubmissionPlace, WalletPlace
<1>11. CASE LoadHidden(p)
  BY <1>0, <1>11 DEF LoadHidden, Stays, Place, SubmissionPlace, WalletPlace
<1>12. CASE ChangeHidden(p)
  BY <1>0, <1>12 DEF ChangeHidden, Stays, Place, SubmissionPlace, WalletPlace
<1>13. CASE TruncateHidden(p)
  BY <1>0, <1>13 DEF TruncateHidden, Stays, Place, SubmissionPlace, WalletPlace
<1>14. CASE WriteHidden(p)
  BY <1>0, <1>14 DEF WriteHidden, Stays, Place, SubmissionPlace, WalletPlace
<1>15. CASE WhichWallet(p)
  BY <1>0, <1>15 DEF WhichWallet, Stays, Place, SubmissionPlace, WalletPlace, Looks
<1>16. CASE CheckPath(p)
  BY <1>0, <1>16 DEF CheckPath, Stays, Place, SubmissionPlace, WalletPlace
<1>17. CASE NoWallet(p)
  BY <1>0, <1>17 DEF NoWallet, Stays, Place, SubmissionPlace, WalletPlace, MakingWallet
<1>18. CASE MakeWallet(p)
  BY <1>0, <1>18 DEF MakeWallet, Stays, Place, SubmissionPlace, WalletPlace
<1>19. CASE WalletFound(p)
  BY <1>0, <1>19 DEF WalletFound, Stays, Place, SubmissionPlace, WalletPlace, MakingWallet
<1>20. CASE RemoveWallet(p)
  BY <1>0, <1>20 DEF RemoveWallet, Stays, Place, SubmissionPlace, WalletPlace
<1>21. CASE RefuseWords(p)
  BY <1>0, <1>21 DEF RefuseWords, Stays, Place, SubmissionPlace, WalletPlace
<1> QED
  BY <1>1, <1>2, <1>3, <1>4, <1>5, <1>6, <1>7, <1>8, <1>9, <1>10, <1>11,
     <1>12, <1>13, <1>14, <1>15, <1>16, <1>17, <1>18, <1>19, <1>20, <1>21 DEF WalletStep

-----------------------------------------------------------------------------
(* The inductive invariant of the commands that deploy.                    *)

\* The transaction is the intent's, which was admitted.
Exact(tx, from, network) ==
    /\ Prepares(from.program, from.intent, network)
    /\ IsTuple(from.intent.outputs) /\ IsTuple(Kernel(from.intent).outputs)
    /\ tx = Prepare(from.intent)

\* An auth file was private in this version, not later than that one.
Inspected(v, last, versions) == v \in 1 .. last /\ Private(versions[v].auth)

\* The auth file that is used was opened after another or the same was inspected.
Authorized(sent, endpoint, versions) ==
    /\ sent.opened \in Nat
    /\ Inspected(sent.inspected, sent.opened, versions)
    /\ sent.auth = versions[sent.opened].auth
    /\ Binds(sent.auth, sent.tx.network, endpoint)

\* What a command is about to send.
PreparedInv ==
    \A p \in Procs :
        /\ job[p].at \in {"auth", "open", "post"} => Exact(Got(p).tx, Got(p).from, Cmd(p).network)
        /\ At(p, "open") => Inspected(Got(p).inspected, version, case.versions)
        /\ At(p, "post") => Authorized(Got(p), Cmd(p).endpoint, case.versions)

\* What has been sent, by a command that has ended or now waits for the answer.
Sent(i) ==
    LET sent == received[i].sent
        done == received[i].by
        p == done[1]
    IN  /\ done \in Procs \X Nat
        /\ done[2] <= job[p].turn
        /\ done[2] = job[p].turn => At(p, "answer")
        /\ Exact(sent.tx, sent.from, CmdAt(done).network)
        /\ Authorized(sent, CmdAt(done).endpoint, case.versions)

ReceivedInv ==
    /\ \A i \in DOMAIN received : Sent(i)
    /\ \A i, j \in DOMAIN received : received[i].by = received[j].by => i = j

\* A gateway that has accepted, while its answer is awaited.
AcceptedBy(done) == \E i \in DOMAIN received : received[i].by = done /\ received[i].accepted

AnswerInv == \A p \in Procs : At(p, "answer") /\ Got(p) => AcceptedBy(<<p, job[p].turn>>)

\* A file that is being written is of one command.
FileInv ==
    /\ DOMAIN artifacts = case.paths
    /\ \A p \in Procs :
          At(p, "write") =>
              /\ artifacts[Cmd(p).out].state = "partial"
              /\ \A q \in Procs : At(q, "write") /\ Cmd(q).out = Cmd(p).out => q = p

VersionInv == version \in 1 .. Len(case.versions)

SubmissionInv ==
    /\ JobsInv /\ IsSeq(received)
    /\ VersionInv /\ PreparedInv /\ ReceivedInv /\ AnswerInv /\ FileInv
    /\ ReportsAreTrue

\* What a report of a command says.
Kept(cmd, done, answer) ==
    /\ cmd.op = "submit" => AcceptedBy(done)
    /\ cmd.op \in Offering => artifacts[cmd.out] = [state |-> "whole", holds |-> answer]
    /\ cmd.op = "deploy" => cmd.dryRun /\ (answer.proved => cmd.attached = answer.lock)

LEMMA ReportsAre ==
    ReportsAreTrue <=> \A done \in Succeeded : Kept(CmdAt(done), done, AnswerAt(done))
BY DEF ReportsAreTrue, Kept, Offering, AcceptedBy

\* An earlier command of a process is the one it was, and so is its report.
LEMMA DoneIs ==
    ASSUME JobsInv, NEW done \in Procs \X Nat
    PROVE  /\ done[1] \in Procs /\ done[2] \in Nat /\ done = <<done[1], done[2]>>
           /\ done \in Succeeded => done[2] < job[done[1]].turn
<1>1. done[1] \in Procs
  OBVIOUS
<1>2. DOMAIN reports[done[1]] = 1 .. job[done[1]].turn - 1
  BY <1>1, AppendIs DEF JobsInv
<1> QED
  BY <1>1, <1>2 DEF Succeeded, JobsInv

\* Going on within a command adds no report.
LEMMA GotoKeepsReports ==
    ASSUME JobsInv, ReportsAreTrue, NEW p \in Procs, NEW label, NEW got, Goto(p, label, got),
           \A done \in Succeeded : AcceptedBy(done) => AcceptedBy(done)',
           \A done \in Succeeded :
              CmdAt(done).op \in Offering => artifacts'[CmdAt(done).out] = artifacts[CmdAt(done).out]
    PROVE  ReportsAreTrue'
<1>1. Succeeded' = Succeeded /\ \A done \in Succeeded : AnswerAt(done)' = AnswerAt(done) /\ CmdAt(done)' = CmdAt(done)
  BY GotoIs DEF Succeeded, AnswerAt, Reported, CmdAt
<1>2. \A done \in Succeeded : Kept(CmdAt(done), done, AnswerAt(done))'
  BY <1>1, ReportsAre DEF Kept
<1>3. ReportsAreTrue' <=> \A done \in Succeeded' : Kept(CmdAt(done), done, AnswerAt(done))'
  BY DEF ReportsAreTrue, Kept, Offering, AcceptedBy
<1> QED
  BY <1>1, <1>2, <1>3

\* The end of a command adds one.
LEMMA NewReport ==
    ASSUME JobsInv, NEW p \in Procs, NEW ok, NEW answer, Report(p, ok, answer),
           NEW done \in Succeeded'
    PROVE  \/ /\ done \in Succeeded
              /\ AnswerAt(done)' = AnswerAt(done) /\ CmdAt(done)' = CmdAt(done)
           \/ /\ done = <<p, job[p].turn>>
              /\ Reported(done)' = [ok |-> ok, answer |-> answer]
              /\ CmdAt(done)' = Cmd(p)
<1> DEFINE record == [ok |-> ok, answer |-> answer]
<1>1. /\ UNCHANGED case /\ Procs' = Procs
      /\ \A q \in Procs \ {p} : job'[q] = job[q] /\ reports'[q] = reports[q]
      /\ reports'[p] = Append(reports[p], record)
  BY ReportIs, Zenon
<1>2. /\ DOMAIN reports[p] = 1 .. job[p].turn - 1
      /\ DOMAIN reports'[p] = 1 .. job[p].turn
      /\ \A t \in DOMAIN reports[p] : reports'[p][t] = reports[p][t]
      /\ reports'[p][job[p].turn] = record
  <2> HIDE DEF record
  <2>1. /\ Len(reports[p]) = job[p].turn - 1 /\ job[p].turn \in Nat \ {0} /\ IsSeq(reports[p])
    BY DEF JobsInv
  <2> QED
    BY <1>1, <2>1, AppendIs
<1> HIDE DEF record
<1>3. /\ done \in Procs \X (1 .. MaxTurns) /\ done[1] \in Procs /\ done[2] \in 1 .. MaxTurns
      /\ done = <<done[1], done[2]>>
  BY <1>1 DEF Succeeded
<1>4. CASE done[1] = p /\ done[2] = job[p].turn
  BY <1>1, <1>2, <1>3, <1>4 DEF Reported, CmdAt, Cmd, record
<1>5. CASE ~(done[1] = p /\ done[2] = job[p].turn)
  <2>1. reports'[done[1]][done[2]] = reports[done[1]][done[2]] /\ done[2] \in DOMAIN reports[done[1]]
    <3>1. CASE done[1] = p
      BY <1>1, <1>2, <1>3, <1>5, <3>1, CasesAssumption DEF Succeeded, JobsInv
    <3>2. CASE done[1] # p
      BY <1>1, <1>3, <1>5, <3>2 DEF Succeeded
    <3> QED
      BY <3>1, <3>2
  <2> QED
    BY <1>1, <1>3, <2>1 DEF Succeeded, AnswerAt, Reported, CmdAt
<1> QED
  BY <1>4, <1>5

\* It is to be so, if it says that the command has succeeded.
LEMMA SucceedKeepsReports ==
    ASSUME JobsInv, ReportsAreTrue, NEW p \in Procs, NEW answer, Succeed(p, answer),
           NEW cmd, cmd = Cmd(p), NEW now, now = <<p, job[p].turn>>,
           Kept(cmd, now, answer)',
           \A done \in Succeeded : AcceptedBy(done) => AcceptedBy(done)',
           \A done \in Succeeded :
              CmdAt(done).op \in Offering => artifacts'[CmdAt(done).out] = artifacts[CmdAt(done).out]
    PROVE  ReportsAreTrue'
<1>1. Report(p, TRUE, answer)
  BY DEF Succeed
<1>2. \A done \in Succeeded : Kept(CmdAt(done), done, AnswerAt(done))
  BY ReportsAre
<1>3. ASSUME NEW done \in Succeeded' PROVE Kept(CmdAt(done), done, AnswerAt(done))'
  <2>1. CASE done \in Succeeded /\ AnswerAt(done)' = AnswerAt(done) /\ CmdAt(done)' = CmdAt(done)
    BY <1>2, <2>1 DEF Kept
  <2>2. CASE done = now /\ Reported(done)' = [ok |-> TRUE, answer |-> answer] /\ CmdAt(done)' = Cmd(p)
    BY <2>2 DEF Kept, AnswerAt
  <2> QED
    BY <1>1, <2>1, <2>2, NewReport
<1>4. ReportsAreTrue' <=> \A done \in Succeeded' : Kept(CmdAt(done), done, AnswerAt(done))'
  BY DEF ReportsAreTrue, Kept, Offering, AcceptedBy
<1> QED
  BY <1>3, <1>4

LEMMA FailKeepsReports ==
    ASSUME JobsInv, ReportsAreTrue, NEW p \in Procs, Fail(p),
           \A done \in Succeeded : AcceptedBy(done) => AcceptedBy(done)',
           \A done \in Succeeded :
              CmdAt(done).op \in Offering => artifacts'[CmdAt(done).out] = artifacts[CmdAt(done).out]
    PROVE  ReportsAreTrue'
<1>1. Report(p, FALSE, Nothing)
  BY DEF Fail
<1>2. \A done \in Succeeded : Kept(CmdAt(done), done, AnswerAt(done))
  BY ReportsAre
<1>3. ASSUME NEW done \in Succeeded' PROVE Kept(CmdAt(done), done, AnswerAt(done))'
  <2>1. ~(Reported(done)' = [ok |-> FALSE, answer |-> Nothing])
    BY DEF Succeeded, Reported
  <2>2. done \in Succeeded /\ AnswerAt(done)' = AnswerAt(done) /\ CmdAt(done)' = CmdAt(done)
    BY <1>1, <2>1, NewReport
  <2> QED
    BY <1>2, <2>2 DEF Kept
<1>4. ReportsAreTrue' <=> \A done \in Succeeded' : Kept(CmdAt(done), done, AnswerAt(done))'
  BY DEF ReportsAreTrue, Kept, Offering, AcceptedBy
<1> QED
  BY <1>3, <1>4

\* A command gets further without a file being written or a request sent.
LEMMA GotoKeeps ==
    ASSUME SubmissionInv, NEW p \in Procs, NEW label, NEW got, Goto(p, label, got),
           Busy(p), Place(label, Cmd(p).op), UNCHANGED submissionVars,
           ~At(p, "answer"), label \notin {"answer", "write"},
           label \in {"auth", "open", "post"} => Exact(got.tx, got.from, Cmd(p).network),
           label = "open" => Inspected(got.inspected, version, case.versions),
           label = "post" => Authorized(got, Cmd(p).endpoint, case.versions)
    PROVE  SubmissionInv'
<1> USE DEF SubmissionInv
<1>1. /\ UNCHANGED <<case, reports, version, artifacts, received>> /\ Procs' = Procs
      /\ job'[p].turn = job[p].turn /\ job'[p].at = label /\ job'[p].got = got
      /\ \A q \in Procs \ {p} : job'[q] = job[q]
  BY GotoIs DEF submissionVars
<1>2. JobsInv'
  BY StayKeeps DEF Stays
<1>3. VersionInv' /\ IsSeq(received)'
  BY <1>1 DEF VersionInv, IsSeq
<1>4. PreparedInv'
  <2>1. \A q \in Procs : q # p => /\ At(q, "open")' = At(q, "open") /\ At(q, "post")' = At(q, "post")
                                  /\ Got(q)' = Got(q) /\ Cmd(q)' = Cmd(q)
    BY <1>1 DEF At, Got, Cmd
  <2>2. /\ At(p, "open")' = (label = "open") /\ At(p, "post")' = (label = "post")
        /\ Got(p)' = got /\ Cmd(p)' = Cmd(p)
    BY <1>1 DEF At, Got, Cmd
  <2> QED
    BY <1>1, <2>1, <2>2 DEF PreparedInv
<1>5. ReceivedInv'
  <2>1. \A i \in DOMAIN received : Sent(i)'
    BY <1>1 DEF ReceivedInv, Sent, At, CmdAt
  <2> QED
    BY <1>1, <2>1 DEF ReceivedInv
<1>6. AnswerInv'
  BY <1>1 DEF AnswerInv, AcceptedBy, At, Got
<1>7. FileInv'
  <2>1. \A q \in Procs : q # p => At(q, "write")' = At(q, "write") /\ Cmd(q)' = Cmd(q)
    BY <1>1 DEF At, Cmd
  <2>2. ~At(p, "write")'
    BY <1>1 DEF At
  <2> QED
    BY <1>1, <2>1, <2>2 DEF FileInv
<1>8. ReportsAreTrue'
  BY <1>1, GotoKeepsReports DEF AcceptedBy
<1> QED
  BY <1>2, <1>3, <1>4, <1>5, <1>6, <1>7, <1>8

\* A command ends without a file being written or a request sent.
LEMMA EndKeepsRest ==
    ASSUME SubmissionInv, NEW p \in Procs, NEW ok, NEW answer, Report(p, ok, answer),
           UNCHANGED submissionVars
    PROVE  /\ JobsInv' /\ IsSeq(received)'
           /\ VersionInv' /\ PreparedInv' /\ ReceivedInv' /\ AnswerInv' /\ FileInv'
<1> USE DEF SubmissionInv
<1>1. /\ UNCHANGED <<case, version, artifacts, received>> /\ Procs' = Procs
      /\ job'[p].turn = job[p].turn + 1 /\ job'[p].at = "start"
      /\ \A q \in Procs \ {p} : job'[q] = job[q]
  <2>1. UNCHANGED <<version, artifacts, received>>
    BY DEF submissionVars
  <2> QED
    BY <2>1, ReportIs, Zenon
<1>2. JobsInv'
  BY EndKeeps DEF Ends
<1>3. VersionInv' /\ IsSeq(received)'
  BY <1>1 DEF VersionInv, IsSeq
<1>4. PreparedInv'
  <2>1. \A q \in Procs : q # p => At(q, "post")' = At(q, "post") /\ Got(q)' = Got(q) /\ Cmd(q)' = Cmd(q)
    BY <1>1 DEF At, Got, Cmd
  <2> QED
    BY <1>1, <2>1 DEF PreparedInv, At
<1>5. ReceivedInv'
  <2>1. ASSUME NEW i \in DOMAIN received PROVE Sent(i)'
    <3> DEFINE done == received[i].by
    <3>1. Sent(i) /\ done[1] \in Procs /\ done[2] \in Nat /\ job[done[1]].turn \in Nat
      BY DEF ReceivedInv, Sent, JobsInv
    <3>2. CASE done[1] = p
      BY <1>1, <3>1, <3>2 DEF Sent, At, CmdAt
    <3>3. CASE done[1] # p
      BY <1>1, <3>1, <3>3 DEF Sent, At, CmdAt
    <3> QED
      BY <3>2, <3>3
  <2> QED
    BY <1>1, <2>1 DEF ReceivedInv
<1>6. AnswerInv'
  BY <1>1 DEF AnswerInv, AcceptedBy, At, Got
<1>7. FileInv'
  <2>1. \A q \in Procs : q # p => At(q, "write")' = At(q, "write") /\ Cmd(q)' = Cmd(q)
    BY <1>1 DEF At, Cmd
  <2>2. ~At(p, "write")'
    BY <1>1 DEF At
  <2> QED
    BY <1>1, <2>1, <2>2 DEF FileInv
<1> QED
  BY <1>2, <1>3, <1>4, <1>5, <1>6, <1>7

LEMMA SucceedKeeps ==
    ASSUME SubmissionInv, NEW p \in Procs, NEW answer, Succeed(p, answer), UNCHANGED submissionVars,
           Kept(Cmd(p), <<p, job[p].turn>>, answer)
    PROVE  SubmissionInv'
<1> DEFINE cmd == Cmd(p)
           now == <<p, job[p].turn>>
<1>1. Kept(cmd, now, answer) /\ UNCHANGED <<artifacts, received>>
  BY DEF submissionVars
<1>2. ReportsAreTrue'
  BY <1>1, SucceedKeepsReports DEF SubmissionInv, Kept, AcceptedBy
<1> QED
  BY <1>2, EndKeepsRest DEF SubmissionInv, Succeed

LEMMA FailKeeps ==
    ASSUME SubmissionInv, NEW p \in Procs, Fail(p), UNCHANGED submissionVars
    PROVE  SubmissionInv'
<1>1. ReportsAreTrue'
  BY FailKeepsReports DEF SubmissionInv, AcceptedBy, submissionVars
<1> QED
  BY <1>1, EndKeepsRest DEF SubmissionInv, Fail

-----------------------------------------------------------------------------
(* The steps that read, write, send and answer.                            *)

\* An artifact has a place.
LEMMA OutIs ==
    ASSUME JobsInv, NEW p \in Procs, Busy(p), Cmd(p).op \in Offering
    PROVE  Cmd(p).out \in case.paths
<1>1. PICK i \in DOMAIN Cases : case = Cases[i]
  BY DEF JobsInv
<1>2. job[p].turn \in 1 .. Len(case.scripts[p])
  BY <1>1, CasesAssumption DEF JobsInv, Busy, Procs
<1>3. p \in DOMAIN Cases[i].scripts
  BY <1>1 DEF Procs
<1> QED
  BY <1>1, <1>2, <1>3, SubmissionAssumption DEF Cmd, Offering

LEMMA VersionIs == ASSUME JobsInv, VersionInv PROVE version \in Nat \ {0}
<1>1. PICK i \in DOMAIN Cases : case = Cases[i]
  BY DEF JobsInv
<1>2. Len(case.versions) \in Nat
  BY <1>1, SubmissionAssumption
<1> QED
  BY <1>2 DEF VersionInv

\* The outputs of the intent that is read are lists.
LEMMA IntentIs ==
    ASSUME JobsInv, VersionInv, NEW p \in Procs, Busy(p), Cmd(p).op \in {"prepare", "submit"}
    PROVE  LET intent == Files.input.holds
           IN  IsTuple(intent.outputs) /\ IsTuple(Kernel(intent).outputs)
<1>1. PICK i \in DOMAIN Cases : case = Cases[i]
  BY DEF JobsInv
<1>2. job[p].turn \in 1 .. Len(case.scripts[p])
  BY <1>1, CasesAssumption DEF JobsInv, Busy, Procs
<1>3. p \in DOMAIN Cases[i].scripts
  BY <1>1 DEF Procs
<1> QED
  BY <1>1, <1>2, <1>3, SubmissionAssumption DEF Cmd, VersionInv, Files

LEMMA ReadIntentStep ==
    ASSUME SubmissionInv, NEW p \in Procs, ReadIntent(p)
    PROVE  SubmissionInv'
<1> DEFINE intent == Files.input.holds
           got == [tx |-> Prepare(intent), from |-> [program |-> Got(p), intent |-> intent]]
           label == IF Cmd(p).op = "submit" THEN "auth" ELSE "create"
<1> USE DEF SubmissionInv
<1>1. Busy(p) /\ Cmd(p).op \in {"prepare", "submit"} /\ ~At(p, "answer") /\ UNCHANGED submissionVars
  BY SubmissionMoves DEF ReadIntent, SubmissionStep, JobsInv, At, Ready, Place, SubmissionPlace, WalletPlace,
                         Deploying
<1>2. CASE Fail(p)
  BY <1>1, <1>2, FailKeeps
<1>3. CASE Goto(p, label, got) /\ Prepares(Got(p), intent, Cmd(p).network)
  <2>1. IsTuple(intent.outputs) /\ IsTuple(Kernel(intent).outputs)
    BY <1>1, IntentIs
  <2>2. got.tx = Prepare(intent) /\ got.from.program = Got(p) /\ got.from.intent = intent
    OBVIOUS
  <2> HIDE DEF got, intent
  <2>3. Exact(got.tx, got.from, Cmd(p).network)
    BY <1>3, <2>1, <2>2 DEF Exact
  <2>4. Place(label, Cmd(p).op) /\ label \in {"auth", "create"}
    BY <1>1 DEF Place, SubmissionPlace, Offering
  <2> HIDE DEF label
  <2> QED
    BY <1>1, <1>3, <2>3, <2>4, GotoKeeps
<1> QED
  BY <1>2, <1>3 DEF ReadIntent

\* The version that is inspected is known from here on.
LEMMA InspectAuthStep ==
    ASSUME SubmissionInv, NEW p \in Procs, InspectAuth(p)
    PROVE  SubmissionInv'
<1> DEFINE got == [tx |-> Got(p).tx, from |-> Got(p).from, inspected |-> version]
<1> USE DEF SubmissionInv
<1>1. Busy(p) /\ Cmd(p).op = "submit" /\ ~At(p, "answer") /\ UNCHANGED submissionVars
  BY DEF InspectAuth, JobsInv, At, Ready, Place, SubmissionPlace, WalletPlace
<1>2. Exact(Got(p).tx, Got(p).from, Cmd(p).network)
  BY DEF PreparedInv, InspectAuth, At
<1>3. CASE Fail(p)
  BY <1>1, <1>3, FailKeeps
<1>4. CASE Goto(p, "open", got) /\ Private(Files.auth)
  <2>1. got.tx = Got(p).tx /\ got.from = Got(p).from /\ got.inspected = version
    OBVIOUS
  <2> HIDE DEF got
  <2>2. Inspected(got.inspected, version, case.versions)
    BY <1>4, <2>1, VersionIs DEF Inspected, Files
  <2>3. Place("open", Cmd(p).op)
    BY <1>1 DEF Place, SubmissionPlace
  <2> QED
    BY <1>1, <1>2, <1>4, <2>1, <2>2, <2>3, GotoKeeps
<1> QED
  BY <1>3, <1>4 DEF InspectAuth

\* The file that is opened has the version of now.
LEMMA ReadAuthStep ==
    ASSUME SubmissionInv, NEW p \in Procs, ReadAuth(p)
    PROVE  SubmissionInv'
<1> DEFINE got == [tx |-> Got(p).tx, from |-> Got(p).from, auth |-> Files.auth,
                   inspected |-> Got(p).inspected, opened |-> version]
<1> USE DEF SubmissionInv
<1>0. Inspected(Got(p).inspected, version, case.versions)
  BY DEF PreparedInv, ReadAuth
<1>1. Busy(p) /\ Cmd(p).op = "submit" /\ ~At(p, "answer") /\ UNCHANGED submissionVars
  BY DEF ReadAuth, JobsInv, At, Ready, Place, SubmissionPlace, WalletPlace
<1>2. Exact(Got(p).tx, Got(p).from, Cmd(p).network)
  BY DEF PreparedInv, ReadAuth, At
<1>3. CASE Fail(p)
  BY <1>1, <1>3, FailKeeps
<1>4. CASE Goto(p, "post", got) /\ Binds(Files.auth, Got(p).tx.network, Cmd(p).endpoint)
  <2>1. /\ got.tx = Got(p).tx /\ got.from = Got(p).from /\ got.auth = Files.auth
        /\ got.inspected = Got(p).inspected /\ got.opened = version
    OBVIOUS
  <2> HIDE DEF got
  <2>2. Authorized(got, Cmd(p).endpoint, case.versions)
    BY <1>0, <1>4, <2>1, VersionIs DEF Authorized, Files
  <2>3. Place("post", Cmd(p).op)
    BY <1>1 DEF Place, SubmissionPlace
  <2> QED
    BY <1>1, <1>2, <1>4, <2>1, <2>2, <2>3, GotoKeeps
<1> QED
  BY <1>3, <1>4 DEF ReadAuth

\* A file is made where there is none, so no report is about it and no other
\* command writes it.
LEMMA CreateStep ==
    ASSUME SubmissionInv, NEW p \in Procs, Create(p)
    PROVE  SubmissionInv'
<1> DEFINE out == Cmd(p).out
<1> USE DEF SubmissionInv
<1>1. Busy(p) /\ Cmd(p).op \in Offering /\ UNCHANGED <<version, received>>
  BY DEF Create, JobsInv, At, Ready, Place, SubmissionPlace, WalletPlace
<1>2. CASE Fail(p) /\ UNCHANGED artifacts
  BY <1>1, <1>2, FailKeeps DEF submissionVars
<1>3. CASE /\ artifacts[out] = Absent
           /\ artifacts' = [artifacts EXCEPT ![out] = [state |-> "partial"]]
           /\ Goto(p, "write", Got(p))
  <2>1. /\ UNCHANGED <<case, reports, version, received>> /\ Procs' = Procs
        /\ job'[p].turn = job[p].turn /\ job'[p].at = "write"
        /\ \A q \in Procs \ {p} : job'[q] = job[q]
    BY <1>1, <1>3, GotoIs
  <2>2. JobsInv'
    <3>1. Place("write", Cmd(p).op)
      BY <1>1 DEF Place, SubmissionPlace
    <3> QED
      BY <1>1, <1>3, <3>1, StayKeeps DEF Stays
  <2>3. VersionInv' /\ IsSeq(received)'
    BY <2>1 DEF VersionInv, IsSeq
  <2>4. /\ Cmd(p)' = Cmd(p)
        /\ \A q \in Procs : q # p => job'[q] = job[q] /\ Cmd(q)' = Cmd(q)
    BY <2>1 DEF Cmd
  <2>5. PreparedInv'
    BY <2>1, <2>4 DEF PreparedInv, At, Got
  <2>6. ReceivedInv'
    <3>1. \A i \in DOMAIN received : Sent(i)'
      BY <2>1 DEF ReceivedInv, Sent, At, CmdAt, Create
    <3> QED
      BY <2>1, <3>1 DEF ReceivedInv
  <2>7. AnswerInv'
    <3>1. \A q \in Procs : q # p => At(q, "answer")' = At(q, "answer") /\ Got(q)' = Got(q)
      BY <2>4 DEF At, Got
    <3>2. ~At(p, "answer")'
      BY <2>1 DEF At
    <3> QED
      BY <2>1, <2>4, <3>1, <3>2 DEF AnswerInv, AcceptedBy
  <2>8. /\ DOMAIN artifacts' = case.paths
        /\ artifacts'[out].state = "partial"
        /\ \A path \in case.paths \ {out} : artifacts'[path] = artifacts[path]
    BY <1>1, <1>3, OutIs DEF FileInv
  <2>9. artifacts[out].state = "absent"
    BY <1>3 DEF Absent
  <2>10. FileInv'
    <3>1. ASSUME NEW q \in Procs, At(q, "write"), q # p
          PROVE  /\ Cmd(q).out \in case.paths \ {out}
                 /\ artifacts[Cmd(q).out].state = "partial"
      <4>1. Busy(q) /\ Cmd(q).op \in Offering
        BY <3>1 DEF JobsInv, At, Ready, Place, SubmissionPlace, WalletPlace
      <4> QED
        BY <2>9, <3>1, <4>1, OutIs DEF FileInv
    <3>2. \A q \in Procs : q # p => At(q, "write")' = At(q, "write")
      BY <2>4 DEF At
    <3> HIDE DEF out
    <3>3. ASSUME NEW q \in Procs, At(q, "write")'
          PROVE  /\ artifacts'[Cmd(q).out'].state = "partial"
                 /\ \A r \in Procs : At(r, "write")' /\ Cmd(r).out' = Cmd(q).out' => r = q
      <4>1. CASE q = p
        BY <2>4, <2>8, <3>1, <3>2, <4>1 DEF out
      <4>2. CASE q # p
        BY <2>4, <2>8, <3>1, <3>2, <3>3, <4>2 DEF FileInv, out
      <4> QED
        BY <4>1, <4>2
    <3> QED
      BY <2>1, <2>8, <3>3 DEF FileInv
  <2>11. ReportsAreTrue'
    <3>1. ASSUME NEW done \in Succeeded, CmdAt(done).op \in Offering
          PROVE  artifacts'[CmdAt(done).out] = artifacts[CmdAt(done).out]
      <4>0. Kept(CmdAt(done), done, AnswerAt(done))
        BY ReportsAre
      <4>1. artifacts[CmdAt(done).out].state = "whole"
        BY <3>1, <4>0 DEF Kept
      <4> QED
        BY <1>3, <2>9, <4>1
    <3> QED
      BY <1>3, <2>1, <3>1, GotoKeepsReports DEF AcceptedBy
  <2> QED
    BY <2>2, <2>3, <2>5, <2>6, <2>7, <2>10, <2>11
<1> QED
  BY <1>1, <1>2, <1>3 DEF Create

\* What is written is written once, where no report is about it yet.
LEMMA WriteStep ==
    ASSUME SubmissionInv, NEW p \in Procs, Write(p)
    PROVE  SubmissionInv'
<1> DEFINE out == Cmd(p).out
           whole == [state |-> "whole", holds |-> Got(p)]
<1> USE DEF SubmissionInv
<1>1. Busy(p) /\ Cmd(p).op \in Offering /\ At(p, "write") /\ UNCHANGED <<version, received>>
  BY DEF Write, JobsInv, At, Ready, Place, SubmissionPlace, WalletPlace
<1>2. CASE Fail(p) /\ UNCHANGED artifacts
  BY <1>1, <1>2, FailKeeps DEF submissionVars
<1>3. CASE /\ artifacts' = [artifacts EXCEPT ![out] = whole]
           /\ Succeed(p, Got(p))
  <2>1. /\ UNCHANGED <<case, version, received>> /\ Procs' = Procs
        /\ job'[p].turn = job[p].turn + 1 /\ job'[p].at = "start"
        /\ \A q \in Procs \ {p} : job'[q] = job[q]
    BY <1>1, <1>3, ReportIs, Zenon DEF Succeed
  <2>2. JobsInv'
    BY <1>3, EndKeeps DEF Ends, Succeed
  <2>3. VersionInv' /\ IsSeq(received)'
    BY <2>1 DEF VersionInv, IsSeq
  <2>4. \A q \in Procs : q # p => /\ Cmd(q)' = Cmd(q) /\ Got(q)' = Got(q)
                                  /\ \A label : At(q, label)' = At(q, label)
    BY <2>1 DEF Cmd, Got, At
  <2>5. PreparedInv'
    BY <2>1, <2>4 DEF PreparedInv, At
  <2>6. ReceivedInv'
    <3>1. ASSUME NEW i \in DOMAIN received PROVE Sent(i)'
      <4> DEFINE done == received[i].by
      <4>1. Sent(i) /\ done[1] \in Procs /\ done[2] \in Nat /\ job[done[1]].turn \in Nat
        BY DEF ReceivedInv, Sent, JobsInv
      <4>2. CASE done[1] = p
        BY <2>1, <4>1, <4>2 DEF Sent, At, CmdAt
      <4>3. CASE done[1] # p
        BY <2>1, <4>1, <4>3 DEF Sent, At, CmdAt
      <4> QED
        BY <4>2, <4>3
    <3> QED
      BY <2>1, <3>1 DEF ReceivedInv
  <2>7. AnswerInv'
    BY <2>1, <2>4 DEF AnswerInv, AcceptedBy, At
  <2>8. /\ DOMAIN artifacts' = case.paths
        /\ artifacts'[out] = whole
        /\ \A path \in case.paths \ {out} : artifacts'[path] = artifacts[path]
    BY <1>1, <1>3, OutIs DEF FileInv
  <2>9. artifacts[out].state = "partial"
    BY <1>1 DEF FileInv
  <2>10. FileInv'
    <3>1. ASSUME NEW q \in Procs, At(q, "write"), q # p
          PROVE  Cmd(q).out \in case.paths \ {out}
      <4>1. Busy(q) /\ Cmd(q).op \in Offering
        BY <3>1 DEF JobsInv, At, Ready, Place, SubmissionPlace, WalletPlace
      <4> QED
        BY <1>1, <3>1, <4>1, OutIs DEF FileInv
    <3>2. ~At(p, "write")'
      BY <2>1 DEF At
    <3> HIDE DEF out, whole
    <3> QED
      BY <2>1, <2>4, <2>8, <3>1, <3>2 DEF FileInv
  <2>11. ReportsAreTrue'
    <3>1. ASSUME NEW done \in Succeeded, CmdAt(done).op \in Offering
          PROVE  artifacts'[CmdAt(done).out] = artifacts[CmdAt(done).out]
      <4>0. Kept(CmdAt(done), done, AnswerAt(done))
        BY ReportsAre
      <4>1. artifacts[CmdAt(done).out].state = "whole"
        BY <3>1, <4>0 DEF Kept
      <4> QED
        BY <1>3, <2>9, <4>1
    <3>2. PICK cmd : cmd = Cmd(p)
      OBVIOUS
    <3>3. PICK answer : answer = Got(p)
      OBVIOUS
    <3>4. PICK now : now = <<p, job[p].turn>>
      OBVIOUS
    <3>5. Kept(cmd, now, answer)'
      BY <1>1, <2>8, <3>2, <3>3 DEF Kept, Offering
    <3> QED
      BY <1>3, <2>1, <3>1, <3>2, <3>3, <3>4, <3>5, SucceedKeepsReports DEF AcceptedBy
  <2> QED
    BY <2>2, <2>3, <2>5, <2>6, <2>7, <2>10, <2>11
<1> QED
  BY <1>1, <1>2, <1>3 DEF Write

\* A command sends one request, the one that it has prepared.
LEMMA PostStep ==
    ASSUME SubmissionInv, NEW p \in Procs, Post(p)
    PROVE  SubmissionInv'
<1> USE DEF SubmissionInv
<1>1. Busy(p) /\ Cmd(p).op = "submit" /\ At(p, "post") /\ UNCHANGED <<version, artifacts>>
  BY DEF Post, JobsInv, At, Ready, Place, SubmissionPlace, WalletPlace
<1>2. CASE Fail(p) /\ UNCHANGED received
  BY <1>1, <1>2, FailKeeps DEF submissionVars
<1>3. ASSUME NEW accepted \in BOOLEAN,
             received' = Append(received, [by |-> <<p, job[p].turn>>, sent |-> Got(p), accepted |-> accepted]),
             Goto(p, "answer", accepted)
      PROVE  SubmissionInv'
  <2>01. PICK request : request = [by |-> <<p, job[p].turn>>, sent |-> Got(p), accepted |-> accepted]
    OBVIOUS
  <2>02. PICK new : new = Len(received) + 1
    OBVIOUS
  <2>1. /\ UNCHANGED <<case, reports, version, artifacts>> /\ Procs' = Procs
        /\ job'[p].turn = job[p].turn /\ job'[p].at = "answer" /\ job'[p].got = accepted
        /\ \A q \in Procs \ {p} : job'[q] = job[q]
    BY <1>1, <1>3, GotoIs
  <2>2. JobsInv'
    <3>1. Place("answer", Cmd(p).op)
      BY <1>1 DEF Place, SubmissionPlace
    <3> QED
      BY <1>1, <1>3, <3>1, StayKeeps DEF Stays
  <2>3. /\ IsSeq(received')
        /\ DOMAIN received' = DOMAIN received \cup {new} /\ new \notin DOMAIN received
        /\ \A i \in DOMAIN received : received'[i] = received[i]
        /\ received'[new] = request
    <3>1. received' = Append(received, request) /\ IsSeq(received)
      BY <1>3, <2>01
    <3>2. /\ IsSeq(received') /\ Len(received) \in Nat
          /\ DOMAIN received = 1 .. Len(received) /\ DOMAIN received' = 1 .. Len(received) + 1
          /\ \A i \in DOMAIN received : received'[i] = received[i]
          /\ received'[new] = request
      BY <2>02, <3>1, AppendIs
    <3> QED
      BY <2>02, <3>2
  <2>4. VersionInv'
    BY <2>1 DEF VersionInv
  <2>5. \A q \in Procs : q # p => /\ Cmd(q)' = Cmd(q) /\ Got(q)' = Got(q)
                                  /\ \A label : At(q, label)' = At(q, label)
    BY <2>1 DEF Cmd, Got, At
  <2>6. Cmd(p)' = Cmd(p) /\ CmdAt(request.by)' = Cmd(p)
    BY <2>01, <2>1 DEF Cmd, CmdAt
  <2>7. PreparedInv'
    BY <2>1, <2>5 DEF PreparedInv, At
  <2>8. /\ request.by = <<p, job[p].turn>> /\ request.sent = Got(p) /\ request.accepted = accepted
        /\ request.by[1] = p /\ request.by[2] = job[p].turn
    BY <2>01
  <2>9. ASSUME NEW i \in DOMAIN received PROVE Sent(i)' /\ received[i].by # request.by
    <3> DEFINE done == received[i].by
    <3>1. Sent(i) /\ done[1] \in Procs /\ done[2] \in Nat /\ job[done[1]].turn \in Nat
      BY DEF ReceivedInv, Sent, JobsInv
    <3>2. ~At(p, "answer")
      BY <1>1 DEF At
    <3>3. received'[i] = received[i]
      BY <2>3
    <3>4. CASE done[1] = p
      BY <2>1, <2>8, <3>1, <3>2, <3>3, <3>4 DEF Sent, At, CmdAt
    <3>5. CASE done[1] # p
      BY <2>1, <2>8, <3>1, <3>3, <3>5 DEF Sent, At, CmdAt
    <3> QED
      BY <3>4, <3>5
  <2>10. Sent(new)'
    <3>1. /\ Exact(Got(p).tx, Got(p).from, Cmd(p).network)
          /\ Authorized(Got(p), Cmd(p).endpoint, case.versions)
      BY <1>1 DEF PreparedInv, At
    <3>2. job[p].turn \in Nat /\ request.by \in Procs \X Nat
      BY <2>8 DEF JobsInv
    <3>3. received'[new] = request
      BY <2>3
    <3> QED
      BY <2>1, <2>6, <2>8, <3>1, <3>2, <3>3 DEF Sent, At
  <2>11. ReceivedInv'
    BY <2>3, <2>9, <2>10 DEF ReceivedInv
  <2>12. AnswerInv'
    <3>1. ASSUME accepted PROVE AcceptedBy(<<p, job[p].turn>>)'
      <4>1. received'[new].by = <<p, job'[p].turn>> /\ new \in DOMAIN received'
        BY <2>1, <2>3, <2>8
      <4>2. received'[new].accepted
        BY <2>3, <2>8, <3>1
      <4> QED
        BY <4>1, <4>2 DEF AcceptedBy
    <3>2. ASSUME NEW q \in Procs, q # p, AcceptedBy(<<q, job[q].turn>>)
          PROVE  AcceptedBy(<<q, job[q].turn>>)'
      <4>1. job'[q].turn = job[q].turn
        BY <2>1, <3>2
      <4>2. PICK i \in DOMAIN received : received[i].by = <<q, job[q].turn>> /\ received[i].accepted
        BY <3>2 DEF AcceptedBy
      <4>3. i \in DOMAIN received' /\ received'[i] = received[i]
        BY <2>3
      <4> QED
        BY <4>1, <4>2, <4>3 DEF AcceptedBy
    <3>3. ASSUME NEW q \in Procs, At(q, "answer")', Got(q)'
          PROVE  AcceptedBy(<<q, job[q].turn>>)'
      <4>1. CASE q = p
        BY <2>1, <3>1, <3>3, <4>1, Zenon DEF Got
      <4>2. CASE q # p
        BY <2>5, <3>2, <3>3, <4>2, Zenon DEF AnswerInv
      <4> QED
        BY <4>1, <4>2
    <3>4. \A q \in Procs' : At(q, "answer")' /\ Got(q)' => AcceptedBy(<<q, job[q].turn>>)'
      BY <2>1, <3>3
    <3> QED
      BY <3>4, Zenon DEF AnswerInv
  <2>13. FileInv'
    <3>1. ~At(p, "write")'
      BY <2>1 DEF At
    <3> QED
      BY <2>1, <2>5, <3>1 DEF FileInv
  <2>14. ReportsAreTrue'
    <3>1. \A done \in Succeeded : AcceptedBy(done) => AcceptedBy(done)'
      BY <2>3 DEF AcceptedBy
    <3> QED
      BY <1>3, <2>1, <3>1, GotoKeepsReports
  <2> QED
    BY <2>2, <2>3, <2>4, <2>7, <2>11, <2>12, <2>13, <2>14
<1> QED
  BY <1>2, <1>3 DEF Post

\* A gateway that confirms has accepted.
LEMMA AnswerStep ==
    ASSUME SubmissionInv, NEW p \in Procs, Answer(p)
    PROVE  SubmissionInv'
<1> USE DEF SubmissionInv
<1>1. Cmd(p).op = "submit" /\ At(p, "answer") /\ UNCHANGED submissionVars
  BY DEF Answer, JobsInv, At, Ready, Place, SubmissionPlace, WalletPlace
<1>2. CASE Fail(p)
  BY <1>1, <1>2, FailKeeps
<1>3. ASSUME NEW reply \in Replies(Got(p)), Confirms(reply), Succeed(p, "gateway_accepted")
      PROVE  SubmissionInv'
  <2>1. Got(p)
    BY <1>3 DEF Replies, Confirms
  <2>2. AcceptedBy(<<p, job[p].turn>>)
    BY <1>1, <2>1, Zenon DEF AnswerInv
  <2>3. Kept(Cmd(p), <<p, job[p].turn>>, "gateway_accepted")
    BY <1>1, <2>2 DEF Kept, Offering
  <2> QED
    BY <1>1, <1>3, <2>3, SucceedKeeps
<1> QED
  BY <1>2, <1>3 DEF Answer

LEMMA PlanStep ==
    ASSUME SubmissionInv, NEW p \in Procs, Plan(p)
    PROVE  SubmissionInv'
<1> DEFINE attached == Cmd(p).attached
           plan == [lock |-> Hash(Files.program), proved |-> attached # NoProof]
<1>1. Cmd(p).op = "deploy" /\ UNCHANGED submissionVars
  BY DEF Plan, Runs
<1>2. CASE Fail(p)
  BY <1>1, <1>2, FailKeeps
<1>3. CASE Inspects(Files.program, attached) /\ Cmd(p).dryRun /\ Succeed(p, plan)
  <2>1. plan.proved => attached = plan.lock
    BY <1>3 DEF Inspects
  <2> HIDE DEF plan
  <2>2. Kept(Cmd(p), <<p, job[p].turn>>, plan)
    BY <1>1, <1>3, <2>1 DEF Kept, Offering
  <2> QED
    BY <1>1, <1>3, <2>2, SucceedKeeps
<1> QED
  BY <1>2, <1>3 DEF Plan

\* Neuron commands are about something else.
LEMMA NeuronStep ==
    ASSUME SubmissionInv, NEW p \in Procs, WalletStep(p), UNCHANGED submissionVars
    PROVE  SubmissionInv'
<1> USE DEF SubmissionInv
<1>1. Busy(p) /\ Cmd(p).op \in Neurons /\ (Stays(p) \/ Ends(p))
  BY WalletMoves
<1>2. Cmd(p).op \notin Offering \cup {"submit", "deploy"} \cup Deploying
  BY <1>1 DEF Neurons, Asking, Changing, Walleting, Offering, Deploying
<1>3. ~At(p, "answer")
  BY <1>2 DEF JobsInv, At, Ready, Place, SubmissionPlace, WalletPlace
<1>4. CASE Stays(p)
  <2>1. PICK label, got : Goto(p, label, got) /\ Place(label, Cmd(p).op)
    BY <1>4 DEF Stays
  <2>2. label \notin {"auth", "open", "post", "answer", "write"}
    BY <1>2, <2>1 DEF Place, SubmissionPlace, WalletPlace
  <2> QED
    BY <1>1, <1>3, <2>1, <2>2, GotoKeeps
<1>5. CASE Ends(p)
  <2>1. PICK ok, answer : Report(p, ok, answer)
    BY <1>5 DEF Ends
  <2>2. ASSUME NEW done \in Succeeded' PROVE Kept(CmdAt(done), done, AnswerAt(done))'
    <3>1. CASE done \in Succeeded /\ AnswerAt(done)' = AnswerAt(done) /\ CmdAt(done)' = CmdAt(done)
      BY <3>1, ReportsAre DEF Kept, AcceptedBy, submissionVars
    <3>2. CASE CmdAt(done)' = Cmd(p)
      BY <1>2, <3>2 DEF Kept
    <3> QED
      BY <2>1, <3>1, <3>2, NewReport
  <2>3. ReportsAreTrue' <=> \A done \in Succeeded' : Kept(CmdAt(done), done, AnswerAt(done))'
    BY DEF ReportsAreTrue, Kept, Offering, AcceptedBy
  <2> QED
    BY <2>1, <2>2, <2>3, EndKeepsRest
<1> QED
  BY <1>1, <1>4, <1>5

\* The user saves the next version, or the node is moved.
LEMMA OutsideStep ==
    ASSUME SubmissionInv, UNCHANGED <<jobVars, artifacts, received>>,
           version' = version \/ Save
    PROVE  SubmissionInv'
<1> USE DEF SubmissionInv
<1>1. UNCHANGED <<case, job, reports, artifacts, received>> /\ Procs' = Procs
  BY DEF jobVars, Procs
<1>2. JobsInv' /\ IsSeq(received)'
  <2>1. \A p \in Procs : Ready(p)' = Ready(p) /\ Busy(p)' = Busy(p) /\ Cmd(p)' = Cmd(p)
    BY <1>1 DEF Ready, Busy, Cmd
  <2>2. \A p \in Procs : Place(job[p].at, Cmd(p).op)' = Place(job[p].at, Cmd(p).op)
    BY <1>1, <2>1 DEF Place, SubmissionPlace, WalletPlace
  <2>3. JobsInv'
    BY <1>1, <2>1, <2>2 DEF JobsInv, IsSeq
  <2> QED
    BY <1>1, <2>3 DEF IsSeq
<1>3. VersionInv'
  <2>1. PICK i \in DOMAIN Cases : case = Cases[i]
    BY DEF JobsInv
  <2>2. Len(case.versions) \in Nat
    BY <2>1, SubmissionAssumption
  <2> QED
    BY <1>1, <2>2 DEF VersionInv, Save
<1>4. PreparedInv'
  <2>1. version \in Nat /\ (version' = version \/ version' = version + 1)
    BY VersionIs DEF Save
  <2>2. \A v : Inspected(v, version, case.versions) => Inspected(v, version', case.versions)
    BY <2>1 DEF Inspected
  <2> QED
    BY <1>1, <2>2 DEF PreparedInv, At, Got, Cmd
<1>5. ReceivedInv'
  <2>1. \A i \in DOMAIN received : Sent(i)' = Sent(i)
    BY <1>1 DEF Sent, At, CmdAt
  <2> QED
    BY <1>1, <2>1 DEF ReceivedInv
<1>6. AnswerInv'
  BY <1>1 DEF AnswerInv, AcceptedBy, At, Got
<1>7. FileInv'
  BY <1>1 DEF FileInv, At, Cmd
<1>8. ReportsAreTrue'
  <2>1. Succeeded' = Succeeded
    BY <1>1 DEF Succeeded, Reported
  <2>2. \A done : CmdAt(done)' = CmdAt(done) /\ AnswerAt(done)' = AnswerAt(done)
    BY <1>1 DEF CmdAt, AnswerAt, Reported
  <2> QED
    BY <1>1, <2>1, <2>2 DEF ReportsAreTrue
<1> QED
  BY <1>2, <1>3, <1>4, <1>5, <1>6, <1>7, <1>8

LEMMA SubmissionInvInit == Init => SubmissionInv
<1> SUFFICES ASSUME Init PROVE SubmissionInv
  OBVIOUS
<1> USE DEF Init, JobsInit, SubmissionInit
<1>1. PICK i \in DOMAIN Cases : case = Cases[i]
  OBVIOUS
<1>2. JobsInv /\ IsSeq(received) /\ DOMAIN received = {}
  BY <1>1, EmptyIs DEF JobsInv, Procs, Ready
<1>3. VersionInv
  BY <1>1, SubmissionAssumption DEF VersionInv
<1>4. \A p \in Procs : job[p].at = "start"
  BY DEF Procs
<1>5. PreparedInv /\ AnswerInv /\ FileInv
  BY <1>4 DEF PreparedInv, AnswerInv, FileInv, At
<1>6. ReceivedInv
  BY <1>2 DEF ReceivedInv
<1>7. Succeeded = {}
  BY EmptyIs DEF Succeeded, Procs
<1>8. ReportsAreTrue
  BY <1>7 DEF ReportsAreTrue
<1> QED
  BY <1>2, <1>3, <1>5, <1>6, <1>8 DEF SubmissionInv

LEMMA SubmissionInvStep == SubmissionInv /\ [Next]_vars => SubmissionInv'
<1> SUFFICES ASSUME SubmissionInv, [Next]_vars PROVE SubmissionInv'
  OBVIOUS
<1>1. ASSUME NEW p \in Procs, SubmissionStep(p) PROVE SubmissionInv'
  <2>1. CASE Compile(p)
    <3>1. UNCHANGED submissionVars /\ (Fail(p) \/ Goto(p, "inspect", Files.program))
      BY <2>1 DEF Compile
    <3>2. Busy(p) /\ Place("inspect", Cmd(p).op) /\ ~At(p, "answer")
      BY <2>1 DEF Compile, Runs, Busy, Place, SubmissionPlace, At, Ready
    <3> QED
      BY <3>1, <3>2, FailKeeps, GotoKeeps
  <2>2. CASE InspectInput(p)
    <3>1. UNCHANGED submissionVars /\ (Fail(p) \/ Goto(p, "read", Got(p)))
      BY <2>2 DEF InspectInput
    <3>2. Busy(p) /\ Place("read", Cmd(p).op) /\ ~At(p, "answer")
      BY <2>2 DEF InspectInput, SubmissionInv, JobsInv, Place, SubmissionPlace, WalletPlace, At, Ready
    <3> QED
      BY <3>1, <3>2, FailKeeps, GotoKeeps
  <2>3. CASE ReadSpec(p)
    <3>1. UNCHANGED submissionVars /\ (Fail(p) \/ \E got : Goto(p, "create", got))
      BY <2>3 DEF ReadSpec
    <3>2. Busy(p) /\ Place("create", Cmd(p).op) /\ ~At(p, "answer")
      BY <2>3 DEF ReadSpec, SubmissionInv, JobsInv, Place, SubmissionPlace, WalletPlace, At, Ready, Offering
    <3> QED
      BY <3>1, <3>2, FailKeeps, GotoKeeps
  <2> QED
    BY <1>1, <2>1, <2>2, <2>3, ReadIntentStep, InspectAuthStep, ReadAuthStep, CreateStep, WriteStep,
       PostStep, AnswerStep, PlanStep DEF SubmissionStep
<1>2. ASSUME NEW p \in Procs, Kill(p) PROVE SubmissionInv'
  BY <1>2, FailKeeps DEF Kill
<1>3. CASE UNCHANGED vars
  BY <1>3, OutsideStep DEF vars, submissionVars
<1>4. CASE Save /\ UNCHANGED walletVars
  BY <1>4, OutsideStep DEF Save
<1>5. ASSUME NEW n, MoveNode(n), UNCHANGED submissionVars PROVE SubmissionInv'
  BY <1>5, OutsideStep DEF MoveNode, submissionVars
<1> QED
  BY <1>1, <1>2, <1>3, <1>4, <1>5, NeuronStep DEF Next, Step

\* What was admitted describes the transaction that it carries.
LEMMA ExactIs ==
    ASSUME NEW tx, NEW from, NEW network, Exact(tx, from, network)
    PROVE  LET kernel == tx.request.of.kernel
           IN  /\ Canonical(tx.request)
               /\ from.intent.expected = Spelled(MastHash(kernel))
               /\ \A k \in DOMAIN kernel.outputs : Described(kernel.outputs[k], from.intent)
               /\ \E k \in DOMAIN kernel.outputs : kernel.outputs[k].utxo.lock = Hash(from.program)
               /\ tx.request.of.proof.claim = TransactionClaim(MastHash(kernel))
               /\ ~kernel.coinbase /\ kernel.fee >= 0
               /\ from.intent.network = network /\ tx.network = network
<1> DEFINE intent == from.intent
           kernel == Kernel(intent)
<1> USE DEF Exact, Prepares
<1>1. /\ tx.request = Spelled(Decoded(intent.transaction))
      /\ tx.network = intent.network
  BY DEF Prepare
<1>2. Canonical(tx.request) /\ tx.request.of = Decoded(intent.transaction)
  BY <1>1 DEF Canonical, Spelled, Decoded
<1>3. tx.request.of.kernel = kernel /\ tx.request.of.proof = Proof(intent)
  BY <1>2 DEF Kernel, Proof
<1>4. intent.expected = Spelled(MastHash(kernel)) /\ Decoded(intent.expected) = MastHash(kernel)
  BY DEF KernelExpected, Canonical
<1>5. DOMAIN kernel.outputs = DOMAIN intent.outputs
  BY DEF IsTuple, DescribesEvery
<1>6. \A k \in DOMAIN kernel.outputs : Explains(intent.outputs[k], kernel.outputs[k], from.program)
  BY <1>5 DEF OutputsExplained
<1>7. \A k \in DOMAIN kernel.outputs : Described(kernel.outputs[k], intent)
  BY <1>5, <1>6 DEF Explains, Described, Decoded
<1>8. \E k \in DOMAIN kernel.outputs : kernel.outputs[k].utxo.lock = Hash(from.program)
  <2>1. PICK k \in DOMAIN intent.outputs : intent.outputs[k].compiledLock
    BY DEF LockedByProgram
  <2>2. /\ Decoded(intent.outputs[k].utxo).lock = Hash(from.program)
        /\ kernel.outputs[k].utxo = Decoded(intent.outputs[k].utxo)
    <3> HIDE DEF intent, kernel
    <3>1. Explains(intent.outputs[k], kernel.outputs[k], from.program)
      BY <1>5, <1>6, <2>1
    <3>2. PICK output, record : output = intent.outputs[k] /\ record = kernel.outputs[k]
      OBVIOUS
    <3>3. Decoded(output.utxo).lock = Hash(from.program)
      BY <2>1, <3>1, <3>2 DEF Explains
    <3>4. record = [utxo |-> Decoded(output.utxo), sender |-> Decoded(output.sender),
                    receiver |-> Decoded(output.receiver)]
      BY <3>1, <3>2 DEF Explains, Commit
    <3>5. record.utxo = Decoded(output.utxo)
      BY <3>4
    <3> QED
      BY <3>2, <3>3, <3>5
  <2> QED
    BY <1>5, <2>1, <2>2
<1>9. /\ Proof(intent).claim = TransactionClaim(MastHash(kernel))
      /\ ~kernel.coinbase /\ kernel.fee >= 0 /\ intent.network = network
  BY <1>4 DEF Proven, Verifies, OrdinaryPayment, BoundTo
<1> QED
  BY <1>1, <1>2, <1>3, <1>4, <1>7, <1>8, <1>9

LEMMA SentIsExact == SubmissionInv => SubmissionIsExact
<1> SUFFICES ASSUME SubmissionInv PROVE SubmissionIsExact
  OBVIOUS
<1>1. ASSUME NEW i \in DOMAIN received
      PROVE  LET tx == received[i].sent.tx
                 kernel == tx.request.of.kernel
                 intent == received[i].sent.from.intent
                 auth == received[i].sent.auth
                 inspected == received[i].sent.inspected
                 cmd == CmdAt(received[i].by)
             IN  /\ Canonical(tx.request)
                 /\ intent.expected = Spelled(MastHash(kernel))
                 /\ \A k \in DOMAIN kernel.outputs : Described(kernel.outputs[k], intent)
                 /\ \E k \in DOMAIN kernel.outputs :
                       kernel.outputs[k].utxo.lock = Hash(received[i].sent.from.program)
                 /\ tx.request.of.proof.claim = TransactionClaim(MastHash(kernel))
                 /\ ~kernel.coinbase /\ kernel.fee >= 0
                 /\ {intent.network, auth.network} = {cmd.network}
                 /\ auth.endpoint = cmd.endpoint
                 /\ Private(case.versions[inspected].auth)
                 /\ Private(auth) \/ inspected < received[i].sent.opened
                 /\ \A j \in DOMAIN received : received[j].by = received[i].by => j = i
  <2>1. Exact(received[i].sent.tx, received[i].sent.from, CmdAt(received[i].by).network)
        /\ Authorized(received[i].sent, CmdAt(received[i].by).endpoint, case.versions)
    BY DEF Sent, SubmissionInv, ReceivedInv
  <2>2. \A j \in DOMAIN received : received[j].by = received[i].by => j = i
    BY DEF SubmissionInv, ReceivedInv
  <2>3. PICK tx, from, auth, cmd :
            /\ tx = received[i].sent.tx /\ from = received[i].sent.from
            /\ auth = received[i].sent.auth /\ cmd = CmdAt(received[i].by)
    OBVIOUS
  <2>4. Exact(tx, from, cmd.network)
    BY <2>1, <2>3
  <2>5. /\ {from.intent.network, auth.network} = {cmd.network}
        /\ auth.endpoint = cmd.endpoint
    <3>1. from.intent.network = cmd.network /\ tx.network = cmd.network
      BY <2>4, ExactIs
    <3> QED
      BY <2>1, <2>3, <3>1 DEF Authorized, Binds
  <2>7. /\ Private(case.versions[received[i].sent.inspected].auth)
        /\ Private(auth) \/ received[i].sent.inspected < received[i].sent.opened
    BY <2>1, <2>3 DEF Authorized, Inspected
  <2>6. LET kernel == tx.request.of.kernel
        IN  /\ Canonical(tx.request)
            /\ from.intent.expected = Spelled(MastHash(kernel))
            /\ \A k \in DOMAIN kernel.outputs : Described(kernel.outputs[k], from.intent)
            /\ \E k \in DOMAIN kernel.outputs : kernel.outputs[k].utxo.lock = Hash(from.program)
            /\ tx.request.of.proof.claim = TransactionClaim(MastHash(kernel))
            /\ ~kernel.coinbase /\ kernel.fee >= 0
    BY <2>4, ExactIs, Zenon
  <2> QED
    BY <2>2, <2>3, <2>5, <2>6, <2>7, Zenon
<1> QED
  BY <1>1, Zenon DEF SubmissionIsExact

-----------------------------------------------------------------------------
\* However the commands of any number of processes interleave, and whenever the
\* user saves the files, what they need to go on holds (cli/deploy/transaction.rs,
\* neptune/transport.rs).
THEOREM SubmissionIsSound == Spec => []SubmissionInv
BY SubmissionInvInit, SubmissionInvStep, PTL DEF Spec

\* Every request that a gateway receives is the canonical form of one
\* transaction that an intent, as it was read once, describes in full, with one
\* output locked by the compiled program; it goes where the auth file says, on
\* the selected network, after a private file was inspected, which is the one
\* used unless the user has saved in between; and a command sends one
\* (validated, prepare and submit in cli/deploy/transaction.rs, from_file and
\* submit in neptune/transport.rs).
THEOREM RequestsAreExact == Spec => []SubmissionIsExact
BY SubmissionIsSound, SentIsExact, PTL

\* What the commands that deploy report is so for ever: an accepted request
\* of this command, a whole file that nothing replaces, a plan for the program
\* that the attached proof is about.
THEOREM ReportsStayTrue == Spec => []ReportsAreTrue
<1>1. SubmissionInv => ReportsAreTrue
  BY DEF SubmissionInv
<1> QED
  BY <1>1, SubmissionIsSound, PTL

-----------------------------------------------------------------------------
(* The neuron commands: what a process knows where it is, and the list     *)
(* of hidden addresses of each network.                                    *)

TablesInv ==
    /\ issued \in [Networks -> 0 .. MaxIndex]
    /\ DOMAIN hidden = Networks /\ DOMAIN asked = Networks
    /\ torn \in BOOLEAN

\* A command that has looked at the node asks one on its network, until the
\* node is moved.
Settled(p, label, got) ==
    p \notin moved =>
        /\ label \in {"balance", "boxes", "add", "list", "unconfirmed"} => node = Selected(p)
        /\ label = "unconfirmed" => got = Selected(p)

\* The addresses handed out in the window that was asked for.
Window(cmd, last) == {<<cmd.network, i>> : i \in {i \in 0 .. last : i - cmd.start \in 0 .. cmd.limit - 1}}

Listed(p, label, got) ==
    label = "filter" =>
        /\ got.of = {Selected(p)}
        /\ got.settled => got.keys = Window(Cmd(p), got.last)

\* The wallet of the network, in the selected data directory.
Own(p, place) == place[2] = Selected(p) /\ (case.dataDir => place[1] = DataDir)

\* A second look is at a wallet whose removal has been confirmed.
Meant(p, label, got) ==
    /\ label = "again" /\ Cmd(p).op = "remove" => Cmd(p).confirm
    /\ label \in {"check", "none", "found"} /\ Cmd(p).op = "remove" /\ got.first # <<>> => Cmd(p).confirm
    /\ label = "found" => Own(p, got.place)
    /\ label = "delete" => Cmd(p).confirm /\ Own(p, got)

Knows(p, label, got) == Settled(p, label, got) /\ Listed(p, label, got) /\ Meant(p, label, got)

KnowsInv == \A p \in Procs : Knows(p, job[p].at, job[p].got)

\* One command at a time on the list of a network, and the list is what has
\* been asked for but while it is written again.
Loaded(p, label, got) ==
    /\ label = "change" => got = asked[Selected(p)]
    /\ label \in {"truncate", "rewrite"} => got = Changed(Cmd(p).op, asked[Selected(p)], Cmd(p).entry)

Alone ==
    /\ \A p, q \in Procs : Writing(p) /\ Writing(q) /\ Selected(p) = Selected(q) => p = q
    /\ \A p \in Procs : Loaded(p, job[p].at, job[p].got)
    /\ \A n \in Networks :
          hidden[n] = asked[n] \/ \E p \in Procs : At(p, "rewrite") /\ Selected(p) = n

HiddenInv == torn \/ Alone

NeuronInv == JobsInv /\ TablesInv /\ KnowsInv /\ HiddenInv /\ AnswersAreRight

-----------------------------------------------------------------------------
(* Answers.                                                                *)

\* What an answer says.
Right(cmd, answer) ==
    /\ cmd.op \in Asking /\ answer.settled => answer.of = {cmd.network}
    /\ cmd.op = "list" =>
          /\ answer.settled => answer.keys = Window(cmd, answer.last)
          /\ torn \/ answer.shown = answer.keys \ IF cmd.all THEN {} ELSE UNION answer.asked

LEMMA AnswersAre ==
    AnswersAreRight <=> \A done \in Succeeded : Right(CmdAt(done), AnswerAt(done))
BY DEF AnswersAreRight, Right, Window

LEMMA GotoKeepsAnswers ==
    ASSUME JobsInv, AnswersAreRight, NEW p \in Procs, NEW label, NEW got, Goto(p, label, got),
           torn => torn'
    PROVE  AnswersAreRight'
<1>1. Succeeded' = Succeeded /\ \A done \in Succeeded : AnswerAt(done)' = AnswerAt(done) /\ CmdAt(done)' = CmdAt(done)
  BY GotoIs DEF Succeeded, AnswerAt, Reported, CmdAt
<1>2. \A done \in Succeeded : Right(CmdAt(done), AnswerAt(done))'
  BY <1>1, AnswersAre DEF Right
<1>3. AnswersAreRight' <=> \A done \in Succeeded' : Right(CmdAt(done), AnswerAt(done))'
  BY DEF AnswersAreRight, Right, Window
<1> QED
  BY <1>1, <1>2, <1>3

LEMMA ReportKeepsAnswers ==
    ASSUME JobsInv, AnswersAreRight, NEW p \in Procs, NEW ok, NEW answer, Report(p, ok, answer),
           torn => torn', NEW cmd, cmd = Cmd(p),
           ok = FALSE \/ Right(cmd, answer)'
    PROVE  AnswersAreRight'
<1>1. \A done \in Succeeded : Right(CmdAt(done), AnswerAt(done))
  BY AnswersAre
<1>2. ASSUME NEW done \in Succeeded' PROVE Right(CmdAt(done), AnswerAt(done))'
  <2>1. CASE done \in Succeeded /\ AnswerAt(done)' = AnswerAt(done) /\ CmdAt(done)' = CmdAt(done)
    BY <1>1, <2>1 DEF Right
  <2>2. CASE Reported(done)' = [ok |-> ok, answer |-> answer] /\ CmdAt(done)' = Cmd(p)
    <3>1. ok = FALSE => ~Reported(done).ok'
      BY <2>2
    <3>2. Right(cmd, answer)' /\ AnswerAt(done)' = answer
      BY <2>2, <3>1 DEF Succeeded, AnswerAt
    <3> QED
      BY <2>2, <3>2 DEF Right
  <2> QED
    BY <2>1, <2>2, NewReport
<1>3. AnswersAreRight' <=> \A done \in Succeeded' : Right(CmdAt(done), AnswerAt(done))'
  BY DEF AnswersAreRight, Right, Window
<1> QED
  BY <1>2, <1>3

\* A neuron command is about a network, and its list starts at an index.
LEMMA NeuronIs ==
    ASSUME JobsInv, NEW p \in Procs, Busy(p), Cmd(p).op \in Neurons
    PROVE  /\ Selected(p) \in Networks /\ "none" \notin Networks
           /\ Cmd(p).op = "list" => Cmd(p).start \in Nat /\ Cmd(p).limit \in Nat
<1>1. PICK i \in DOMAIN Cases : case = Cases[i]
  BY DEF JobsInv
<1>2. job[p].turn \in 1 .. Len(case.scripts[p])
  BY <1>1, CasesAssumption DEF JobsInv, Busy, Procs
<1>3. p \in DOMAIN Cases[i].scripts
  BY <1>1 DEF Procs
<1> QED
  BY <1>1, <1>2, <1>3, NeuronAssumption DEF Cmd, Selected, Neurons, Networks

-----------------------------------------------------------------------------
(* Steps that leave the lists of hidden addresses alone.                   *)

\* What another process knows is not disturbed by this one.
LEMMA OthersKnow ==
    ASSUME KnowsInv, NEW p \in Procs, UNCHANGED <<case, node>>, Procs' = Procs,
           \A q \in Procs \ {p} : job'[q] = job[q] /\ (q \in moved' <=> q \in moved)
    PROVE  \A q \in Procs \ {p} : Knows(q, job[q].at, job[q].got)'
<1> SUFFICES ASSUME NEW q \in Procs \ {p} PROVE Knows(q, job[q].at, job[q].got)'
  OBVIOUS
<1>1. Knows(q, job[q].at, job[q].got) /\ Cmd(q)' = Cmd(q) /\ Selected(q)' = Selected(q)
  BY DEF KnowsInv, Cmd, Selected
<1>2. Settled(q, job[q].at, job[q].got)'
  BY <1>1 DEF Knows, Settled
<1>3. Listed(q, job[q].at, job[q].got)'
  BY <1>1 DEF Knows, Listed, Window
<1>4. Meant(q, job[q].at, job[q].got)'
  BY <1>1 DEF Knows, Meant, Own
<1> QED
  BY <1>2, <1>3, <1>4 DEF Knows

\* Nor is what it has loaded, or that it is alone.
LEMMA OthersAlone ==
    ASSUME Alone, NEW p \in Procs, UNCHANGED <<case, hidden, asked>>, Procs' = Procs,
           \A q \in Procs \ {p} : job'[q] = job[q],
           ~At(p, "rewrite"), job'[p].at \notin {"change", "truncate", "rewrite"}
    PROVE  Alone'
<1>1. \A q \in Procs : q # p => /\ Writing(q)' = Writing(q) /\ Selected(q)' = Selected(q)
                                /\ At(q, "rewrite")' = At(q, "rewrite")
                                /\ Loaded(q, job[q].at, job[q].got)' = Loaded(q, job[q].at, job[q].got)
  BY DEF Writing, Cmd, Selected, At, Loaded, Changed
<1>2. ~Writing(p)' /\ Loaded(p, job[p].at, job[p].got)'
  BY DEF Writing, Loaded
<1>3. \A q, r \in Procs : (Writing(q) /\ Writing(r) /\ Selected(q) = Selected(r))' => q = r
  BY <1>1, <1>2 DEF Alone
<1>4. \A q \in Procs : Loaded(q, job[q].at, job[q].got)'
  BY <1>1, <1>2 DEF Alone
<1>5. Networks' = Networks
  BY DEF Networks
<1>6. ASSUME NEW n \in Networks
      PROVE  hidden'[n] = asked'[n] \/ \E q \in Procs : At(q, "rewrite")' /\ Selected(q)' = n
  BY <1>1 DEF Alone
<1> QED
  BY <1>3, <1>4, <1>5, <1>6 DEF Alone

LEMMA GotoKeepsNeurons ==
    ASSUME NeuronInv, NEW p \in Procs, NEW label, NEW got, Goto(p, label, got),
           Busy(p), Place(label, Cmd(p).op),
           UNCHANGED <<node, issued, hidden, asked, torn>>,
           \A q \in Procs \ {p} : q \in moved' <=> q \in moved,
           ~At(p, "rewrite"), label \notin {"change", "truncate", "rewrite"},
           Knows(p, label, got)'
    PROVE  NeuronInv'
<1> USE DEF NeuronInv
<1>1. /\ UNCHANGED <<case, reports>> /\ Procs' = Procs
      /\ job'[p].turn = job[p].turn /\ job'[p].at = label /\ job'[p].got = got
      /\ \A q \in Procs \ {p} : job'[q] = job[q]
  BY GotoIs
<1>2. JobsInv'
  BY StayKeeps DEF Stays
<1>3. TablesInv'
  BY <1>1 DEF TablesInv, Networks
<1>4. KnowsInv'
  <2>1. Knows(p, job[p].at, job[p].got)'
    BY <1>1 DEF Knows, Settled, Listed, Meant, Own, Window
  <2> QED
    BY <1>1, <2>1, OthersKnow DEF KnowsInv
<1>5. HiddenInv'
  BY <1>1, OthersAlone DEF HiddenInv
<1>6. AnswersAreRight'
  BY GotoKeepsAnswers
<1> QED
  BY <1>2, <1>3, <1>4, <1>5, <1>6

LEMMA ReportKeepsNeurons ==
    ASSUME NeuronInv, NEW p \in Procs, NEW ok, NEW answer, Report(p, ok, answer),
           UNCHANGED <<node, hidden, asked>>, issued' \in [Networks -> 0 .. MaxIndex],
           \A q \in Procs \ {p} : q \in moved' <=> q \in moved,
           torn' \in BOOLEAN, torn => torn', At(p, "rewrite") => torn',
           NEW cmd, cmd = Cmd(p), ok = FALSE \/ Right(cmd, answer)'
    PROVE  NeuronInv'
<1> USE DEF NeuronInv
<1>1. /\ UNCHANGED case /\ Procs' = Procs
      /\ job'[p].at = "start"
      /\ \A q \in Procs \ {p} : job'[q] = job[q]
  BY ReportIs, Zenon
<1>2. JobsInv'
  BY EndKeeps DEF Ends
<1>3. TablesInv'
  BY <1>1 DEF TablesInv, Networks
<1>4. KnowsInv'
  <2>1. Knows(p, job[p].at, job[p].got)'
    BY <1>1 DEF Knows, Settled, Listed, Meant
  <2> QED
    BY <1>1, <2>1, OthersKnow DEF KnowsInv
<1>5. HiddenInv'
  BY <1>1, OthersAlone DEF HiddenInv
<1>6. AnswersAreRight'
  BY ReportKeepsAnswers
<1> QED
  BY <1>2, <1>3, <1>4, <1>5, <1>6

-----------------------------------------------------------------------------
(* The steps on a list of hidden addresses.                                *)

\* A process that goes on with a list, whatever it does to it.
LEMMA GotoOnList ==
    ASSUME NeuronInv, NEW p \in Procs, NEW label, NEW got, Goto(p, label, got),
           Busy(p), Place(label, Cmd(p).op), label \in {"change", "truncate", "rewrite"},
           UNCHANGED <<node, issued, asked, moved>>, DOMAIN hidden' = Networks,
           torn' \in BOOLEAN, torn => torn', HiddenInv'
    PROVE  NeuronInv'
<1> USE DEF NeuronInv
<1>1. /\ UNCHANGED <<case, reports>> /\ Procs' = Procs
      /\ job'[p].turn = job[p].turn /\ job'[p].at = label
      /\ \A q \in Procs \ {p} : job'[q] = job[q]
  BY GotoIs
<1>2. JobsInv'
  BY StayKeeps DEF Stays
<1>3. TablesInv'
  BY <1>1 DEF TablesInv, Networks
<1>4. KnowsInv'
  <2>1. Knows(p, job[p].at, job[p].got)'
    BY <1>1 DEF Knows, Settled, Listed, Meant
  <2> QED
    BY <1>1, <2>1, OthersKnow DEF KnowsInv
<1>5. AnswersAreRight'
  BY GotoKeepsAnswers
<1> QED
  BY <1>2, <1>3, <1>4, <1>5

\* Read while another command writes, the list is not relied on.
LEMMA LoadStep ==
    ASSUME NeuronInv, NEW p \in Procs, LoadHidden(p)
    PROVE  NeuronInv'
<1> DEFINE n == Selected(p)
<1> USE DEF NeuronInv
<1>1. Busy(p) /\ Cmd(p).op \in Changing /\ Ready(p)
  BY DEF LoadHidden, Runs, Busy
<1>2. /\ Goto(p, "change", hidden[n])
      /\ torn' = (torn \/ Meets(p))
      /\ UNCHANGED <<node, issued, hidden, asked, moved>>
  BY DEF LoadHidden
<1>3. /\ UNCHANGED case /\ Procs' = Procs
      /\ job'[p].turn = job[p].turn /\ job'[p].at = "change" /\ job'[p].got = hidden[n]
      /\ \A q \in Procs \ {p} : job'[q] = job[q]
  BY <1>2, GotoIs
<1>4. n \in Networks
  BY <1>1, NeuronIs DEF Neurons
<1>5. ASSUME ~torn, ~Meets(p), Alone PROVE Alone'
  <2>1. \A q \in Procs : q # p => /\ Writing(q)' = Writing(q) /\ Selected(q)' = Selected(q)
                                  /\ At(q, "rewrite")' = At(q, "rewrite")
                                  /\ Loaded(q, job[q].at, job[q].got)' = Loaded(q, job[q].at, job[q].got)
    BY <1>2, <1>3 DEF Writing, Cmd, Selected, At, Loaded, Changed
  <2>2. Selected(p)' = n /\ Networks' = Networks
    BY <1>3 DEF Selected, Cmd, Networks
  <2>3. \A q \in Procs : q # p /\ Writing(q) => Selected(q) # n
    BY <1>5 DEF Meets
  <2>4. hidden[n] = asked[n]
    <3>1. \A q \in Procs : ~(At(q, "rewrite") /\ Selected(q) = n)
      BY <1>1, <2>3 DEF At, Writing, Ready
    <3> QED
      BY <1>4, <1>5, <3>1 DEF Alone
  <2>5. Loaded(p, job[p].at, job[p].got)'
    BY <1>2, <1>3, <2>2, <2>4 DEF Loaded
  <2>6. \A m \in Networks : hidden'[m] = asked'[m] \/ \E q \in Procs : At(q, "rewrite")' /\ Selected(q)' = m
    <3>1. ~At(p, "rewrite")
      BY <1>1 DEF At, Ready
    <3> QED
      BY <1>2, <1>5, <2>1, <3>1 DEF Alone
  <2>7. \A q, r \in Procs : (Writing(q) /\ Writing(r) /\ Selected(q) = Selected(r))' => q = r
    BY <1>5, <2>1, <2>2, <2>3 DEF Alone
  <2>8. \A q \in Procs : Loaded(q, job[q].at, job[q].got)'
    BY <1>5, <2>1, <2>5 DEF Alone
  <2> HIDE DEF n
  <2> QED
    BY <1>3, <2>2, <2>6, <2>7, <2>8 DEF Alone
<1>6. HiddenInv' /\ torn' \in BOOLEAN /\ (torn => torn')
  <2>1. torn \/ (~torn /\ Alone)
    BY DEF HiddenInv
  <2>2. torn' <=> torn \/ Meets(p)
    BY <1>2
  <2> QED
    BY <1>2, <1>5, <2>1, <2>2 DEF HiddenInv
<1>7. Place("change", Cmd(p).op)
  BY <1>1 DEF Place, WalletPlace
<1>8. DOMAIN hidden' = Networks
  BY <1>2 DEF TablesInv
<1> QED
  BY <1>1, <1>2, <1>6, <1>7, <1>8, GotoOnList

LEMMA ChangeStep ==
    ASSUME NeuronInv, NEW p \in Procs, ChangeHidden(p)
    PROVE  NeuronInv'
<1> DEFINE op == Cmd(p).op
           entry == Cmd(p).entry
           lines == Changed(op, Got(p), entry)
<1> USE DEF NeuronInv
<1>1. Busy(p) /\ op \in Changing /\ At(p, "change") /\ UNCHANGED walletVars
  BY DEF ChangeHidden, JobsInv, At, Ready, Place, SubmissionPlace, WalletPlace
<1>2. UNCHANGED <<node, issued, hidden, asked, torn, moved>> /\ issued \in [Networks -> 0 .. MaxIndex]
      /\ torn \in BOOLEAN /\ DOMAIN hidden = Networks
  BY <1>1 DEF walletVars, TablesInv
<1>3. CASE Succeed(p, Nothing)
  <2>1. PICK cmd : cmd = Cmd(p)
    OBVIOUS
  <2>2. Right(cmd, Nothing)'
    BY <1>1, <2>1 DEF Right, Asking, Changing
  <2>3. Report(p, TRUE, Nothing)
    BY <1>3 DEF Succeed
  <2>4. ~At(p, "rewrite")
    BY <1>1 DEF At
  <2> QED
    BY <1>2, <2>1, <2>2, <2>3, <2>4, ReportKeepsNeurons
<1>4. CASE Goto(p, "truncate", lines)
  <2>1. /\ UNCHANGED case /\ Procs' = Procs
        /\ job'[p].turn = job[p].turn /\ job'[p].at = "truncate" /\ job'[p].got = lines
        /\ \A q \in Procs \ {p} : job'[q] = job[q]
    BY <1>4, GotoIs
  <2>2. ASSUME Alone PROVE Alone'
    <3>1. \A q \in Procs : q # p => /\ Writing(q)' = Writing(q) /\ Selected(q)' = Selected(q)
                                    /\ At(q, "rewrite")' = At(q, "rewrite")
                                    /\ Loaded(q, job[q].at, job[q].got)' = Loaded(q, job[q].at, job[q].got)
      BY <1>2, <2>1 DEF Writing, Cmd, Selected, At, Loaded, Changed
    <3>2. Selected(p)' = Selected(p) /\ Networks' = Networks /\ Writing(p) /\ Writing(p)'
      BY <1>1, <2>1 DEF Selected, Cmd, Networks, Writing, At
    <3>3. Loaded(p, job[p].at, job[p].got)'
      <4>1. Got(p) = asked[Selected(p)]
        BY <1>1, <2>2 DEF Alone, Loaded, At, Got
      <4>2. Cmd(p)' = Cmd(p)
        BY <2>1 DEF Cmd
      <4> QED
        BY <1>2, <2>1, <3>2, <4>1, <4>2 DEF Loaded, Changed
    <3>4. \A m \in Networks : hidden'[m] = asked'[m] \/ \E q \in Procs : At(q, "rewrite")' /\ Selected(q)' = m
      <4>1. ~At(p, "rewrite")
        BY <1>1 DEF At
      <4> QED
        BY <1>2, <2>2, <3>1, <4>1 DEF Alone
    <3>5. \A q, r \in Procs : (Writing(q) /\ Writing(r) /\ Selected(q) = Selected(r))' => q = r
      BY <2>2, <3>1, <3>2 DEF Alone
    <3>6. \A q \in Procs : Loaded(q, job[q].at, job[q].got)'
      BY <2>2, <3>1, <3>3 DEF Alone
    <3> QED
      BY <2>1, <3>2, <3>4, <3>5, <3>6 DEF Alone
  <2>3. HiddenInv'
    BY <1>2, <2>2 DEF HiddenInv
  <2>4. Place("truncate", Cmd(p).op)
    BY <1>1 DEF Place, WalletPlace
  <2> HIDE DEF lines
  <2> QED
    BY <1>1, <1>2, <1>4, <2>3, <2>4, GotoOnList
<1> QED
  BY <1>3, <1>4 DEF ChangeHidden

\* The file is empty until the list is written again.
LEMMA TruncateStep ==
    ASSUME NeuronInv, NEW p \in Procs, TruncateHidden(p)
    PROVE  NeuronInv'
<1> DEFINE n == Selected(p)
<1> USE DEF NeuronInv
<1>1. Busy(p) /\ Cmd(p).op \in Changing /\ At(p, "truncate")
  BY DEF TruncateHidden, JobsInv, At, Ready, Place, SubmissionPlace, WalletPlace
<1>2. UNCHANGED <<node, issued, asked, torn, moved>> /\ issued \in [Networks -> 0 .. MaxIndex]
      /\ torn \in BOOLEAN /\ DOMAIN hidden = Networks
  BY DEF TruncateHidden, TablesInv
<1>3. CASE Fail(p) /\ UNCHANGED hidden
  <2>1. Report(p, FALSE, Nothing) /\ ~At(p, "rewrite")
    BY <1>1, <1>3 DEF Fail, At
  <2> QED
    BY <1>2, <1>3, <2>1, ReportKeepsNeurons
<1>4. CASE hidden' = [hidden EXCEPT ![n] = {}] /\ Goto(p, "rewrite", Got(p))
  <2>1. /\ UNCHANGED case /\ Procs' = Procs
        /\ job'[p].turn = job[p].turn /\ job'[p].at = "rewrite" /\ job'[p].got = Got(p)
        /\ \A q \in Procs \ {p} : job'[q] = job[q]
    BY <1>4, GotoIs
  <2>2. ASSUME Alone PROVE Alone'
    <3>1. \A q \in Procs : q # p => /\ Writing(q)' = Writing(q) /\ Selected(q)' = Selected(q)
                                    /\ At(q, "rewrite")' = At(q, "rewrite")
                                    /\ Loaded(q, job[q].at, job[q].got)' = Loaded(q, job[q].at, job[q].got)
      BY <1>2, <2>1 DEF Writing, Cmd, Selected, At, Loaded, Changed
    <3>2. Selected(p)' = n /\ Networks' = Networks /\ Writing(p) /\ At(p, "rewrite")'
      BY <1>1, <2>1 DEF Selected, Cmd, Networks, Writing, At
    <3>3. Loaded(p, job[p].at, job[p].got)'
      <4>1. Got(p) = Changed(Cmd(p).op, asked[n], Cmd(p).entry)
        BY <1>1, <2>2 DEF Alone, Loaded, At, Got
      <4>2. Cmd(p)' = Cmd(p)
        BY <2>1 DEF Cmd
      <4> QED
        BY <1>2, <2>1, <3>2, <4>1, <4>2 DEF Loaded, Changed
    <3>4. ASSUME NEW m \in Networks
          PROVE  hidden'[m] = asked'[m] \/ \E q \in Procs : At(q, "rewrite")' /\ Selected(q)' = m
      <4>1. CASE m = n
        BY <3>2, <4>1
      <4>2. CASE m # n
        <5>1. hidden'[m] = hidden[m]
          BY <1>4, <4>2
        <5>2. ~At(p, "rewrite")
          BY <1>1 DEF At
        <5> QED
          BY <1>2, <2>2, <3>1, <5>1, <5>2 DEF Alone
      <4> QED
        BY <4>1, <4>2
    <3>5. \A q, r \in Procs : (Writing(q) /\ Writing(r) /\ Selected(q) = Selected(r))' => q = r
      <4> HIDE DEF n
      <4> QED
        BY <2>2, <3>1, <3>2 DEF Alone, n
    <3>6. \A q \in Procs : Loaded(q, job[q].at, job[q].got)'
      BY <2>2, <3>1, <3>3 DEF Alone
    <3> QED
      BY <2>1, <3>2, <3>4, <3>5, <3>6 DEF Alone
  <2>3. HiddenInv'
    BY <1>2, <2>2 DEF HiddenInv
  <2>4. Place("rewrite", Cmd(p).op)
    BY <1>1 DEF Place, WalletPlace
  <2>5. DOMAIN hidden' = Networks
    BY <1>2, <1>4
  <2> QED
    BY <1>1, <1>2, <1>4, <2>3, <2>4, <2>5, GotoOnList
<1> QED
  BY <1>3, <1>4 DEF TruncateHidden

\* The list that is written is the one that was asked for.
LEMMA WriteHiddenStep ==
    ASSUME NeuronInv, NEW p \in Procs, WriteHidden(p)
    PROVE  NeuronInv'
<1> DEFINE n == Selected(p)
           op == Cmd(p).op
           entry == Cmd(p).entry
<1> USE DEF NeuronInv
<1>1. Busy(p) /\ op \in Changing /\ At(p, "rewrite")
  BY DEF WriteHidden, JobsInv, At, Ready, Place, SubmissionPlace, WalletPlace
<1>2. UNCHANGED <<node, issued, moved>> /\ issued \in [Networks -> 0 .. MaxIndex]
      /\ torn \in BOOLEAN /\ DOMAIN hidden = Networks /\ DOMAIN asked = Networks
  BY DEF WriteHidden, TablesInv
<1>3. CASE Fail(p) /\ torn' = TRUE /\ UNCHANGED <<hidden, asked>>
  <2>1. Report(p, FALSE, Nothing)
    BY <1>3 DEF Fail
  <2> QED
    BY <1>2, <1>3, <2>1, ReportKeepsNeurons
<1>4. CASE /\ hidden' = [hidden EXCEPT ![n] = Got(p)]
           /\ asked' = [asked EXCEPT ![n] = IF op = "hide" THEN @ \cup {entry} ELSE @ \ {entry}]
           /\ Succeed(p, Nothing)
           /\ UNCHANGED torn
  <2>1. Report(p, TRUE, Nothing)
    BY <1>4 DEF Succeed
  <2>2. /\ UNCHANGED case /\ Procs' = Procs
        /\ job'[p].at = "start"
        /\ \A q \in Procs \ {p} : job'[q] = job[q]
    BY <2>1, ReportIs, Zenon
  <2>3. JobsInv'
    BY <2>1, EndKeeps DEF Ends
  <2>4. TablesInv'
    BY <1>2, <1>4, <2>2 DEF TablesInv, Networks
  <2>5. KnowsInv'
    <3>1. Knows(p, job[p].at, job[p].got)'
      BY <2>2 DEF Knows, Settled, Listed, Meant
    <3> QED
      BY <1>2, <2>2, <3>1, OthersKnow DEF KnowsInv
  <2>6. n \in Networks
    BY <1>1, NeuronIs DEF Neurons
  <2>7. /\ hidden'[n] = Got(p) /\ asked'[n] = Changed(op, asked[n], entry)
        /\ \A m \in Networks \ {n} : hidden'[m] = hidden[m] /\ asked'[m] = asked[m]
    BY <1>2, <1>4, <2>6 DEF Changed
  <2>8. ASSUME Alone PROVE Alone'
    <3>1. \A q \in Procs : q # p => /\ Writing(q)' = Writing(q) /\ Selected(q)' = Selected(q)
                                    /\ At(q, "rewrite")' = At(q, "rewrite")
                                    /\ Cmd(q)' = Cmd(q)
      BY <2>2 DEF Writing, Cmd, Selected, At
    <3>2. Networks' = Networks /\ Writing(p) /\ ~Writing(p)'
      BY <1>1, <2>2 DEF Networks, Writing, At
    <3>3. hidden'[n] = asked'[n]
      BY <1>1, <2>7, <2>8 DEF Alone, Loaded, At, Got
    <3>4. ASSUME NEW m \in Networks
          PROVE  hidden'[m] = asked'[m] \/ \E q \in Procs : At(q, "rewrite")' /\ Selected(q)' = m
      <4>1. CASE m = n
        BY <3>3, <4>1
      <4>2. CASE m # n
        BY <2>7, <2>8, <3>1, <4>2 DEF Alone
      <4> QED
        BY <4>1, <4>2
    <3>5. \A q, r \in Procs : (Writing(q) /\ Writing(r) /\ Selected(q) = Selected(r))' => q = r
      BY <2>8, <3>1, <3>2 DEF Alone
    <3>6. ASSUME NEW q \in Procs PROVE Loaded(q, job[q].at, job[q].got)'
      <4>1. CASE q # p /\ Writing(q)
        <5>1. Selected(q) # n
          BY <2>8, <3>2, <4>1 DEF Alone
        <5>2. Busy(q) /\ Cmd(q).op \in Changing
          BY <4>1 DEF JobsInv, Writing, Ready, Place, SubmissionPlace, WalletPlace
        <5>3. Selected(q) \in Networks
          BY <5>2, NeuronIs DEF Neurons
        <5>4. asked'[Selected(q)] = asked[Selected(q)] /\ job'[q] = job[q]
          BY <2>2, <2>7, <4>1, <5>1, <5>3
        <5> QED
          BY <2>8, <3>1, <4>1, <5>4 DEF Alone, Loaded, Changed
      <4>2. CASE q = p \/ ~Writing(q)
        BY <2>2, <3>1, <3>2, <4>2 DEF Loaded, Writing
      <4> QED
        BY <4>1, <4>2
    <3> QED
      BY <2>2, <3>2, <3>4, <3>5, <3>6 DEF Alone
  <2>9. HiddenInv'
    BY <1>4, <2>8 DEF HiddenInv
  <2>10. AnswersAreRight'
    <3>1. PICK cmd : cmd = Cmd(p)
      OBVIOUS
    <3>2. Right(cmd, Nothing)'
      BY <1>1, <3>1 DEF Right, Asking, Changing
    <3> QED
      BY <1>4, <2>1, <3>1, <3>2, ReportKeepsAnswers
  <2> QED
    BY <2>3, <2>4, <2>5, <2>9, <2>10
<1> QED
  BY <1>3, <1>4 DEF WriteHidden

-----------------------------------------------------------------------------
(* The steps that ask the node.                                            *)

\* The end of a command that leaves the lists alone.
LEMMA EndKeepsNeurons ==
    ASSUME NeuronInv, NEW p \in Procs, NEW ok, NEW answer, Report(p, ok, answer),
           UNCHANGED <<node, issued, hidden, asked, torn>>,
           \A q \in Procs \ {p} : q \in moved' <=> q \in moved,
           ~At(p, "rewrite"), ok = FALSE \/ Right(Cmd(p), answer)
    PROVE  NeuronInv'
<1>1. PICK cmd : cmd = Cmd(p)
  OBVIOUS
<1>2. Right(cmd, answer) => Right(cmd, answer)'
  BY DEF Right
<1>3. issued \in [Networks -> 0 .. MaxIndex] /\ torn \in BOOLEAN
  BY DEF NeuronInv, TablesInv
<1> QED
  BY <1>1, <1>2, <1>3, ReportKeepsNeurons

LEMMA FailKeepsNeurons ==
    ASSUME NeuronInv, NEW p \in Procs, Fail(p),
           UNCHANGED <<node, issued, hidden, asked, torn>>,
           \A q \in Procs \ {p} : q \in moved' <=> q \in moved,
           ~At(p, "rewrite")
    PROVE  NeuronInv'
BY EndKeepsNeurons DEF Fail

LEMMA BeginStep ==
    ASSUME NeuronInv, NEW p \in Procs, Begin(p)
    PROVE  NeuronInv'
<1>1. Busy(p) /\ Cmd(p).op \in Asking /\ ~At(p, "rewrite")
  BY DEF Begin, Runs, Busy, Ready, At
<1>2. /\ UNCHANGED <<node, issued, hidden, asked, torn>>
      /\ \A q \in Procs \ {p} : q \in moved' <=> q \in moved
  BY DEF Begin
<1>3. \/ Fail(p)
      \/ Goto(p, "network", Nothing)
      \/ Goto(p, "offline", Nothing) /\ Cmd(p).op = "add"
  BY DEF Begin
<1>4. ASSUME NEW label \in {"network", "offline"} PROVE Knows(p, label, Nothing)'
  BY DEF Knows, Settled, Listed, Meant
<1>5. Place("network", Cmd(p).op)
  BY <1>1 DEF Place, WalletPlace
<1>6. Cmd(p).op = "add" => Place("offline", Cmd(p).op)
  BY DEF Place, WalletPlace
<1> QED
  BY <1>1, <1>2, <1>3, <1>4, <1>5, <1>6, FailKeepsNeurons, GotoKeepsNeurons

LEMMA RequireStep ==
    ASSUME NeuronInv, NEW p \in Procs, RequireNodeNetwork(p)
    PROVE  NeuronInv'
<1>1. Busy(p) /\ Cmd(p).op \in Asking /\ ~At(p, "rewrite")
  BY DEF RequireNodeNetwork, NeuronInv, JobsInv, At, Ready, Place, SubmissionPlace, WalletPlace
<1>2. UNCHANGED <<node, issued, hidden, asked, torn, moved>>
  BY DEF RequireNodeNetwork, walletVars
<1>3. CASE Fail(p)
  BY <1>1, <1>2, <1>3, FailKeepsNeurons
<1>4. CASE node = Selected(p) /\ Goto(p, Cmd(p).op, Nothing)
  <2>1. PICK label : label = Cmd(p).op
    OBVIOUS
  <2>2. Place(label, Cmd(p).op) /\ label \in Asking
    BY <1>1, <2>1 DEF Place, WalletPlace, Asking
  <2>3. Selected(p)' = Selected(p)
    BY <1>4, GotoIs DEF Selected, Cmd, NeuronInv
  <2>4. Knows(p, label, Nothing)'
    BY <1>2, <1>4, <2>2, <2>3 DEF Knows, Settled, Listed, Meant, Asking
  <2> QED
    BY <1>1, <1>2, <1>4, <2>1, <2>2, <2>4, GotoKeepsNeurons DEF Asking
<1> QED
  BY <1>3, <1>4 DEF RequireNodeNetwork

LEMMA ConfirmedStep ==
    ASSUME NeuronInv, NEW p \in Procs, ConfirmedBalance(p)
    PROVE  NeuronInv'
<1>1. Busy(p) /\ Cmd(p).op = "balance" /\ At(p, "balance") /\ ~At(p, "rewrite")
  BY DEF ConfirmedBalance, NeuronInv, JobsInv, At, Ready, Place, SubmissionPlace, WalletPlace
<1>2. UNCHANGED <<node, issued, hidden, asked, torn, moved>>
  BY DEF ConfirmedBalance, walletVars
<1>3. CASE Fail(p)
  BY <1>1, <1>2, <1>3, FailKeepsNeurons
<1>4. CASE Goto(p, "unconfirmed", node)
  <2>1. PICK got : got = node
    OBVIOUS
  <2>2. Settled(p, "balance", Got(p))
    BY <1>1 DEF NeuronInv, KnowsInv, Knows, At, Got
  <2>3. Selected(p)' = Selected(p)
    BY <1>4, GotoIs DEF Selected, Cmd, NeuronInv
  <2>4. Knows(p, "unconfirmed", got)'
    BY <1>2, <2>1, <2>2, <2>3 DEF Knows, Settled, Listed, Meant
  <2>5. Place("unconfirmed", Cmd(p).op)
    BY <1>1 DEF Place, WalletPlace
  <2> QED
    BY <1>1, <1>2, <1>4, <2>1, <2>4, <2>5, GotoKeepsNeurons
<1> QED
  BY <1>3, <1>4 DEF ConfirmedBalance, Run

\* An answer that only says of which network it is.
LEMMA ReplyStep ==
    ASSUME NeuronInv, NEW p \in Procs, NEW networks, Succeed(p, Reply(p, networks)),
           Cmd(p).op \in Asking \ {"list"}, ~At(p, "rewrite"),
           p \notin moved => networks = {Selected(p)},
           UNCHANGED <<node, hidden, asked, torn, moved>>, issued' \in [Networks -> 0 .. MaxIndex]
    PROVE  NeuronInv'
<1>1. PICK cmd : cmd = Cmd(p)
  OBVIOUS
<1>2. PICK answer : answer = Reply(p, networks)
  OBVIOUS
<1>3. answer.of = networks /\ (answer.settled <=> p \notin moved)
  BY <1>2 DEF Reply
<1>4. Right(cmd, answer)'
  BY <1>1, <1>3 DEF Right, Selected
<1>5. Report(p, TRUE, answer) /\ torn \in BOOLEAN
  BY <1>2 DEF Succeed, NeuronInv, TablesInv
<1> QED
  BY <1>1, <1>4, <1>5, ReportKeepsNeurons

LEMMA AskingStep ==
    ASSUME NeuronInv, NEW p \in Procs,
           UnconfirmedBalance(p) \/ ListUtxos(p) \/ NextAddress(p) \/ AddressAtIndex(p)
    PROVE  NeuronInv'
<1>1. /\ UnconfirmedBalance(p) => Cmd(p).op = "balance"
      /\ ListUtxos(p) => Cmd(p).op = "boxes"
      /\ NextAddress(p) \/ AddressAtIndex(p) => Cmd(p).op = "add"
      /\ ~At(p, "rewrite")
  BY DEF UnconfirmedBalance, ListUtxos, NextAddress, AddressAtIndex, NeuronInv, JobsInv, At, Ready, Place,
         SubmissionPlace, WalletPlace
<1>2. UNCHANGED <<node, hidden, asked, torn, moved>> /\ (~NextAddress(p) => UNCHANGED issued)
  BY DEF UnconfirmedBalance, ListUtxos, NextAddress, AddressAtIndex, walletVars
<1>3. issued \in [Networks -> 0 .. MaxIndex]
  BY DEF NeuronInv, TablesInv
<1>4. issued' \in [Networks -> 0 .. MaxIndex]
  <2>1. CASE NextAddress(p)
    <3>1. \/ issued' = issued
          \/ issued[node] < MaxIndex /\ issued' = [issued EXCEPT ![node] = @ + 1]
      BY <2>1 DEF NextAddress
    <3>2. \A n \in Networks : issued[n] \in Nat /\ issued[n] <= MaxIndex /\ MaxIndex \in Nat
      BY <1>3, WalletAssumption
    <3>3. CASE issued' = [issued EXCEPT ![node] = @ + 1] /\ node \in Networks /\ issued[node] < MaxIndex
      <4>1. issued[node] + 1 \in 0 .. MaxIndex
        BY <3>2, <3>3
      <4> QED
        BY <1>3, <3>3, <4>1
    <3>4. CASE issued' = [issued EXCEPT ![node] = @ + 1] /\ node \notin Networks
      BY <1>3, <3>4
    <3> QED
      BY <1>3, <3>1, <3>3, <3>4
  <2>2. CASE ~NextAddress(p)
    BY <1>2, <1>3, <2>2
  <2> QED
    BY <2>1, <2>2
<1>5. Knows(p, job[p].at, job[p].got)
  BY DEF NeuronInv, KnowsInv
<1>6. CASE Fail(p)
  <2>1. PICK cmd : cmd = Cmd(p)
    OBVIOUS
  <2>2. Report(p, FALSE, Nothing) /\ torn \in BOOLEAN
    BY <1>6 DEF Fail, NeuronInv, TablesInv
  <2> QED
    BY <1>1, <1>2, <1>4, <2>1, <2>2, ReportKeepsNeurons
<1>7. CASE UnconfirmedBalance(p)
  <2>1. PICK networks : networks = {Got(p)} \cup IF Up THEN {node} ELSE {}
    OBVIOUS
  <2>2. p \notin moved => networks = {Selected(p)}
    BY <1>5, <1>7, <2>1 DEF UnconfirmedBalance, At, Got, Knows, Settled
  <2> QED
    BY <1>1, <1>2, <1>4, <1>7, <2>1, <2>2, ReplyStep DEF UnconfirmedBalance, Asking
<1>8. CASE AddressAtIndex(p)
  <2>1. PICK networks : networks = {Selected(p)}
    OBVIOUS
  <2> QED
    BY <1>1, <1>2, <1>4, <1>6, <1>8, <2>1, ReplyStep DEF AddressAtIndex, Asking
<1>9. CASE ListUtxos(p) \/ NextAddress(p)
  <2>1. PICK networks : networks = {node}
    OBVIOUS
  <2>2. p \notin moved => networks = {Selected(p)}
    BY <1>5, <1>9, <2>1 DEF ListUtxos, NextAddress, At, Knows, Settled
  <2>3. Fail(p) \/ Succeed(p, Reply(p, networks))
    BY <1>9, <2>1 DEF ListUtxos, NextAddress, Run
  <2> QED
    BY <1>1, <1>2, <1>4, <1>6, <1>9, <2>2, <2>3, ReplyStep DEF Asking
<1> QED
  BY <1>7, <1>8, <1>9

-----------------------------------------------------------------------------
(* The steps of a list.                                                    *)

\* The loop over the indices gives the window that was asked for.
LEMMA KeysAreWindow ==
    ASSUME NEW network, NEW start \in Nat, NEW limit \in Nat, NEW last \in 0 .. MaxIndex,
           NEW cmd, cmd.network = network, cmd.start = start, cmd.limit = limit
    PROVE  KnownKeys(network, start, limit, last) = Window(cmd, last)
<1>1. MaxIndex \in Nat
  BY WalletAssumption
<1>2. start .. Least(Least(last, MaxIndex), start + limit - 1)
        = {i \in 0 .. last : i - start \in 0 .. limit - 1}
  BY <1>1 DEF Least
<1> QED
  BY <1>2 DEF KnownKeys, Window

LEMMA ListKeysStep ==
    ASSUME NeuronInv, NEW p \in Procs, ListKeys(p)
    PROVE  NeuronInv'
<1>1. Busy(p) /\ Cmd(p).op = "list" /\ At(p, "list") /\ ~At(p, "rewrite")
  BY DEF ListKeys, NeuronInv, JobsInv, At, Ready, Place, SubmissionPlace, WalletPlace
<1>2. UNCHANGED <<node, issued, hidden, asked, torn, moved>>
  BY DEF ListKeys, walletVars
<1>3. CASE Fail(p)
  BY <1>1, <1>2, <1>3, FailKeepsNeurons
<1>4. CASE ~Fail(p)
  <2>1. PICK keys, seen :
           /\ keys = KnownKeys(Selected(p), Cmd(p).start, Cmd(p).limit, issued[node])
           /\ seen = [of |-> {Selected(p)}, settled |-> p \notin moved,
                      keys |-> keys, last |-> issued[Selected(p)]]
    OBVIOUS
  <2>2. \/ keys = {} /\ Succeed(p, Listing(seen, {}, {}))
        \/ Goto(p, "filter", seen)
    BY <1>4, <2>1 DEF ListKeys
  <2>3. /\ seen.of = {Selected(p)} /\ (seen.settled <=> p \notin moved)
        /\ seen.keys = keys /\ seen.last = issued[Selected(p)]
    BY <2>1
  <2>4. ASSUME p \notin moved PROVE keys = Window(Cmd(p), seen.last)
    <3>1. Settled(p, "list", Got(p))
      BY <1>1 DEF NeuronInv, KnowsInv, Knows, At, Got
    <3>2. node = Selected(p)
      BY <2>4, <3>1 DEF Settled
    <3>3. Selected(p) \in Networks /\ Cmd(p).start \in Nat /\ Cmd(p).limit \in Nat
      BY <1>1, NeuronIs DEF NeuronInv, Neurons, Asking
    <3>4. issued[Selected(p)] \in 0 .. MaxIndex
      BY <3>3 DEF NeuronInv, TablesInv
    <3> QED
      BY <2>1, <2>3, <3>2, <3>3, <3>4, KeysAreWindow DEF Selected
  <2>5. CASE Goto(p, "filter", seen)
    <3>1. Cmd(p)' = Cmd(p) /\ Selected(p)' = Selected(p)
      BY <2>5, GotoIs DEF Selected, Cmd, NeuronInv
    <3>2. Listed(p, "filter", seen)'
      BY <2>3, <2>4, <3>1 DEF Listed, Window
    <3>3. Knows(p, "filter", seen)'
      BY <3>2 DEF Knows, Settled, Meant
    <3>4. Place("filter", Cmd(p).op)
      BY <1>1 DEF Place, WalletPlace
    <3> QED
      BY <1>1, <1>2, <2>5, <3>3, <3>4, GotoKeepsNeurons
  <2>6. CASE keys = {} /\ Succeed(p, Listing(seen, {}, {}))
    <3>1. PICK answer : answer = Listing(seen, {}, {})
      OBVIOUS
    <3>2. /\ answer.of = seen.of /\ answer.settled = seen.settled /\ answer.keys = keys
          /\ answer.last = seen.last /\ answer.shown = {} /\ answer.asked = {}
      BY <2>3, <3>1 DEF Listing
    <3>3. Right(Cmd(p), answer)
      BY <2>3, <2>4, <2>6, <3>2 DEF Right, Selected
    <3> QED
      BY <1>1, <1>2, <2>6, <3>1, <3>3, EndKeepsNeurons DEF Succeed
  <2> QED
    BY <2>2, <2>5, <2>6
<1> QED
  BY <1>3, <1>4

\* What is shown has not been hidden, unless another command is writing.
LEMMA ListShownStep ==
    ASSUME NeuronInv, NEW p \in Procs, ListShown(p)
    PROVE  NeuronInv'
<1>1. Busy(p) /\ Cmd(p).op = "list" /\ At(p, "filter") /\ ~At(p, "rewrite") /\ ~Writing(p)
  BY DEF ListShown, NeuronInv, JobsInv, At, Ready, Writing, Place, SubmissionPlace, WalletPlace
<1>2. UNCHANGED <<node, issued, hidden, asked, moved>> /\ torn' = (torn \/ Meets(p))
  BY DEF ListShown
<1>3. PICK n, keys, entries, shown, answer :
         /\ n = Selected(p) /\ keys = Got(p).keys
         /\ entries = IF Cmd(p).all THEN {} ELSE hidden[n]
         /\ shown = {a \in keys : \A entry \in entries : a \notin entry}
         /\ answer = Listing(Got(p), shown, asked[n])
  OBVIOUS
<1>4. Succeed(p, answer)
  BY <1>3 DEF ListShown
<1>5. /\ answer.of = Got(p).of /\ answer.settled = Got(p).settled /\ answer.keys = keys
      /\ answer.last = Got(p).last /\ answer.shown = shown /\ answer.asked = asked[n]
  BY <1>3 DEF Listing
<1>6. Listed(p, "filter", Got(p))
  BY <1>1 DEF NeuronInv, KnowsInv, Knows, At, Got
<1>7. n \in Networks
  BY <1>1, <1>3, NeuronIs DEF NeuronInv, Neurons, Asking
<1>8. ASSUME ~torn, ~Meets(p) PROVE hidden[n] = asked[n]
  <2>1. \A q \in Procs : ~(At(q, "rewrite") /\ Selected(q) = n)
    BY <1>1, <1>3, <1>8 DEF Meets, Writing, At
  <2> QED
    BY <1>7, <1>8, <2>1 DEF NeuronInv, HiddenInv, Alone
<1>9. shown = keys \ UNION entries
  BY <1>3
<1>10. torn' \/ shown = keys \ IF Cmd(p).all THEN {} ELSE UNION asked[n]
  BY <1>2, <1>3, <1>8, <1>9
<1>11. PICK cmd : cmd = Cmd(p)
  OBVIOUS
<1>12. Right(cmd, answer)'
  BY <1>3, <1>5, <1>6, <1>10, <1>11 DEF Right, Listed, Selected
<1>13. torn' \in BOOLEAN /\ (torn => torn') /\ issued \in [Networks -> 0 .. MaxIndex]
  BY <1>2 DEF NeuronInv, TablesInv
<1> QED
  BY <1>1, <1>2, <1>4, <1>11, <1>12, <1>13, ReportKeepsNeurons DEF Succeed

-----------------------------------------------------------------------------
(* The steps on the directory of a wallet.                                 *)

LEMMA RefuseStep ==
    ASSUME NeuronInv, NEW p \in Procs, Refuse(p) \/ RefuseWords(p)
    PROVE  NeuronInv'
<1>1. Fail(p) /\ ~At(p, "rewrite") /\ UNCHANGED <<node, issued, hidden, asked, torn, moved>>
  BY DEF Refuse, RefuseWords, walletVars, At, Ready
<1> QED
  BY <1>1, FailKeepsNeurons

\* Going on with a wallet, and ending with it.
LEMMA WalletGoes ==
    ASSUME NeuronInv, NEW p \in Procs, NEW label, NEW got, Goto(p, label, got),
           Busy(p), Cmd(p).op \in Walleting,
           label \in {"check", "none", "found", "again", "make", "delete"}, Place(label, Cmd(p).op),
           UNCHANGED <<node, issued, hidden, asked, torn, moved>>, Meant(p, label, got)
    PROVE  NeuronInv'
<1>1. ~At(p, "rewrite")
  BY DEF At, NeuronInv, JobsInv, Ready, Place, SubmissionPlace, WalletPlace, Walleting, Changing
<1>2. Cmd(p)' = Cmd(p) /\ Selected(p)' = Selected(p) /\ UNCHANGED case
  BY GotoIs DEF Selected, Cmd, NeuronInv
<1>3. Knows(p, label, got)'
  BY <1>2 DEF Knows, Settled, Listed, Meant, Own
<1> QED
  BY <1>1, <1>3, GotoKeepsNeurons

LEMMA WalletEnds ==
    ASSUME NeuronInv, NEW p \in Procs, Succeed(p, Nothing) \/ Fail(p), Cmd(p).op \in Walleting,
           ~At(p, "rewrite"), UNCHANGED <<node, issued, hidden, asked, torn, moved>>
    PROVE  NeuronInv'
<1>1. Right(Cmd(p), Nothing)
  BY DEF Right, Asking, Walleting
<1> QED
  BY <1>1, EndKeepsNeurons DEF Succeed, Fail

LEMMA WhichStep ==
    ASSUME NeuronInv, NEW p \in Procs, WhichWallet(p)
    PROVE  NeuronInv'
<1>1. Busy(p) /\ Cmd(p).op \in Walleting /\ ~At(p, "rewrite") /\ (Ready(p) \/ At(p, "again"))
  BY DEF WhichWallet, Looks, Runs, Busy, NeuronInv, JobsInv, At, Ready, Place, SubmissionPlace, WalletPlace
<1>2. UNCHANGED <<node, issued, hidden, asked, torn, moved>>
  BY DEF WhichWallet, walletVars
<1>3. CASE Fail(p)
  BY <1>1, <1>2, <1>3, WalletEnds
<1>4. ASSUME NEW place, NEW first, first = IF Ready(p) THEN <<>> ELSE Got(p),
             \/ Goto(p, "check", [first |-> first, place |-> place])
             \/ Goto(p, "none", [first |-> first])
      PROVE  NeuronInv'
  <2>1. Cmd(p).op = "remove" /\ first # <<>> => Cmd(p).confirm
    BY <1>1, <1>4 DEF NeuronInv, KnowsInv, Knows, Meant, At, Ready
  <2>2. Meant(p, "check", [first |-> first, place |-> place]) /\ Meant(p, "none", [first |-> first])
    BY <2>1 DEF Meant
  <2>3. Place("check", Cmd(p).op) /\ Place("none", Cmd(p).op)
    BY <1>1 DEF Place, WalletPlace
  <2> QED
    BY <1>1, <1>2, <1>4, <2>2, <2>3, WalletGoes
<1> QED
  BY <1>3, <1>4 DEF WhichWallet

LEMMA CheckStep ==
    ASSUME NeuronInv, NEW p \in Procs, CheckPath(p)
    PROVE  NeuronInv'
<1>1. Busy(p) /\ Cmd(p).op \in Walleting /\ ~At(p, "rewrite") /\ At(p, "check")
  BY DEF CheckPath, NeuronInv, JobsInv, At, Ready, Place, SubmissionPlace, WalletPlace
<1>2. UNCHANGED <<node, issued, hidden, asked, torn, moved>>
  BY DEF CheckPath, walletVars
<1>3. CASE Fail(p)
  BY <1>1, <1>2, <1>3, WalletEnds
<1>4. ASSUME NEW place, place = Got(p).place, PathAllowed(place, Selected(p)),
             NEW found, found = [first |-> Got(p).first, place |-> Real(place)],
             Goto(p, "found", found)
      PROVE  NeuronInv'
  <2>1. found.first = Got(p).first /\ found.place = Real(place)
    BY <1>4
  <2>2. Own(p, found.place)
    BY <1>4, <2>1 DEF Own, PathAllowed
  <2>3. Cmd(p).op = "remove" /\ found.first # <<>> => Cmd(p).confirm
    BY <1>1, <2>1 DEF NeuronInv, KnowsInv, Knows, Meant, At, Got
  <2>4. Meant(p, "found", found)
    BY <2>2, <2>3 DEF Meant
  <2>5. Place("found", Cmd(p).op)
    BY <1>1 DEF Place, WalletPlace
  <2> QED
    BY <1>1, <1>2, <1>4, <2>4, <2>5, WalletGoes
<1> QED
  BY <1>3, <1>4 DEF CheckPath

LEMMA NoWalletStep ==
    ASSUME NeuronInv, NEW p \in Procs, NoWallet(p)
    PROVE  NeuronInv'
<1>1. Busy(p) /\ Cmd(p).op \in Walleting /\ ~At(p, "rewrite")
  BY DEF NoWallet, NeuronInv, JobsInv, At, Ready, Place, SubmissionPlace, WalletPlace
<1>2. UNCHANGED <<node, issued, hidden, asked, torn, moved>>
  BY DEF NoWallet, walletVars
<1>3. CASE MakingWallet(p) /\ Goto(p, "make", <<>>)
  <2>1. Meant(p, "make", <<>>) /\ Place("make", Cmd(p).op)
    BY <1>3 DEF Meant, MakingWallet, Place, WalletPlace
  <2> QED
    BY <1>1, <1>2, <1>3, <2>1, WalletGoes
<1> QED
  BY <1>1, <1>2, <1>3, WalletEnds DEF NoWallet

LEMMA MakeStep ==
    ASSUME NeuronInv, NEW p \in Procs, MakeWallet(p)
    PROVE  NeuronInv'
<1>1. Busy(p) /\ Cmd(p).op \in {"create", "import"} /\ ~At(p, "rewrite") /\ Cmd(p).op \in Walleting
  BY DEF MakeWallet, NeuronInv, JobsInv, At, Ready, Place, SubmissionPlace, WalletPlace, Walleting
<1>2. UNCHANGED <<node, issued, hidden, asked, torn, moved>>
  BY DEF MakeWallet
<1>3. Goto(p, "again", <<"made">>) \/ Fail(p)
  BY DEF MakeWallet
<1>4. Meant(p, "again", <<"made">>) /\ Place("again", Cmd(p).op)
  BY <1>1 DEF Meant, Place, WalletPlace
<1> QED
  BY <1>1, <1>2, <1>3, <1>4, WalletEnds, WalletGoes

LEMMA FoundStep ==
    ASSUME NeuronInv, NEW p \in Procs, WalletFound(p)
    PROVE  NeuronInv'
<1>1. Busy(p) /\ Cmd(p).op \in Walleting /\ ~At(p, "rewrite") /\ At(p, "found")
  BY DEF WalletFound, NeuronInv, JobsInv, At, Ready, Place, SubmissionPlace, WalletPlace
<1>2. UNCHANGED <<node, issued, hidden, asked, torn, moved>>
  BY DEF WalletFound, walletVars
<1>3. PICK place : place = Got(p).place
  OBVIOUS
<1>4. Meant(p, "found", Got(p))
  BY <1>1 DEF NeuronInv, KnowsInv, Knows, At, Got
<1>5. CASE Goto(p, "again", <<place>>) /\ Cmd(p).confirm
  <2>1. Meant(p, "again", <<place>>) /\ Place("again", Cmd(p).op)
    BY <1>1, <1>5 DEF Meant, Place, WalletPlace
  <2> QED
    BY <1>1, <1>2, <1>5, <2>1, WalletGoes
<1>6. CASE Goto(p, "delete", place) /\ ~MakingWallet(p) /\ ~First(p)
  <2>1. Cmd(p).op = "remove"
    BY <1>1, <1>6 DEF MakingWallet, Walleting
  <2>2. Meant(p, "delete", place) /\ Place("delete", Cmd(p).op)
    BY <1>3, <1>4, <1>6, <2>1 DEF Meant, First, Place, WalletPlace
  <2> QED
    BY <1>1, <1>2, <1>6, <2>2, WalletGoes
<1> QED
  BY <1>1, <1>2, <1>3, <1>5, <1>6, WalletEnds DEF WalletFound

LEMMA RemoveStep ==
    ASSUME NeuronInv, NEW p \in Procs, RemoveWallet(p)
    PROVE  NeuronInv'
<1>1. Cmd(p).op \in Walleting /\ ~At(p, "rewrite")
  BY DEF RemoveWallet, NeuronInv, JobsInv, At, Ready, Place, SubmissionPlace, WalletPlace, Walleting
<1>2. UNCHANGED <<node, issued, hidden, asked, torn, moved>>
  BY DEF RemoveWallet
<1> QED
  BY <1>1, <1>2, WalletEnds DEF RemoveWallet

-----------------------------------------------------------------------------
(* All steps.                                                              *)

\* Commands that deploy are about something else.
LEMMA DeployStep ==
    ASSUME NeuronInv, NEW p \in Procs, SubmissionStep(p), UNCHANGED walletVars
    PROVE  NeuronInv'
<1>1. Busy(p) /\ Cmd(p).op \in Deploying \cup {"deploy"} /\ (Stays(p) \/ Ends(p))
  BY SubmissionMoves DEF NeuronInv
<1>2. UNCHANGED <<node, issued, hidden, asked, torn, moved>>
  BY DEF walletVars
<1>3. Cmd(p).op \notin Neurons \cup {"balance", "boxes", "add", "list", "remove", "create", "import"}
  BY <1>1 DEF Neurons, Asking, Changing, Walleting, Deploying
<1>4. ~At(p, "rewrite")
  BY <1>3 DEF NeuronInv, JobsInv, At, Ready, Place, SubmissionPlace, WalletPlace, Neurons
<1>5. CASE Stays(p)
  <2>1. PICK label, got : Goto(p, label, got) /\ Place(label, Cmd(p).op)
    BY <1>5 DEF Stays
  <2>2. label \notin {"network", "balance", "unconfirmed", "boxes", "add", "offline", "list", "filter",
                      "change", "truncate", "rewrite", "check", "none", "found", "again", "make", "delete"}
    BY <1>3, <2>1 DEF Place, SubmissionPlace, WalletPlace, Neurons
  <2>3. Knows(p, label, got)'
    BY <2>2 DEF Knows, Settled, Listed, Meant
  <2> QED
    BY <1>1, <1>2, <1>4, <2>1, <2>2, <2>3, GotoKeepsNeurons
<1>6. CASE Ends(p)
  <2>1. PICK ok, answer : Report(p, ok, answer)
    BY <1>6 DEF Ends
  <2>2. Right(Cmd(p), answer)
    BY <1>3 DEF Right, Neurons
  <2> QED
    BY <1>2, <1>4, <2>1, <2>2, EndKeepsNeurons
<1> QED
  BY <1>1, <1>5, <1>6

\* A process that is killed while the list is empty leaves it torn.
LEMMA KillStep ==
    ASSUME NeuronInv, NEW p \in Procs, Kill(p)
    PROVE  NeuronInv'
<1>1. PICK cmd : cmd = Cmd(p)
  OBVIOUS
<1>2. Report(p, FALSE, Nothing) /\ UNCHANGED <<node, issued, hidden, asked, moved>>
      /\ torn' = (torn \/ At(p, "rewrite"))
  BY DEF Kill, Fail
<1>3. torn' \in BOOLEAN /\ (torn => torn') /\ (At(p, "rewrite") => torn')
      /\ issued \in [Networks -> 0 .. MaxIndex]
  BY <1>2 DEF NeuronInv, TablesInv
<1> QED
  BY <1>1, <1>2, <1>3, ReportKeepsNeurons

\* The user saves the files, or moves the node under whatever is running.
LEMMA OutsideKeepsNeurons ==
    ASSUME NeuronInv, UNCHANGED <<jobVars, issued, hidden, asked, torn>>,
           UNCHANGED <<node, moved>> \/ \E n : MoveNode(n)
    PROVE  NeuronInv'
<1> USE DEF NeuronInv
<1>1. UNCHANGED <<case, job, reports, issued, hidden, asked, torn>> /\ Procs' = Procs
      /\ Networks' = Networks
  BY DEF jobVars, Procs, Networks
<1>2. JobsInv'
  BY <1>1 DEF JobsInv, IsSeq, Ready, Busy, Cmd, Place, SubmissionPlace, WalletPlace
<1>3. TablesInv'
  BY <1>1 DEF TablesInv
<1>4. KnowsInv'
  <2>1. ASSUME NEW p \in Procs PROVE Knows(p, job[p].at, job[p].got)'
    <3>1. Knows(p, job[p].at, job[p].got) /\ Cmd(p)' = Cmd(p) /\ Selected(p)' = Selected(p)
      BY <1>1 DEF KnowsInv, Cmd, Selected
    <3>2. Settled(p, job[p].at, job[p].got)'
      BY <1>1, <3>1 DEF Knows, Settled, MoveNode, Ready
    <3>3. Listed(p, job[p].at, job[p].got)'
      BY <1>1, <3>1 DEF Knows, Listed, Window
    <3>4. Meant(p, job[p].at, job[p].got)'
      BY <1>1, <3>1 DEF Knows, Meant, Own
    <3> QED
      BY <3>2, <3>3, <3>4 DEF Knows
  <2> QED
    BY <1>1, <2>1 DEF KnowsInv
<1>5. HiddenInv'
  <2>1. \A p \in Procs : /\ Writing(p)' = Writing(p) /\ Selected(p)' = Selected(p)
                         /\ At(p, "rewrite")' = At(p, "rewrite")
                         /\ Loaded(p, job[p].at, job[p].got)' = Loaded(p, job[p].at, job[p].got)
    BY <1>1 DEF Writing, Selected, Cmd, At, Loaded, Changed
  <2>2. Alone => Alone'
    BY <1>1, <2>1 DEF Alone
  <2> QED
    BY <1>1, <2>2 DEF HiddenInv
<1>6. AnswersAreRight'
  <2>1. Succeeded' = Succeeded /\ \A done \in Succeeded : AnswerAt(done)' = AnswerAt(done) /\ CmdAt(done)' = CmdAt(done)
    BY <1>1 DEF Succeeded, AnswerAt, Reported, CmdAt
  <2>2. \A done \in Succeeded : Right(CmdAt(done), AnswerAt(done))'
    BY <1>1, <2>1, AnswersAre DEF Right
  <2>3. AnswersAreRight' <=> \A done \in Succeeded' : Right(CmdAt(done), AnswerAt(done))'
    BY DEF AnswersAreRight, Right, Window
  <2> QED
    BY <2>1, <2>2, <2>3
<1> QED
  BY <1>2, <1>3, <1>4, <1>5, <1>6

LEMMA NeuronInvInit == Init => NeuronInv
<1> SUFFICES ASSUME Init PROVE NeuronInv
  OBVIOUS
<1> USE DEF Init, JobsInit, WalletInit
<1>1. PICK i \in DOMAIN Cases : case = Cases[i]
  OBVIOUS
<1>2. JobsInv
  BY SubmissionInvInit DEF SubmissionInv
<1>3. TablesInv
  BY <1>1, NeuronAssumption DEF TablesInv, Networks
<1>4. \A p \in Procs : job[p].at = "start"
  BY DEF Procs
<1>5. KnowsInv
  BY <1>4 DEF KnowsInv, Knows, Settled, Listed, Meant
<1>6. HiddenInv
  BY <1>4 DEF HiddenInv, Alone, Writing, Loaded
<1>7. Succeeded = {}
  BY EmptyIs DEF Succeeded, Procs
<1>8. AnswersAreRight
  BY <1>7 DEF AnswersAreRight
<1> QED
  BY <1>2, <1>3, <1>5, <1>6, <1>8 DEF NeuronInv

LEMMA NeuronInvStep == NeuronInv /\ [Next]_vars => NeuronInv'
<1> SUFFICES ASSUME NeuronInv, [Next]_vars PROVE NeuronInv'
  OBVIOUS
<1>1. ASSUME NEW p \in Procs, WalletStep(p) PROVE NeuronInv'
  BY <1>1, BeginStep, RequireStep, ConfirmedStep, AskingStep, ListKeysStep, RefuseStep, ListShownStep,
     LoadStep, ChangeStep, TruncateStep, WriteHiddenStep, WhichStep, CheckStep, NoWalletStep, MakeStep,
     FoundStep, RemoveStep DEF WalletStep
<1>2. CASE UNCHANGED vars
  BY <1>2, OutsideKeepsNeurons DEF vars, walletVars
<1>3. CASE Save /\ UNCHANGED walletVars
  BY <1>3, OutsideKeepsNeurons DEF Save, walletVars
<1>4. ASSUME NEW n, MoveNode(n) PROVE NeuronInv'
  BY <1>4, OutsideKeepsNeurons DEF MoveNode
<1> QED
  BY <1>1, <1>2, <1>3, <1>4, DeployStep, KillStep DEF Next, Step

\* A wallet goes when a process deletes the one that it has found twice.
LEMMA RemovalIsMeant ==
    ASSUME NeuronInv, Next, NEW place \in wallets \ wallets'
    PROVE  \E p \in Procs :
              /\ At(p, "delete")
              /\ Cmd(p).op = "remove" /\ Cmd(p).confirm
              /\ Selected(p) = place[2]
              /\ case.dataDir => place[1] = DataDir
<1>1. PICK p \in Procs : WalletStep(p)
  BY DEF Next, Step, Kill, MoveNode, walletVars
<1>2. RemoveWallet(p)
  BY <1>1 DEF WalletStep, Begin, RequireNodeNetwork, ConfirmedBalance, UnconfirmedBalance, ListUtxos,
              NextAddress, AddressAtIndex, ListKeys, Refuse, ListShown, LoadHidden, ChangeHidden,
              TruncateHidden, WriteHidden, WhichWallet, CheckPath, NoWallet, MakeWallet, WalletFound,
              RefuseWords, walletVars
<1>3. At(p, "delete") /\ place = Got(p)
  BY <1>2 DEF RemoveWallet
<1>4. Meant(p, "delete", Got(p)) /\ Cmd(p).op = "remove"
  BY <1>3 DEF NeuronInv, KnowsInv, Knows, At, Got, JobsInv, Ready, Place, SubmissionPlace, WalletPlace
<1> QED
  BY <1>3, <1>4 DEF Meant, Own

-----------------------------------------------------------------------------
\* However the commands of any number of processes interleave, and whenever the
\* node is moved, what the neuron commands need to go on holds (cli/neuron.rs,
\* cli/neptune.rs).
THEOREM NeuronsAreSound == Spec => []NeuronInv
BY NeuronInvInit, NeuronInvStep, PTL DEF Spec

\* Unless the node is moved under a command, its answer is of the selected
\* network and its list has the window that was asked for, for every start and
\* limit; and unless two commands have met on one list of hidden addresses or
\* one has failed in it, what is shown is what has not been hidden.
THEOREM AnswersStayRight == Spec => []AnswersAreRight
<1>1. NeuronInv => AnswersAreRight
  BY DEF NeuronInv
<1> QED
  BY <1>1, NeuronsAreSound, PTL

\* A wallet disappears only by a confirmed removal on its own network, in the
\* selected data directory, whatever the links and whatever neptune-cli says
\* (wallet_file in cli/neptune.rs, cmd_neuron_remove in cli/neuron.rs).
THEOREM OnlyMeantWalletsGo == Spec => WalletIsMeant
<1>1. NeuronInv /\ [Next]_vars =>
        [\A place \in wallets \ wallets' :
           \E p \in Procs :
              /\ At(p, "delete")
              /\ Cmd(p).op = "remove" /\ Cmd(p).confirm
              /\ Selected(p) = place[2]
              /\ case.dataDir => place[1] = DataDir]_vars
  BY RemovalIsMeant
<1> QED
  BY <1>1, NeuronsAreSound, PTL DEF Spec, WalletIsMeant

=============================================================================
