---------------------------- MODULE CommandJobs ----------------------------
(***************************************************************************)
(* Several trisha processes of one user.  A process executes the commands  *)
(* of its script, one after the other, each of which ends in a report: an  *)
(* answer with exit status 0, or an error.  A process can be killed        *)
(* between any two of its steps; what it has written stays.                *)
(***************************************************************************)
EXTENDS Integers, Sequences

CONSTANTS
    Cases,      \* the situations, each with the scripts of its processes
    MaxTurns    \* bound on the commands of a script

ASSUME CasesAssumption ==
    /\ MaxTurns \in Nat
    /\ \A i \in DOMAIN Cases : \A p \in DOMAIN Cases[i].scripts :
          Len(Cases[i].scripts[p]) \in 0 .. MaxTurns

VARIABLES
    case,       \* the situation
    job,        \* job[p]: the command of process p and how far it is
    reports     \* reports[p]: what the commands of process p have reported

jobVars == <<case, job, reports>>

Procs == DOMAIN case.scripts
Nothing == {}

Cmd(p) == case.scripts[p][job[p].turn]
Runs(p, op) == job[p].turn <= Len(case.scripts[p]) /\ Cmd(p).op = op

\* Before its first step, between two commands and after its last step.
Ready(p) == job[p].at = "start"
At(p, label) == job[p].at = label
Got(p) == job[p].got

JobsInit ==
    /\ \E i \in DOMAIN Cases : case = Cases[i]
    /\ job = [p \in DOMAIN case.scripts |-> [turn |-> 1, at |-> "start", got |-> Nothing]]
    /\ reports = [p \in DOMAIN case.scripts |-> <<>>]

Goto(p, label, got) ==
    /\ job' = [job EXCEPT ![p] = [turn |-> job[p].turn, at |-> label, got |-> got]]
    /\ UNCHANGED <<case, reports>>

Report(p, ok, answer) ==
    /\ reports' = [reports EXCEPT ![p] = Append(@, [ok |-> ok, answer |-> answer])]
    /\ job' = [job EXCEPT ![p] = [turn |-> job[p].turn + 1, at |-> "start", got |-> Nothing]]
    /\ UNCHANGED case

\* The commands that have succeeded, each with its process and its answer.
Reported(done) == reports[done[1]][done[2]]
Succeeded == {done \in Procs \X (1 .. MaxTurns) : done[2] \in DOMAIN reports[done[1]] /\ Reported(done).ok}
CmdAt(done) == case.scripts[done[1]][done[2]]
AnswerAt(done) == Reported(done).answer

Succeed(p, answer) == Report(p, TRUE, answer)
Fail(p) == Report(p, FALSE, Nothing)

=============================================================================
