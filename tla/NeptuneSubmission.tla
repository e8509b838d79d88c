------------------------- MODULE NeptuneSubmission -------------------------
(***************************************************************************)
(* The commands deploy output, prepare, submit and --dry-run (cli/deploy,  *)
(* neptune/lib.rs, neptune/transport.rs).  They read the program and the   *)
(* intent from files that the user may save again at any time, write       *)
(* artifacts that never replace a file, and send one request to a gateway  *)
(* that may not get it, may refuse it, or may accept it without an answer  *)
(* that the command understands.                                           *)
(***************************************************************************)
EXTENDS CommandJobs, NeptuneTransaction

VARIABLES
    version,    \* the version of the user's files: an index into case.versions
    artifacts,  \* artifacts[path]: what the commands have written there
    received    \* the requests that gateways have received, in order

Deploying == {"output", "prepare", "submit"}

IsTuple(s) == DOMAIN s = 1 .. Len(s)

\* An artifact has a place on disk, and the outputs in an intent and in its
\* kernel are lists.
ASSUME SubmissionAssumption ==
    \A i \in DOMAIN Cases :
        LET c == Cases[i]
        IN  /\ Len(c.versions) \in Nat \ {0}
            /\ \A p \in DOMAIN c.scripts : \A turn \in 1 .. Len(c.scripts[p]) :
                  LET cmd == c.scripts[p][turn]
                  IN  /\ cmd.op \in {"output", "prepare"} => cmd.out \in c.paths
                      /\ cmd.op \in {"prepare", "submit"} =>
                            \A v \in 1 .. Len(c.versions) :
                                LET intent == c.versions[v].input.holds
                                IN  IsTuple(intent.outputs) /\ IsTuple(Kernel(intent).outputs)

submissionVars == <<version, artifacts, received>>

Files == case.versions[version]
Absent == [state |-> "absent"]

SubmissionInit ==
    /\ version = 1
    /\ artifacts = [path \in case.paths |-> Absent]
    /\ received = <<>>

\* The user saves the next version of the files.
Save ==
    /\ version < Len(case.versions)
    /\ version' = version + 1
    /\ UNCHANGED <<jobVars, artifacts, received>>

(***************************************************************************)
(* validated: compile the program, inspect the intent file, read it and    *)
(* prepare.  The file that is read need not be the file inspected.         *)
(***************************************************************************)
Small(file) == file.small

Compile(p) ==
    /\ Ready(p)
    /\ \E op \in Deploying : Runs(p, op)
    /\ IF (Cmd(p).op = "output" \/ Cmd(p).union = "neptune") /\ Parses(Files.program)
         THEN Goto(p, "inspect", Files.program)
         ELSE Fail(p)
    /\ UNCHANGED submissionVars

InspectInput(p) ==
    /\ At(p, "inspect")
    /\ IF Files.input.regular /\ Small(Files.input) THEN Goto(p, "read", Got(p)) ELSE Fail(p)
    /\ UNCHANGED submissionVars

\* What json::guard refuses is not deserialized.
Admitted(file) == Small(file) /\ file.guarded

ReadIntent(p) ==
    LET intent == Files.input.holds
        program == Got(p)
        from == [program |-> program, intent |-> intent]
    IN  /\ At(p, "read")
        /\ Cmd(p).op # "output"
        /\ IF Admitted(Files.input) /\ Prepares(program, intent, Cmd(p).network)
             THEN Goto(p, IF Cmd(p).op = "submit" THEN "auth" ELSE "create",
                       [tx |-> Prepare(intent), from |-> from])
             ELSE Fail(p)
        /\ UNCHANGED submissionVars

ReadSpec(p) ==
    LET spec == Files.input.holds
        program == Got(p)
        made == ConstructOutput(program, spec)
    IN  /\ At(p, "read")
        /\ Cmd(p).op = "output"
        /\ IF Admitted(Files.input) /\ Constructible(program, spec)
             THEN Goto(p, "create",
                       [intent |-> made, from |-> [program |-> program],
                        addition |-> Commit(Decoded(made.utxo), Decoded(spec.sender),
                                            Decoded(spec.receiver))])
             ELSE Fail(p)
        /\ UNCHANGED submissionVars

(***************************************************************************)
(* A new file with private permissions, then its contents.                 *)
(***************************************************************************)
\* Variant of Create: the file is opened without create_new.
CreateOrReplace(p) ==
    /\ At(p, "create")
    /\ artifacts' = [artifacts EXCEPT ![Cmd(p).out] = [state |-> "partial"]]
    /\ Goto(p, "write", Got(p))
    /\ UNCHANGED <<version, received>>

Create(p) ==
    /\ At(p, "create")
    /\ IF artifacts[Cmd(p).out] = Absent
         THEN /\ artifacts' = [artifacts EXCEPT ![Cmd(p).out] = [state |-> "partial"]]
              /\ Goto(p, "write", Got(p))
         ELSE Fail(p) /\ UNCHANGED artifacts
    /\ UNCHANGED <<version, received>>

\* An error leaves the file behind.
Write(p) ==
    /\ At(p, "write")
    /\ \/ /\ artifacts' = [artifacts EXCEPT ![Cmd(p).out] = [state |-> "whole", holds |-> Got(p)]]
          /\ Succeed(p, Got(p))
       \/ /\ Fail(p)
          /\ UNCHANGED artifacts
    /\ UNCHANGED <<version, received>>

(***************************************************************************)
(* GatewayAuth::from_file and transport::submit: inspect the auth file,    *)
(* then open it by its path, so that as above another file may be read;    *)
(* neither its kind nor its mode is looked at again.  The versions         *)
(* inspected and opened are kept for the properties.                       *)
(***************************************************************************)
Private(auth) == auth.regular /\ auth.private

InspectAuth(p) ==
    /\ At(p, "auth")
    /\ IF Private(Files.auth)
         THEN Goto(p, "open", [tx |-> Got(p).tx, from |-> Got(p).from, inspected |-> version])
         ELSE Fail(p)
    /\ UNCHANGED submissionVars

Binds(auth, network, endpoint) ==
    /\ auth.schema = 1
    /\ auth.network = network
    /\ auth.endpoint = endpoint
    /\ auth.token = "graphic"

\* A loopback host may be asked in the clear; credentials, a query or a
\* fragment are never part of the address.
Safe(endpoint) ==
    /\ endpoint.scheme \in IF endpoint.loopback THEN {"http", "https"} ELSE {"https"}
    /\ endpoint.bare

ReadAuth(p) ==
    /\ At(p, "open")
    /\ IF /\ Admitted(Files.auth)
          /\ Binds(Files.auth, Got(p).tx.network, Cmd(p).endpoint)
          /\ Safe(Cmd(p).endpoint)
         THEN Goto(p, "post", [tx |-> Got(p).tx, from |-> Got(p).from, auth |-> Files.auth,
                               inspected |-> Got(p).inspected, opened |-> version])
         ELSE Fail(p)
    /\ UNCHANGED submissionVars

\* One POST.  The gateway may not be reached, and may accept or refuse.
Post(p) ==
    /\ At(p, "post")
    /\ \/ Fail(p) /\ UNCHANGED received
       \/ \E accepted \in BOOLEAN :
            /\ received' = Append(received, [by |-> <<p, job[p].turn>>, sent |-> Got(p),
                                             accepted |-> accepted])
            /\ Goto(p, "answer", accepted)
    /\ UNCHANGED <<version, artifacts>>

\* What the gateway says: success only if it has accepted, and anything else.
Replies(accepted) == {reply \in case.replies : reply.success => accepted}

Confirms(reply) ==
    /\ reply.status = 200
    /\ Small(reply)
    /\ reply.guarded
    /\ reply.jsonrpc = "2.0"
    /\ reply.id = 1
    /\ ~reply.error
    /\ reply.success

\* No answer in time is as an answer that does not confirm.
Answer(p) ==
    /\ At(p, "answer")
    /\ \E reply \in Replies(Got(p)) :
          IF Confirms(reply) THEN Succeed(p, "gateway_accepted") ELSE Fail(p)
    /\ UNCHANGED submissionVars

(***************************************************************************)
(* deploy and deploy --dry-run: a plan is printed, a deployment refused.   *)
(***************************************************************************)
Plan(p) ==
    LET attached == Cmd(p).attached
    IN  /\ Ready(p)
        /\ Runs(p, "deploy")
        /\ IF Inspects(Files.program, attached) /\ Cmd(p).dryRun
             THEN Succeed(p, [lock |-> Hash(Files.program), proved |-> attached # NoProof])
             ELSE Fail(p)
        /\ UNCHANGED submissionVars

SubmissionStep(p) ==
    \/ Compile(p)
    \/ InspectInput(p)
    \/ ReadIntent(p)
    \/ ReadSpec(p)
    \/ Create(p)
    \/ Write(p)
    \/ InspectAuth(p)
    \/ ReadAuth(p)
    \/ Post(p)
    \/ Answer(p)
    \/ Plan(p)

=============================================================================
