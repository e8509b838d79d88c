--------------------------- MODULE MiningSession ---------------------------
(***************************************************************************)
(* A mining session against a live node: run of cli/mining_session.rs with *)
(* the closures run_neptune of cli/mine.rs gives it.  The session fetches  *)
(* a template, searches batch after batch of one attempt budget, fetches   *)
(* again before it submits and ends when the node accepts a block, when    *)
(* the budget is spent or at the first error.                              *)
(*                                                                         *)
(* The node is external: its tip moves, forwards over a fork or back in a  *)
(* reorganisation, between any two steps of the session; a request or its  *)
(* answer can be lost or outlive the timeout of the client; an answer to a *)
(* fetch can be malformed.  One batch is one step here: what happens       *)
(* inside is MiningRange, and the step relies on RangeSearch only.         *)
(*                                                                         *)
(* Blocks and proofs of work are abstracted to the template they belong    *)
(* to and the attempt that was found.                                      *)
(***************************************************************************)
EXTENDS Integers, FiniteSets

CONSTANTS Tips,      (* block digests the node can have as its tip         *)
          Masts,     (* the compositions of a block on one tip             *)
          Chains,    (* <<network, height of the block on each tip>>       *)
          Requests,  (* the --backend values in use                        *)
          Limits,    (* the --max-attempts values in use                   *)
          Batch,     (* 4096, the attempts between two fetches             *)
          MaxU64     (* u64::MAX                                           *)

ASSUME BatchAssumption == Batch \in Nat \ {0}
ASSUME LimitsAssumption == MaxU64 \in Nat /\ Limits \subseteq 0 .. MaxU64
ASSUME ChainsAssumption == \A c \in Chains : c[2] \in [Tips -> Nat]
ASSUME RequestsAssumption == Requests \subseteq {"cpu", "honeycrisp", "gpu", "auto"}

VARIABLES
  network, height,   (* the selected network, heights on the node's chain  *)
  request, device,   (* --backend, whether a GPU miner was initialised     *)
  limit, spent,      (* the budget of the session and what it has used     *)
  pc,                (* the step of run that is next                       *)
  template, latest,  (* the template mined on, the one fetched after it    *)
  result,            (* {} or the {attempt} the last batch found           *)
  legacy,            (* {} or the {<<prefix, reversed>>} of the buffer     *)
  outcome,           (* what run has returned                              *)
  tip,               (* the node's tip                                     *)
  wire,              (* the submission on its way to the node              *)
  reply,             (* {} or the node's {success} on its way back         *)
  accepted,          (* history: the submissions the node accepted         *)
  mined, searched,   (* history: attempts searched, and how many           *)
  devices,           (* history: what they were searched on                *)
  served,            (* history: the tip the last fetch was answered on    *)
  refreshed          (* history: a fetch followed the last rejection       *)

setup == <<network, height, request, device, limit>>
node == <<tip, wire, reply, accepted>>
work == <<mined, searched, devices>>
vars == <<network, height, request, device, limit, spent, pc, template, latest,
          result, legacy, outcome, tip, wire, reply, accepted, mined, searched,
          devices, served, refreshed>>

-----------------------------------------------------------------------------
(* The fork schedule and the choice of a backend.                          *)

MainForks == <<15000, 23401, 38000, 40300>>
TestnetForks == <<120, 3571, 3669, 4650>>
Rules == <<"Reboot", "Alpha", "Tvm1", "Beta", "Gamma">>

\* testnet-00 is test network 0 too; any other test network has no forks.
TestnetZero == {"testnet", "testnet-0", "testnet-00"}
NoForks == {"regtest", "testnet-mock", "testnet-1"}
Networks == {"main"} \cup TestnetZero \cup NoForks

\* rule: the consensus rule of a block, by network and height alone.
Rule(n, h) ==
    LET forks == IF n = "main" THEN MainForks ELSE TestnetForks
    IN IF n \in NoForks THEN "Gamma"
       ELSE Rules[1 + Cardinality({i \in 1 .. 4 : h >= forks[i]})]

Fast(rule) == rule \in {"Beta", "Gamma"}

\* backend: a GPU that is asked for and missing is refused, never replaced.
Backend(req, available) ==
    CASE req \in {"cpu", "honeycrisp"} -> "Cpu"
      [] req = "gpu" -> IF available THEN "Gpu" ELSE "refused"
      [] req = "auto" -> IF available THEN "Combined" ELSE "Cpu"

-----------------------------------------------------------------------------
(* Fetching and parsing a template.                                        *)

\* What mining_getBlockTemplate can answer on a tip: no template at all, or
\* metadata and a block header that need not agree.
Answers(t) ==
    [kind : {"null"}]
    \cup [kind : {"template"}, parent : Tips, header : {t}, version : BOOLEAN,
          lustration : BOOLEAN, mast : Masts]

\* Template::parse succeeds: the network is known, metadata and header have
\* the same parent and, on a fast rule, the same version and lustration.
Parses(a) ==
    /\ a.kind = "template"
    /\ network \in Networks
    /\ a.parent = a.header
    /\ Fast(Rule(network, height[a.header])) => a.version /\ a.lustration

\* Template::parse: what the session keeps, the block standing for its header.
Parse(a) == [parent |-> a.parent, block |-> a.header, mast |-> a.mast,
             rule |-> Rule(network, height[a.header])]

NoTemplate == [parent |-> "none", block |-> "none", mast |-> "none", rule |-> "none"]

\* run returns an error, or the process ends in a panic.
Fail ==
    /\ pc' = "done"
    /\ outcome' = "error"
    /\ UNCHANGED <<setup, spent, template, latest, result, legacy, node, work,
                   served, refreshed>>

\* let mut template = Template::parse(fetch()?)?
FetchFirst ==
    /\ pc = "fetch"
    /\ \E a \in Answers(tip) : Parses(a) /\ template' = Parse(a)
    /\ pc' = "loop"
    /\ served' = tip
    /\ refreshed' = TRUE
    /\ UNCHANGED <<setup, spent, latest, result, legacy, outcome, node, work>>

\* let latest = Template::parse(fetch()?)?
Refresh ==
    /\ pc = "refresh"
    /\ \E a \in Answers(tip) : Parses(a) /\ latest' = Parse(a)
    /\ pc' = "decide"
    /\ served' = tip
    /\ refreshed' = TRUE
    /\ UNCHANGED <<setup, spent, template, result, legacy, outcome, node, work>>

\* The ? after fetch and after parse.  A transport error and a node on
\* another network fail like a malformed answer; a result in hand is lost.
FetchFails == pc \in {"fetch", "refresh"} /\ Fail

-----------------------------------------------------------------------------
(* One batch.                                                              *)

\* Variants of More: one turn too many; no turn for a last partial batch.
MoreAtLimit == spent <= limit
MoreFullBatch == spent + Batch <= limit

\* while spent < limit
More == spent < limit

\* let count = (limit - spent).min(4096)
Count == IF limit - spent < Batch THEN limit - spent ELSE Batch

\* The leaf prefix and order of the legacy buffer for a template.
Reversed(t) == t.rule # "Reboot"
Prefix(t) == IF Reversed(t) THEN t.parent ELSE t.mast

\* Variant of Cached: the order alone decides.
CachedOrder(t) == \E b \in legacy : b[2] = Reversed(t)

\* The buffer in hand is for this prefix and this order.
Cached(t) == \E b \in legacy : b[1] = Prefix(t) /\ b[2] = Reversed(t)

\* Variant of Refused: legacy work falls back to the host.
RefusedNever(t) == FALSE

\* Memory-hard mining exists on the host only.
Refused(t) == ~Fast(t.rule) /\ Backend(request, device) = "Gpu"

Exhausted ==
    /\ pc = "loop" /\ ~More
    /\ pc' = "done"
    /\ outcome' = "exhausted"
    /\ UNCHANGED <<setup, spent, template, latest, result, legacy, node, work,
                   served, refreshed>>

RefuseLegacy == pc = "loop" /\ More /\ Refused(template) /\ Fail

\* A fast rule and a buffer that still fits need no preparation.
Prepared ==
    /\ pc = "loop" /\ More /\ ~Refused(template)
    /\ Fast(template.rule) \/ Cached(template)
    /\ pc' = "search"
    /\ UNCHANGED <<setup, spent, template, latest, result, legacy, outcome, node,
                   work, served, refreshed>>

\* The old buffer is dropped before the next one is allocated.
DropBuffer ==
    /\ pc = "loop" /\ More /\ ~Refused(template)
    /\ ~Fast(template.rule) /\ ~Cached(template)
    /\ legacy' = {}
    /\ pc' = "build"
    /\ UNCHANGED <<setup, spent, template, latest, result, outcome, node, work,
                   served, refreshed>>

BuildBuffer ==
    /\ pc = "build"
    /\ legacy' = legacy \cup {<<Prefix(template), Reversed(template)>>}
    /\ pc' = "search"
    /\ UNCHANGED <<setup, spent, template, latest, result, outcome, node, work,
                   served, refreshed>>

\* Where the closure of run_neptune searches.
SearchedOn(t) ==
    IF Fast(t.rule) /\ device
    THEN {"gpu"} \cup (IF Backend(request, device) = "Combined" THEN {"cpu"} ELSE {})
    ELSE {"cpu"}

\* Variant of Spend: a batch that found something costs nothing.
SpendOnMiss == IF result' = {} THEN spent + Count ELSE spent

\* spent += count, whatever the batch found.
Spend == spent + Count

\* mine(&template, spent, count): none of the attempts or any one of them.
Search ==
    /\ pc = "search"
    /\ result' \in {{}} \cup {{a} : a \in spent .. spent + Count - 1}
    /\ mined' = mined \cup (spent .. spent + Count - 1)
    /\ searched' = searched + Count
    /\ devices' = devices \cup SearchedOn(template)
    /\ spent' = Spend
    /\ pc' = "refresh"
    /\ UNCHANGED <<setup, template, latest, legacy, outcome, node, served, refreshed>>

\* A search may panic, see RangeSearch.
SearchPanics == pc = "search" /\ Fail

-----------------------------------------------------------------------------
(* Submitting.                                                             *)

\* Variant of Current: the refreshed template is not compared.
CurrentAlways == TRUE

\* latest.parent == template.parent
Current == latest.parent = template.parent

\* Nothing found, or found on a parent that is gone: on with the next batch.
Discard ==
    /\ pc = "decide"
    /\ result = {} \/ ~Current
    /\ template' = latest
    /\ result' = {}
    /\ pc' = "loop"
    /\ UNCHANGED <<setup, spent, latest, legacy, outcome, node, work, served, refreshed>>

\* submit(&template.block, pow): the block the result was mined on.
Submit ==
    /\ pc = "decide" /\ result # {} /\ Current
    /\ wire' = {[block |-> template, attempt |-> a] : a \in result}
    /\ pc' = "await"
    /\ UNCHANGED <<setup, spent, template, latest, result, legacy, outcome, tip,
                   reply, accepted, work, served, refreshed>>

\* The answer true ends the session.
Accepted ==
    /\ pc = "await" /\ TRUE \in reply
    /\ reply' = {}
    /\ pc' = "done"
    /\ outcome' = "accepted"
    /\ UNCHANGED <<setup, spent, template, latest, result, legacy, tip, wire,
                   accepted, work, served, refreshed>>

\* After the answer false the loop goes on with the template it fetched
\* before it submitted.
GoOn ==
    /\ template' = latest
    /\ result' = {}
    /\ pc' = "loop"
    /\ UNCHANGED <<setup, spent, latest, legacy, outcome, tip, accepted, work, served>>

Rejected ==
    /\ pc = "await" /\ FALSE \in reply
    /\ reply' = {}
    /\ refreshed' = FALSE
    /\ GoOn
    /\ UNCHANGED wire

\* Variant of SubmitFails: no answer counts as a rejection.
SubmitGoesOn ==
    /\ pc = "await"
    /\ GoOn
    /\ UNCHANGED <<wire, reply, refreshed>>

\* No answer within the timeout, or an answer that is no verdict: the ? after
\* submit ends the session.  The request may still reach the node.
SubmitFails == pc = "await" /\ Fail

-----------------------------------------------------------------------------
(* The node.                                                               *)

\* A valid block on the tip can be accepted, and the tip moves on to it.
NodeAccepts ==
    /\ \E s \in wire :
          /\ s.block.block = tip
          /\ accepted' = accepted \cup {s}
    /\ tip' \in Tips \ {tip}
    /\ wire' = {}
    /\ reply' = {TRUE}
    /\ UNCHANGED <<setup, spent, pc, template, latest, result, legacy, outcome, work,
                   served, refreshed>>

\* Any block can be rejected: its tip is gone, or its contents no longer fit.
NodeRejects ==
    /\ wire # {}
    /\ wire' = {}
    /\ reply' = {FALSE}
    /\ UNCHANGED <<setup, spent, pc, template, latest, result, legacy, outcome, tip,
                   accepted, work, served, refreshed>>

\* A request or an answer is lost.
Lose ==
    /\ wire # {} \/ reply # {}
    /\ wire' = {} /\ reply' = {}
    /\ UNCHANGED <<setup, spent, pc, template, latest, result, legacy, outcome, tip,
                   accepted, work, served, refreshed>>

\* Another block arrives, or a reorganisation.
TipMoves ==
    /\ tip' \in Tips \ {tip}
    /\ UNCHANGED <<setup, spent, pc, template, latest, result, legacy, outcome, wire,
                   reply, accepted, work, served, refreshed>>

-----------------------------------------------------------------------------

\* The GPU miner is initialised for gpu and auto only; a refused backend ends
\* the session before its first fetch.
Init ==
    /\ \E c \in Chains : network = c[1] /\ height = c[2]
    /\ request \in Requests
    /\ device \in IF request \in {"gpu", "auto"} THEN BOOLEAN ELSE {FALSE}
    /\ limit \in Limits
    /\ spent = 0
    /\ pc = IF Backend(request, device) = "refused" THEN "done" ELSE "fetch"
    /\ outcome = IF Backend(request, device) = "refused" THEN "error" ELSE "pending"
    /\ template = NoTemplate /\ latest = NoTemplate
    /\ result = {} /\ legacy = {}
    /\ tip \in Tips
    /\ wire = {} /\ reply = {} /\ accepted = {}
    /\ mined = {} /\ searched = 0 /\ devices = {}
    /\ served = tip
    /\ refreshed = TRUE

SessionStep ==
    \/ FetchFirst \/ Refresh \/ FetchFails
    \/ Exhausted \/ RefuseLegacy \/ Prepared \/ DropBuffer \/ BuildBuffer
    \/ Search \/ SearchPanics
    \/ Discard \/ Submit \/ Accepted \/ Rejected \/ SubmitFails

NodeStep == NodeAccepts \/ NodeRejects \/ Lose \/ TipMoves

Next == SessionStep \/ NodeStep

\* Every call of the session ends, by its answer or by its timeout.  Nothing
\* is assumed of the node.
Spec == Init /\ [][Next]_vars /\ WF_vars(SessionStep)

-----------------------------------------------------------------------------
(* Properties.                                                             *)

Templates ==
    [parent : Tips, block : Tips, mast : Masts,
     rule : {"Reboot", "Alpha", "Tvm1", "Beta", "Gamma"}]

Submissions == [block : Templates, attempt : 0 .. MaxU64]

\* The variables hold what their comments say; in particular spent is a u64.
TypeOK ==
    /\ limit \in 0 .. MaxU64 /\ spent \in 0 .. MaxU64
    /\ pc \in {"fetch", "loop", "build", "search", "refresh", "decide", "await", "done"}
    /\ template \in Templates \cup {NoTemplate}
    /\ latest \in Templates \cup {NoTemplate}
    /\ result \subseteq 0 .. MaxU64
    /\ legacy \subseteq (Tips \cup Masts) \X BOOLEAN
    /\ outcome \in {"pending", "accepted", "exhausted", "error"}
    /\ tip \in Tips /\ served \in Tips
    /\ wire \subseteq Submissions /\ accepted \subseteq Submissions
    /\ reply \subseteq BOOLEAN
    /\ mined \subseteq 0 .. MaxU64 /\ searched \in Nat
    /\ devices \subseteq {"cpu", "gpu"}
    /\ refreshed \in BOOLEAN

\* One budget for the whole session: across refreshes, stale results and
\* rejections no attempt is searched twice and none past the limit, and the
\* next batch is a range the search accepts (its checked_add cannot panic).
BudgetHolds ==
    /\ mined = 0 .. searched - 1
    /\ searched <= limit
    /\ pc = "search" => spent + Count <= MaxU64
    /\ outcome = "exhausted" => searched = limit

\* What is on the wire was mined on the very block it carries, and that block
\* stands on the tip the last fetch before it was answered on, though the
\* batch began at least one fetch earlier.
SubmissionIsCurrent ==
    pc = "await" => \A s \in wire :
        /\ s.block = template /\ s.attempt \in result
        /\ s.block.block = served

\* A session gets at most one block accepted, even if the answer is lost and
\* the request outlives its timeout; and it reports a block as accepted only
\* if it is that one.
OneBlockPerSession ==
    /\ Cardinality(accepted) <= 1
    /\ outcome = "accepted" => \E s \in accepted : s.block = template /\ s.attempt \in result

\* A legacy search uses a buffer of its template's prefix and order, whatever
\* was cached for earlier templates, and two buffers never exist at once.
BufferMatches ==
    /\ pc = "search" /\ ~Fast(template.rule) =>
          legacy = {<<Prefix(template), Reversed(template)>>}
    /\ pc = "build" => legacy = {}

\* An explicit backend is honoured to the end, even when the node's tip
\* crosses the fork between memory-hard and fast mining.
SelectionHonored ==
    /\ request = "gpu" => devices \subseteq {"gpu"}
    /\ request \in {"cpu", "honeycrisp"} => devices \subseteq {"cpu"}

\* The session ends, however the node behaves.
SessionEnds == <>(pc = "done")

\* To its user a session is one bounded search that wins when the node accepts.
Session == INSTANCE RangeSearch WITH
    Finders <- {"session"},
    range <- 0 .. limit - 1,
    untried <- (0 .. limit - 1) \ mined,
    winner <- {<<"session", s.attempt>> : s \in accepted},
    ret <- CASE outcome = "pending" -> "pending"
             [] outcome = "accepted" -> "found"
             [] outcome = "exhausted" -> "none"
             [] outcome = "error" -> "panic"

SessionImplementsSearch == Session!SearchSpec

\* mining.md: "Submission rejection refreshes the template".  No batch is
\* searched between a rejection and the next fetch.
RejectionRefreshes == pc = "search" => refreshed

=============================================================================
