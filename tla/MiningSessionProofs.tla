------------------------ MODULE MiningSessionProofs ------------------------
(***************************************************************************)
(* Proofs about a mining session, for any budget up to u64::MAX, any batch *)
(* size, any set of tips and any schedule of the heights on them.          *)
(***************************************************************************)
EXTENDS MiningSession, FiniteSetTheorems, TLAPS

-----------------------------------------------------------------------------
(* The inductive invariant, part by part.                                  *)

\* The budget is one counter, and a batch starts only below the limit.
BudgetInv ==
    /\ mined = 0 .. spent - 1 /\ searched = spent /\ spent <= limit
    /\ pc \in {"build", "search"} => spent < limit
    /\ outcome = "exhausted" => spent = limit

\* A template is in hand from the first fetch on, a later one from the
\* second; both stand on the header they came with.
TemplateInv ==
    /\ pc \notin {"fetch", "done"} => template \in Templates
    /\ pc \in {"decide", "await"} => latest \in Templates /\ latest.block = served
    /\ template.parent = template.block /\ latest.parent = latest.block
    /\ pc = "await" => latest.parent = template.parent

\* A result belongs to the batch that has just ended.
ResultInv ==
    /\ result \subseteq mined
    /\ \A a, b \in result : a = b
    /\ pc \in {"fetch", "loop", "build", "search"} => result = {}

\* What is on its way to or from the node is the result in hand, and goes
\* one way at a time.
WireInv ==
    /\ wire \cup accepted \subseteq {[block |-> template, attempt |-> a] : a \in result}
    /\ wire # {} \/ reply # {} => pc \in {"await", "done"}
    /\ reply \in {{}, {TRUE}, {FALSE}}
    /\ wire # {} => reply = {} /\ outcome # "exhausted"

\* An accepted block is final: no path leads from it to another batch.
AcceptedInv ==
    /\ accepted # {} => pc \in {"await", "done"} /\ wire = {} /\ FALSE \notin reply
    /\ TRUE \in reply \/ outcome = "accepted" => accepted # {}
    /\ accepted # {} => outcome # "exhausted"

\* run has returned when it is done and not before.
OutcomeInv == (pc = "done") <=> (outcome # "pending")

\* The buffer is right where it is used.  A legacy search is never refused
\* work, so an explicit GPU session has not used the host.
DeviceInv ==
    /\ BufferMatches
    /\ \A b \in legacy : \A c \in legacy : b = c
    /\ SelectionHonored
    /\ pc \in {"build", "search"} => ~Refused(template)
    /\ pc = "build" => ~Fast(template.rule)
    /\ request = "gpu" /\ pc # "done" => device
    /\ request \in {"cpu", "honeycrisp"} => ~device
    /\ request \in Requests /\ device \in BOOLEAN

IInv ==
    /\ TypeOK /\ BudgetInv /\ TemplateInv /\ ResultInv /\ WireInv /\ AcceptedInv
    /\ OutcomeInv /\ DeviceInv

-----------------------------------------------------------------------------
(* The operators the session is built from.                                *)

\* There are n numbers from 1 to n.
LEMMA FirstNumbers ==
    ASSUME NEW n \in Nat
    PROVE  IsFiniteSet(1 .. n) /\ Cardinality(1 .. n) = n
BY FS_Interval

\* The schedule always names one of the five rules.
LEMMA RuleIsNamed ==
    ASSUME NEW n, NEW h
    PROVE  Rule(n, h) \in {"Reboot", "Alpha", "Tvm1", "Beta", "Gamma"}
<1> DEFINE forks == IF n = "main" THEN MainForks ELSE TestnetForks
<1> DEFINE P == {i \in 1 .. 4 : h >= forks[i]}
<1>1. IsFiniteSet(1 .. 4) /\ Cardinality(1 .. 4) = 4
  BY FirstNumbers
<1>2. IsFiniteSet(P) /\ Cardinality(P) <= 4
  BY <1>1, FS_Subset
<1>3. Cardinality(P) \in 0 .. 4
  BY <1>2, FS_CardinalityType
<1> HIDE DEF P
<1>4. 1 + Cardinality(P) \in 1 .. 5
  BY <1>3
<1>5. Rules[1 + Cardinality(P)] \in {"Reboot", "Alpha", "Tvm1", "Beta", "Gamma"}
  BY <1>4 DEF Rules
<1> QED
  BY <1>5 DEF Rule, P

\* What parses is a template whose metadata and header agree on the parent.
LEMMA ParsedTemplate ==
    ASSUME NEW t \in Tips, NEW a \in Answers(t), Parses(a)
    PROVE  Parse(a) \in Templates /\ Parse(a).block = t /\ Parse(a).parent = t
<1>1. a.parent = t /\ a.header = t /\ a.mast \in Masts
  BY DEF Parses, Answers
<1> QED
  BY <1>1, RuleIsNamed DEF Parse, Templates

\* A batch is never empty below the limit and never goes past it.
LEMMA CountBounds ==
    ASSUME TypeOK, spent < limit
    PROVE  /\ Count \in Nat \ {0}
           /\ spent + Count <= limit
           /\ spent + Count \in 0 .. MaxU64
BY BatchAssumption, LimitsAssumption DEF TypeOK, Count

\* Two adjacent intervals make one.
LEMMA JoinIntervals ==
    ASSUME NEW m \in Nat, NEW k \in Nat
    PROVE  (0 .. m - 1) \cup (m .. m + k - 1) = 0 .. m + k - 1
OBVIOUS

-----------------------------------------------------------------------------
(* One lemma per step.                                                     *)

\* The first template is the one the node composed on its tip.
LEMMA FetchFirstStep ==
    ASSUME IInv, FetchFirst
    PROVE  IInv'
<1> USE DEF IInv, FetchFirst, setup, node, work
<1>0. PICK a \in Answers(tip) : Parses(a) /\ template' = Parse(a)
  OBVIOUS
<1>00. template' \in Templates /\ template'.block = tip /\ template'.parent = tip
  BY <1>0, ParsedTemplate DEF TypeOK
<1>1. TypeOK'
  BY <1>00 DEF TypeOK
<1>2. BudgetInv'
  BY DEF BudgetInv
<1>3. TemplateInv'
  BY <1>00 DEF TemplateInv
<1>4. ResultInv'
  BY DEF ResultInv
<1>5. WireInv'
  <2>1. wire = {} /\ accepted = {}
    BY DEF WireInv, AcceptedInv
  <2> QED
    BY <2>1 DEF WireInv
<1>6. AcceptedInv'
  BY DEF AcceptedInv
<1>7. OutcomeInv'
  BY DEF OutcomeInv
<1>8. DeviceInv'
  BY DEF DeviceInv, BufferMatches, SelectionHonored, Refused, Prefix, Reversed
<1> QED
  BY <1>1, <1>2, <1>3, <1>4, <1>5, <1>6, <1>7, <1>8

\* So is each later one; what was found meanwhile is kept.
LEMMA RefreshStep ==
    ASSUME IInv, Refresh
    PROVE  IInv'
<1> USE DEF IInv, Refresh, setup, node, work
<1>0. PICK a \in Answers(tip) : Parses(a) /\ latest' = Parse(a)
  OBVIOUS
<1>00. latest' \in Templates /\ latest'.block = tip /\ latest'.parent = tip
  BY <1>0, ParsedTemplate DEF TypeOK
<1>1. TypeOK'
  BY <1>00 DEF TypeOK
<1>2. BudgetInv'
  BY DEF BudgetInv
<1>3. TemplateInv'
  BY <1>00 DEF TemplateInv
<1>4. ResultInv'
  BY DEF ResultInv
<1>5. WireInv'
  BY DEF WireInv
<1>6. AcceptedInv'
  BY DEF AcceptedInv
<1>7. OutcomeInv'
  BY DEF OutcomeInv
<1>8. DeviceInv'
  BY DEF DeviceInv, BufferMatches, SelectionHonored, Refused, Prefix, Reversed
<1> QED
  BY <1>1, <1>2, <1>3, <1>4, <1>5, <1>6, <1>7, <1>8

\* Any error ends the session with what it had.
LEMMA FailStep ==
    ASSUME IInv, Fail
    PROVE  IInv'
<1> USE DEF IInv, Fail, setup, node, work
<1>1. TypeOK'
  BY DEF TypeOK
<1>2. BudgetInv'
  BY DEF BudgetInv
<1>3. TemplateInv'
  BY DEF TemplateInv
<1>4. ResultInv'
  BY DEF ResultInv
<1>5. WireInv'
  BY DEF WireInv
<1>6. AcceptedInv'
  BY DEF AcceptedInv
<1>7. OutcomeInv'
  BY DEF OutcomeInv
<1>8. DeviceInv'
  BY DEF DeviceInv, BufferMatches, SelectionHonored, Refused, Prefix, Reversed
<1> QED
  BY <1>1, <1>2, <1>3, <1>4, <1>5, <1>6, <1>7, <1>8

\* Only a spent budget is reported as exhausted.
LEMMA ExhaustedStep ==
    ASSUME IInv, Exhausted
    PROVE  IInv'
<1> USE DEF IInv, Exhausted, setup, node, work
<1>1. TypeOK'
  BY DEF TypeOK
<1>2. BudgetInv'
  BY LimitsAssumption DEF BudgetInv, More, TypeOK
<1>3. TemplateInv'
  BY DEF TemplateInv
<1>4. ResultInv'
  BY DEF ResultInv
<1>5. WireInv'
  BY DEF WireInv
<1>6. AcceptedInv'
  BY DEF AcceptedInv
<1>7. OutcomeInv'
  BY DEF OutcomeInv
<1>8. DeviceInv'
  BY DEF DeviceInv, BufferMatches, SelectionHonored, Refused, Prefix, Reversed
<1> QED
  BY <1>1, <1>2, <1>3, <1>4, <1>5, <1>6, <1>7, <1>8

\* A batch starts with a buffer that fits, if it needs one.
LEMMA PreparedStep ==
    ASSUME IInv, Prepared
    PROVE  IInv'
<1> USE DEF IInv, Prepared, setup, node, work
<1>1. TypeOK'
  BY DEF TypeOK
<1>2. BudgetInv'
  BY DEF BudgetInv, More
<1>3. TemplateInv'
  BY DEF TemplateInv
<1>4. ResultInv'
  BY DEF ResultInv
<1>5. WireInv'
  BY DEF WireInv
<1>6. AcceptedInv'
  BY DEF AcceptedInv
<1>7. OutcomeInv'
  BY DEF OutcomeInv
<1>8. DeviceInv'
  BY DEF Cached, TypeOK, DeviceInv, BufferMatches, SelectionHonored, Refused, Prefix, Reversed
<1> QED
  BY <1>1, <1>2, <1>3, <1>4, <1>5, <1>6, <1>7, <1>8

\* The buffer that does not fit is gone before the next is built.
LEMMA DropBufferStep ==
    ASSUME IInv, DropBuffer
    PROVE  IInv'
<1> USE DEF IInv, DropBuffer, setup, node, work
<1>1. TypeOK'
  BY DEF TypeOK
<1>2. BudgetInv'
  BY DEF BudgetInv, More
<1>3. TemplateInv'
  BY DEF TemplateInv
<1>4. ResultInv'
  BY DEF ResultInv
<1>5. WireInv'
  BY DEF WireInv
<1>6. AcceptedInv'
  BY DEF AcceptedInv
<1>7. OutcomeInv'
  BY DEF OutcomeInv
<1>8. DeviceInv'
  BY DEF DeviceInv, BufferMatches, SelectionHonored, Refused, Prefix, Reversed
<1> QED
  BY <1>1, <1>2, <1>3, <1>4, <1>5, <1>6, <1>7, <1>8

\* The buffer built is the only one, and fits.
LEMMA BuildBufferStep ==
    ASSUME IInv, BuildBuffer
    PROVE  IInv'
<1> USE DEF IInv, BuildBuffer, setup, node, work
<1>1. TypeOK'
  <2>1. template \in Templates
    BY DEF TemplateInv
  <2>2. <<Prefix(template), Reversed(template)>> \in (Tips \cup Masts) \X BOOLEAN
    BY <2>1 DEF Prefix, Reversed, Templates
  <2> QED
    BY <2>2 DEF TypeOK
<1>2. BudgetInv'
  BY DEF BudgetInv
<1>3. TemplateInv'
  BY DEF TemplateInv
<1>4. ResultInv'
  BY DEF ResultInv
<1>5. WireInv'
  BY DEF WireInv
<1>6. AcceptedInv'
  BY DEF AcceptedInv
<1>7. OutcomeInv'
  BY DEF OutcomeInv
<1>8. DeviceInv'
  BY DEF DeviceInv, BufferMatches, SelectionHonored, Refused, Prefix, Reversed
<1> QED
  BY <1>1, <1>2, <1>3, <1>4, <1>5, <1>6, <1>7, <1>8

\* A batch moves the budget on by exactly what it searched.
LEMMA SearchStep ==
    ASSUME IInv, Search
    PROVE  IInv'
<1> USE DEF IInv, Search, setup, node, work
<1>0. Count \in Nat \ {0} /\ spent + Count <= limit /\ spent + Count \in 0 .. MaxU64
  BY CountBounds DEF BudgetInv
<1>00. spent \in Nat /\ limit \in Nat /\ MaxU64 \in Nat /\ limit <= MaxU64
  BY LimitsAssumption DEF TypeOK
<1>000. /\ spent .. spent + Count - 1 \subseteq 0 .. MaxU64
        /\ result' \subseteq spent .. spent + Count - 1
        /\ spent' = spent + Count
  BY <1>0, <1>00 DEF Spend
<1>1. TypeOK'
  <2>1. devices' \subseteq {"cpu", "gpu"}
    BY DEF TypeOK, SearchedOn
  <2>2. result' \subseteq 0 .. MaxU64 /\ mined' \subseteq 0 .. MaxU64
    BY <1>000 DEF TypeOK
  <2>3. spent' \in 0 .. MaxU64 /\ searched' \in Nat
    BY <1>0, <1>000 DEF TypeOK
  <2> QED
    BY <2>1, <2>2, <2>3 DEF TypeOK
<1>2. BudgetInv'
  <2>1. mined' = 0 .. spent + Count - 1
    BY <1>0, <1>00, JoinIntervals DEF BudgetInv
  <2> QED
    BY <2>1, <1>0, <1>00, <1>000 DEF BudgetInv, OutcomeInv
<1>3. TemplateInv'
  BY DEF TemplateInv
<1>4. ResultInv'
  BY DEF ResultInv
<1>5. WireInv'
  <2>1. wire = {} /\ accepted = {}
    BY DEF WireInv, AcceptedInv
  <2> QED
    BY <2>1 DEF WireInv
<1>6. AcceptedInv'
  BY DEF AcceptedInv
<1>7. OutcomeInv'
  BY DEF OutcomeInv
<1>8. DeviceInv'
  <2>1. request = "gpu" => SearchedOn(template) = {"gpu"}
    BY DEF DeviceInv, Refused, SearchedOn, Backend
  <2>2. request \in {"cpu", "honeycrisp"} => SearchedOn(template) = {"cpu"}
    BY DEF DeviceInv, SearchedOn
  <2>3. SelectionHonored'
    BY <2>1, <2>2 DEF DeviceInv, SelectionHonored
  <2> QED
    BY <2>3 DEF DeviceInv, BufferMatches
<1> QED
  BY <1>1, <1>2, <1>3, <1>4, <1>5, <1>6, <1>7, <1>8

\* A stale result is dropped with its template.
LEMMA DiscardStep ==
    ASSUME IInv, Discard
    PROVE  IInv'
<1> USE DEF IInv, Discard, setup, node, work
<1>1. TypeOK'
  BY DEF TypeOK
<1>2. BudgetInv'
  BY DEF BudgetInv
<1>3. TemplateInv'
  BY DEF TemplateInv
<1>4. ResultInv'
  BY DEF ResultInv
<1>5. WireInv'
  <2>1. wire = {} /\ accepted = {}
    BY DEF WireInv, AcceptedInv
  <2> QED
    BY <2>1 DEF WireInv
<1>6. AcceptedInv'
  BY DEF AcceptedInv
<1>7. OutcomeInv'
  BY DEF OutcomeInv
<1>8. DeviceInv'
  BY DEF DeviceInv, BufferMatches, SelectionHonored, Refused, Prefix, Reversed
<1> QED
  BY <1>1, <1>2, <1>3, <1>4, <1>5, <1>6, <1>7, <1>8

\* Only a result on the parent fetched last is sent.
LEMMA SubmitStep ==
    ASSUME IInv, Submit
    PROVE  IInv'
<1> USE DEF IInv, Submit, setup, node, work
<1>0. /\ template \in Templates /\ result \subseteq 0 .. MaxU64
      /\ wire = {} /\ reply = {} /\ accepted = {}
  BY DEF TypeOK, TemplateInv, WireInv, AcceptedInv
<1>1. TypeOK'
  <2>1. wire' \subseteq Submissions
    BY <1>0 DEF Submissions
  <2> QED
    BY <2>1 DEF TypeOK
<1>2. BudgetInv'
  BY DEF BudgetInv
<1>3. TemplateInv'
  BY DEF TemplateInv, Current
<1>4. ResultInv'
  BY DEF ResultInv
<1>5. WireInv'
  BY <1>0 DEF WireInv, OutcomeInv
<1>6. AcceptedInv'
  BY DEF AcceptedInv
<1>7. OutcomeInv'
  BY DEF OutcomeInv
<1>8. DeviceInv'
  BY DEF DeviceInv, BufferMatches, SelectionHonored, Refused, Prefix, Reversed
<1> QED
  BY <1>1, <1>2, <1>3, <1>4, <1>5, <1>6, <1>7, <1>8

\* The answer true stands for the block just accepted.
LEMMA AcceptedStep ==
    ASSUME IInv, Accepted
    PROVE  IInv'
<1> USE DEF IInv, Accepted, setup, node, work
<1>1. TypeOK'
  BY DEF TypeOK
<1>2. BudgetInv'
  BY DEF BudgetInv
<1>3. TemplateInv'
  BY DEF TemplateInv
<1>4. ResultInv'
  BY DEF ResultInv
<1>5. WireInv'
  BY DEF WireInv
<1>6. AcceptedInv'
  BY DEF AcceptedInv
<1>7. OutcomeInv'
  BY DEF OutcomeInv
<1>8. DeviceInv'
  BY DEF DeviceInv, BufferMatches, SelectionHonored, Refused, Prefix, Reversed
<1> QED
  BY <1>1, <1>2, <1>3, <1>4, <1>5, <1>6, <1>7, <1>8

\* The answer false means that nothing was accepted.
LEMMA RejectedStep ==
    ASSUME IInv, Rejected
    PROVE  IInv'
<1> USE DEF IInv, Rejected, GoOn, setup, node, work
<1>0. wire = {} /\ reply = {FALSE} /\ accepted = {}
  BY DEF WireInv, AcceptedInv
<1>1. TypeOK'
  BY DEF TypeOK, TemplateInv
<1>2. BudgetInv'
  BY DEF BudgetInv
<1>3. TemplateInv'
  BY DEF TemplateInv
<1>4. ResultInv'
  BY DEF ResultInv
<1>5. WireInv'
  BY <1>0 DEF WireInv
<1>6. AcceptedInv'
  BY <1>0 DEF AcceptedInv, OutcomeInv
<1>7. OutcomeInv'
  BY DEF OutcomeInv
<1>8. DeviceInv'
  BY DEF DeviceInv, BufferMatches, SelectionHonored, Refused, Prefix, Reversed
<1> QED
  BY <1>1, <1>2, <1>3, <1>4, <1>5, <1>6, <1>7, <1>8

\* The node accepts what the session holds, and only once.
LEMMA NodeAcceptsStep ==
    ASSUME IInv, NodeAccepts
    PROVE  IInv'
<1> USE DEF IInv, NodeAccepts, setup, node, work
<1>1. TypeOK'
  BY DEF TypeOK
<1>2. BudgetInv'
  BY DEF BudgetInv
<1>3. TemplateInv'
  BY DEF TemplateInv
<1>4. ResultInv'
  BY DEF ResultInv
<1>5. WireInv'
  BY DEF WireInv
<1>6. AcceptedInv'
  BY DEF AcceptedInv, WireInv
<1>7. OutcomeInv'
  BY DEF OutcomeInv
<1>8. DeviceInv'
  BY DEF DeviceInv, BufferMatches, SelectionHonored, Refused, Prefix, Reversed
<1> QED
  BY <1>1, <1>2, <1>3, <1>4, <1>5, <1>6, <1>7, <1>8

\* A rejection leaves nothing on its way to the node.
LEMMA NodeRejectsStep ==
    ASSUME IInv, NodeRejects
    PROVE  IInv'
<1> USE DEF IInv, NodeRejects, setup, node, work
<1>1. TypeOK'
  BY DEF TypeOK
<1>2. BudgetInv'
  BY DEF BudgetInv
<1>3. TemplateInv'
  BY DEF TemplateInv
<1>4. ResultInv'
  BY DEF ResultInv
<1>5. WireInv'
  BY DEF WireInv
<1>6. AcceptedInv'
  BY DEF AcceptedInv
<1>7. OutcomeInv'
  BY DEF OutcomeInv
<1>8. DeviceInv'
  BY DEF DeviceInv, BufferMatches, SelectionHonored, Refused, Prefix, Reversed
<1> QED
  BY <1>1, <1>2, <1>3, <1>4, <1>5, <1>6, <1>7, <1>8

\* So does a loss.
LEMMA LoseStep ==
    ASSUME IInv, Lose
    PROVE  IInv'
<1> USE DEF IInv, Lose, setup, node, work
<1>1. TypeOK'
  BY DEF TypeOK
<1>2. BudgetInv'
  BY DEF BudgetInv
<1>3. TemplateInv'
  BY DEF TemplateInv
<1>4. ResultInv'
  BY DEF ResultInv
<1>5. WireInv'
  BY DEF WireInv
<1>6. AcceptedInv'
  BY DEF AcceptedInv
<1>7. OutcomeInv'
  BY DEF OutcomeInv
<1>8. DeviceInv'
  BY DEF DeviceInv, BufferMatches, SelectionHonored, Refused, Prefix, Reversed
<1> QED
  BY <1>1, <1>2, <1>3, <1>4, <1>5, <1>6, <1>7, <1>8

\* The session does not see the tip move.
LEMMA TipMovesStep ==
    ASSUME IInv, TipMoves
    PROVE  IInv'
<1> USE DEF IInv, TipMoves, setup, node, work
<1>1. TypeOK'
  BY DEF TypeOK
<1>2. BudgetInv'
  BY DEF BudgetInv
<1>3. TemplateInv'
  BY DEF TemplateInv
<1>4. ResultInv'
  BY DEF ResultInv
<1>5. WireInv'
  BY DEF WireInv
<1>6. AcceptedInv'
  BY DEF AcceptedInv
<1>7. OutcomeInv'
  BY DEF OutcomeInv
<1>8. DeviceInv'
  BY DEF DeviceInv, BufferMatches, SelectionHonored, Refused, Prefix, Reversed
<1> QED
  BY <1>1, <1>2, <1>3, <1>4, <1>5, <1>6, <1>7, <1>8

-----------------------------------------------------------------------------
(* The invariant.                                                          *)

\* A session starts with an untouched budget, and at most a refused backend.
LEMMA InitEstablishes == Init => IInv
<1> SUFFICES ASSUME Init PROVE IInv
  OBVIOUS
<1> USE DEF Init
<1>1. limit \in 0 .. MaxU64 /\ 0 \in 0 .. MaxU64 /\ limit \in Nat
  BY LimitsAssumption
<1>2. TypeOK
  BY <1>1 DEF TypeOK
<1>3. BudgetInv
  BY <1>1 DEF BudgetInv
<1>4. TemplateInv
  BY DEF TemplateInv, NoTemplate
<1>5. ResultInv /\ WireInv /\ AcceptedInv /\ OutcomeInv
  BY DEF ResultInv, WireInv, AcceptedInv, OutcomeInv
<1>6. DeviceInv
  <2>1. request = "gpu" /\ pc # "done" => device
    BY DEF Backend
  <2>2. request \in {"cpu", "honeycrisp"} => ~device
    OBVIOUS
  <2>3. device \in BOOLEAN /\ request \in Requests
    OBVIOUS
  <2> QED
    BY <2>1, <2>2, <2>3 DEF DeviceInv, BufferMatches, SelectionHonored
<1> QED
  BY <1>2, <1>3, <1>4, <1>5, <1>6 DEF IInv

\* Nothing but the variables matters.
LEMMA StutterStep ==
    ASSUME IInv, UNCHANGED vars
    PROVE  IInv'
<1> USE DEF IInv, vars
<1>1. TypeOK'
  BY DEF TypeOK
<1>2. BudgetInv' /\ TemplateInv' /\ ResultInv'
  BY DEF BudgetInv, TemplateInv, ResultInv
<1>3. WireInv' /\ AcceptedInv' /\ OutcomeInv'
  BY DEF WireInv, AcceptedInv, OutcomeInv
<1>4. DeviceInv'
  BY DEF DeviceInv, BufferMatches, SelectionHonored, Refused, Prefix, Reversed
<1> QED
  BY <1>1, <1>2, <1>3, <1>4

\* Every step of the session and of the node keeps the invariant.
LEMMA NextKeeps ==
    ASSUME IInv, [Next]_vars
    PROVE  IInv'
<1>1. CASE FetchFirst \/ Refresh \/ FetchFails
  BY <1>1, FetchFirstStep, RefreshStep, FailStep DEF FetchFails
<1>2. CASE Exhausted \/ RefuseLegacy \/ Prepared \/ DropBuffer \/ BuildBuffer
  BY <1>2, ExhaustedStep, FailStep, PreparedStep, DropBufferStep, BuildBufferStep
     DEF RefuseLegacy
<1>3. CASE Search \/ SearchPanics
  BY <1>3, SearchStep, FailStep DEF SearchPanics
<1>4. CASE Discard \/ Submit \/ Accepted \/ Rejected \/ SubmitFails
  BY <1>4, DiscardStep, SubmitStep, AcceptedStep, RejectedStep, FailStep DEF SubmitFails
<1>5. CASE NodeStep
  BY <1>5, NodeAcceptsStep, NodeRejectsStep, LoseStep, TipMovesStep DEF NodeStep
<1>6. CASE UNCHANGED vars
  BY <1>6, StutterStep
<1> QED
  BY <1>1, <1>2, <1>3, <1>4, <1>5, <1>6 DEF Next, SessionStep

-----------------------------------------------------------------------------
(* The session implements the bounded search of its user.                  *)

\* An interval below the limit that is not empty is handed out as a whole.
LEMMA NextAttempts ==
    ASSUME NEW m \in Nat, NEW k \in Nat \ {0}, NEW n \in Nat, m + k <= n
    PROVE  /\ m .. m + k - 1 \in SUBSET ((0 .. n - 1) \ (0 .. m - 1))
           /\ m .. m + k - 1 # {}
<1>1. m \in m .. m + k - 1
  OBVIOUS
<1>2. \A x \in m .. m + k - 1 : x \in (0 .. n - 1) \ (0 .. m - 1)
  OBVIOUS
<1> QED
  BY <1>1, <1>2

\* The steps that neither search, nor return, nor are accepted are not seen.
LEMMA HiddenStep ==
    ASSUME UNCHANGED <<limit, mined, accepted, outcome>>
    PROVE  UNCHANGED Session!searchVars
BY DEF Session!searchVars

\* A batch hands out the next attempts of the budget.
LEMMA SearchMaps ==
    ASSUME IInv, Search
    PROVE  Session!HandOut
<1> DEFINE S == spent .. spent + Count - 1
<1>1. spent \in Nat /\ limit \in Nat /\ Count \in Nat \ {0} /\ spent + Count <= limit
  BY CountBounds, LimitsAssumption DEF IInv, TypeOK, BudgetInv, Search
<1>2. mined = 0 .. spent - 1
  BY DEF IInv, BudgetInv
<1>3. S \in SUBSET ((0 .. limit - 1) \ mined) /\ S # {}
  BY <1>1, <1>2, NextAttempts
<1>4. mined' = mined \cup S /\ UNCHANGED <<limit, accepted, outcome>>
  BY DEF Search, setup, node
<1> HIDE DEF S
<1>5. (0 .. limit' - 1) \ mined' = ((0 .. limit - 1) \ mined) \ S
  BY <1>4
<1> QED
  BY <1>3, <1>4, <1>5 DEF Session!HandOut

\* The acceptance of a block is the win, with an attempt of this session.
LEMMA NodeAcceptsMaps ==
    ASSUME IInv, NodeAccepts
    PROVE  Session!Win
<1>1. PICK s \in wire : accepted' = accepted \cup {s}
  BY DEF NodeAccepts
<1>2. accepted = {} /\ UNCHANGED <<limit, mined, outcome>>
  BY <1>1 DEF IInv, AcceptedInv, NodeAccepts, setup, work
<1>3. s.attempt \in mined
  <2>1. PICK a \in result : s = [block |-> template, attempt |-> a]
    BY <1>1 DEF IInv, WireInv
  <2> QED
    BY <2>1 DEF IInv, ResultInv
<1>4. mined \subseteq 0 .. limit - 1
  BY LimitsAssumption DEF IInv, BudgetInv, TypeOK
<1>5. s.attempt \in (0 .. limit - 1) \ ((0 .. limit - 1) \ mined)
  BY <1>3, <1>4
<1>6. accepted' = {s}
  BY <1>1, <1>2
<1>7. {<<"session", t.attempt>> : t \in accepted} = {}
  BY <1>2
<1>8. {<<"session", t.attempt>> : t \in accepted'} = {<<"session", s.attempt>>}
  BY <1>6
<1>9. "session" \in {"session"}
  OBVIOUS
<1> QED
  BY <1>2, <1>5, <1>7, <1>8, <1>9 DEF Session!Win

\* A session answers "accepted" after a win, "exhausted" when nothing is left
\* and nothing was accepted; every error may be reported at any time.
LEMMA AnswerMaps ==
    ASSUME IInv, pc # "done",
           Accepted \/ Exhausted \/ Fail
    PROVE  Session!Answer
<1>1. outcome = "pending" /\ UNCHANGED <<limit, mined, accepted>>
  BY DEF IInv, OutcomeInv, Accepted, Exhausted, Fail, setup, node, work
<1>2. CASE Accepted
  <2>1. PICK s \in accepted : TRUE
    BY <1>2 DEF Accepted, IInv, AcceptedInv
  <2>2. {<<"session", t.attempt>> : t \in accepted} # {}
    BY <2>1
  <2>3. outcome' = "accepted"
    BY <1>2 DEF Accepted
  <2> QED
    BY <1>1, <2>2, <2>3 DEF Session!Answer
<1>3. CASE Exhausted
  <2>1. accepted = {} /\ outcome' = "exhausted"
    BY <1>3 DEF Exhausted, IInv, AcceptedInv
  <2>2. (0 .. limit - 1) \ mined = {}
    BY <1>3, LimitsAssumption DEF Exhausted, More, IInv, BudgetInv, TypeOK
  <2>3. {<<"session", t.attempt>> : t \in accepted} = {}
    BY <2>1
  <2> QED
    BY <1>1, <2>1, <2>2, <2>3 DEF Session!Answer
<1>4. CASE Fail
  <2>1. outcome' = "error"
    BY <1>4 DEF Fail
  <2> QED
    BY <1>1, <2>1 DEF Session!Answer
<1> QED
  BY <1>2, <1>3, <1>4

\* A session starts with its whole budget to hand out.
LEMMA SessionInitMaps == Init => Session!SearchInit
<1> SUFFICES ASSUME Init PROVE Session!SearchInit
  OBVIOUS
<1>1. (0 .. limit - 1) \in SUBSET (0 .. MaxU64)
  BY LimitsAssumption DEF Init
<1>2. (0 .. limit - 1) \ mined = 0 .. limit - 1
  BY DEF Init
<1>3. {<<"session", s.attempt>> : s \in accepted} = {}
  BY DEF Init
<1>4. outcome \in {"pending", "error"}
  BY DEF Init
<1> QED
  BY <1>1, <1>2, <1>3, <1>4 DEF Session!SearchInit

\* Every step of the session and of the node is a step of the search, or
\* nothing its user can see.
LEMMA SessionStepMaps ==
    ASSUME IInv, [Next]_vars
    PROVE  [Session!SearchNext]_(Session!searchVars)
<1> USE DEF setup, node, work
<1>1. CASE FetchFirst \/ Refresh \/ Prepared \/ DropBuffer \/ BuildBuffer
  BY <1>1, HiddenStep DEF FetchFirst, Refresh, Prepared, DropBuffer, BuildBuffer
<1>2. CASE Discard \/ Submit \/ Rejected
  BY <1>2, HiddenStep DEF Discard, Submit, Rejected, GoOn
<1>3. CASE NodeRejects \/ Lose \/ TipMoves
  BY <1>3, HiddenStep DEF NodeRejects, Lose, TipMoves
<1>4. CASE Search
  BY <1>4, SearchMaps DEF Session!SearchNext
<1>5. CASE NodeAccepts
  BY <1>5, NodeAcceptsMaps DEF Session!SearchNext
<1>6. CASE Exhausted \/ Accepted
  BY <1>6, AnswerMaps DEF Exhausted, Accepted, Session!SearchNext
<1>7. CASE FetchFails \/ RefuseLegacy \/ SearchPanics \/ SubmitFails
  BY <1>7, AnswerMaps
     DEF FetchFails, RefuseLegacy, SearchPanics, SubmitFails, Session!SearchNext
<1>8. CASE UNCHANGED vars
  BY <1>8, HiddenStep DEF vars
<1> QED
  BY <1>1, <1>2, <1>3, <1>4, <1>5, <1>6, <1>7, <1>8 DEF Next, SessionStep, NodeStep

-----------------------------------------------------------------------------
(* The theorems.                                                           *)

\* The inductive invariant holds of every session.
THEOREM SessionInvariant == Spec => []IInv
<1>1. Init => IInv
  BY InitEstablishes
<1>2. IInv /\ [Next]_vars => IInv'
  BY NextKeeps
<1> QED
  BY <1>1, <1>2, PTL DEF Spec

\* spent never overflows a u64, up to the budget u64::MAX.
THEOREM SessionTypes == Spec => []TypeOK
<1>1. IInv => TypeOK
  BY DEF IInv
<1> QED
  BY <1>1, SessionInvariant, PTL

\* However often the node rejects, moves on or answers with another parent,
\* the session searches no attempt twice and stops at its limit.
THEOREM BudgetIsHeld == Spec => []BudgetHolds
<1>1. IInv => BudgetHolds
  <2> SUFFICES ASSUME IInv PROVE BudgetHolds
    OBVIOUS
  <2>1. pc = "search" => spent + Count <= MaxU64
    BY CountBounds, LimitsAssumption DEF IInv, BudgetInv
  <2> QED
    BY <2>1 DEF IInv, BudgetInv, BudgetHolds
<1> QED
  BY <1>1, SessionInvariant, PTL

\* No result is carried over to another block or to a parent that is gone.
THEOREM SubmissionsAreCurrent == Spec => []SubmissionIsCurrent
<1>1. IInv => SubmissionIsCurrent
  <2> SUFFICES ASSUME IInv, pc = "await", NEW s \in wire
               PROVE  s.block = template /\ s.attempt \in result /\ s.block.block = served
    BY DEF SubmissionIsCurrent
  <2>1. PICK a \in result : s = [block |-> template, attempt |-> a]
    BY DEF IInv, WireInv
  <2>2. template.block = served
    BY DEF IInv, TemplateInv
  <2> QED
    BY <2>1, <2>2
<1> QED
  BY <1>1, SessionInvariant, PTL

\* With any number of rejections, losses and late requests, at most one block
\* of a session is accepted, and success is reported for no other.
THEOREM OneBlockAccepted == Spec => []OneBlockPerSession
<1>1. IInv => OneBlockPerSession
  <2> SUFFICES ASSUME IInv PROVE OneBlockPerSession
    OBVIOUS
  <2>1. \A s \in accepted : \E a \in result : s = [block |-> template, attempt |-> a]
    BY DEF IInv, WireInv
  <2>2. \A s, t \in accepted : s = t
    BY <2>1 DEF IInv, ResultInv
  <2>3. CASE accepted = {}
    <3>1. Cardinality(accepted) = 0
      BY <2>3, FS_EmptySet
    <3>2. outcome # "accepted"
      BY <2>3 DEF IInv, AcceptedInv
    <3> QED
      BY <3>1, <3>2 DEF OneBlockPerSession
  <2>4. CASE accepted # {}
    <3>1. PICK s \in accepted : TRUE
      BY <2>4
    <3>2. accepted = {s}
      BY <2>2, <3>1
    <3>3. Cardinality(accepted) = 1
      BY <3>2, FS_Singleton
    <3>4. s.block = template /\ s.attempt \in result
      BY <2>1, <3>1
    <3> QED
      BY <3>1, <3>3, <3>4 DEF OneBlockPerSession
  <2> QED
    BY <2>3, <2>4
<1> QED
  BY <1>1, SessionInvariant, PTL

\* Whatever was mined before, a legacy search has its own buffer, alone.
THEOREM BuffersMatch == Spec => []BufferMatches
<1>1. IInv => BufferMatches
  BY DEF IInv, DeviceInv
<1> QED
  BY <1>1, SessionInvariant, PTL

\* An explicit choice of backend survives every fork crossed on the way.
THEOREM SelectionIsHonored == Spec => []SelectionHonored
<1>1. IInv => SelectionHonored
  BY DEF IInv, DeviceInv
<1> QED
  BY <1>1, SessionInvariant, PTL

\* A session of many batches against an unreliable node keeps the promise of
\* one search: no attempt twice, one win that stands, "exhausted" only when
\* every attempt has been searched and nothing was accepted.
THEOREM SessionIsOneSearch == Spec => SessionImplementsSearch
<1>1. Init => IInv /\ Session!SearchInit
  BY InitEstablishes, SessionInitMaps
<1>2. IInv /\ [Next]_vars => IInv'
  BY NextKeeps
<1>3. IInv /\ [Next]_vars => [Session!SearchNext]_(Session!searchVars)
  BY SessionStepMaps
<1> QED
  BY <1>1, <1>2, <1>3, PTL DEF Spec, SessionImplementsSearch, Session!SearchSpec

=============================================================================
