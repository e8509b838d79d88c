---------------------------- MODULE MiningRange ----------------------------
(***************************************************************************)
(* One bounded nonce search of the honeycrisp miner: mine_cpu_range and    *)
(* mine_gpu_range of honeycrisp/neptune_mine.rs with the reservation       *)
(* counter and the winner slot of honeycrisp/mining_session.rs, the        *)
(* dispatcher of honeycrisp/aruminium_mine.rs and the npt_mine kernel.     *)
(*                                                                         *)
(* Host workers and the GPU dispatcher share two things only: the atomic   *)
(* counter Attempts and the mutex Winner.  Every load of the one and every *)
(* lock of the other is a step of its own.  The kernel's lanes share the   *)
(* mapped MineState (found, payload), which no host worker sees.           *)
(*                                                                         *)
(* Hashing is abstracted to its outcome: whether a nonce meets the target  *)
(* is chosen when it is hashed.  The verdict of a lane is chosen apart     *)
(* from the truth, since the host does not rely on the kernel being right. *)
(***************************************************************************)
EXTENDS Integers, FiniteSets

CONSTANTS Cpus,      (* the host worker threads                            *)
          Gpu,       (* the thread that drives the GPU                     *)
          Calls,     (* the <<start, max_attempts>> a caller may pass      *)
          MaxU64,    (* u64::MAX                                           *)
          Group,     (* THREADS_PER_GROUP                                  *)
          Launch     (* THREADS_TOTAL, the attempts of one GPU launch      *)

Nums == 0 .. MaxU64

ASSUME WorkersAssumption == Cpus # {} /\ Gpu \notin Cpus
ASSUME WidthAssumption == MaxU64 \in Nat /\ Calls \subseteq Nums \X Nums
ASSUME LaunchAssumption ==
    /\ Group \in Nat \ {0}
    /\ Launch \in Nat \ {0}
    /\ Launch % Group = 0

Workers == Cpus \cup {Gpu}
Lanes == 0 .. Launch - 1

VARIABLES
  start, end,    (* the range of this call: Attempts.end and where it began *)
  next,          (* Attempts.next                                           *)
  winner,        (* Winner: {} or {<<worker, attempt>>}                     *)
  pc, held,      (* where each worker is, the range it reserved last        *)
  found,         (* MineState.found                                         *)
  payload,       (* MineState.winning_attempt, standing for the nonce too   *)
  lanes,         (* where each lane of the launch is                        *)
  ret,           (* what the call has returned                              *)
  taken,         (* history: the attempts each worker reserved              *)
  tried,         (* history: the attempts that were hashed                  *)
  hits,          (* history: <<worker, attempt>> that met the target        *)
  late           (* history: reservations made after the winner was set     *)

slot == <<found, payload, lanes>>
call == <<start, end, ret>>
past == <<taken, tried, hits, late>>
vars == <<start, end, next, winner, pc, held, found, payload, lanes, ret,
          taken, tried, hits, late>>

Least(a, b) == IF a < b THEN a ELSE b

\* Variant of SatAdd: addition wraps around.
WrapAdd(a, b) == (a + b) % (MaxU64 + 1)

\* u64::saturating_add
SatAdd(a, b) == Least(a + b, MaxU64)

-----------------------------------------------------------------------------
(* The shared counter and the winner slot.                                 *)

\* Variant of ReserveEnd: neither saturated nor clamped to the end.
UnboundedEnd(n, count) == n + count

\* Attempts::reserve: where a reservation of count attempts from n ends.
ReserveEnd(n, count) == Least(SatAdd(n, count), end)

\* Attempts::reserve succeeding: fetch_update moves next in one atomic step.
Reserve(w, count) ==
    /\ count > 0 /\ next < end
    /\ next' = ReserveEnd(next, count)
    /\ held' = [held EXCEPT ![w] = [lo |-> next, hi |-> ReserveEnd(next, count)]]
    /\ taken' = [taken EXCEPT ![w] = @ \cup (next .. ReserveEnd(next, count) - 1)]
    /\ late' = [late EXCEPT ![w] = IF winner = {} THEN 0 ELSE @ + 1]

\* Variant of Publish: the last result replaces an earlier one.
PublishLast(w, a) == winner' = {<<w, a>>}

\* Winner::publish is get_or_insert under the mutex.
Publish(w, a) == winner' = IF winner = {} THEN {<<w, a>>} ELSE winner

At(w, from, to) == pc[w] = from /\ pc' = [pc EXCEPT ![w] = to]

-----------------------------------------------------------------------------
(* The loop every worker runs: look at the winner, reserve, hash.          *)

\* Variant of CheckWinner: the loop does not look at the winner.
CheckNothing(w) ==
    /\ At(w, "check", "reserve")
    /\ UNCHANGED <<call, next, winner, held, slot, past>>

\* while !winner.found()
CheckWinner(w) ==
    /\ At(w, "check", IF winner = {} THEN "reserve" ELSE "done")
    /\ UNCHANGED <<call, next, winner, held, slot, past>>

\* Variant of Exhausted: a counter that has reached the end is not the end.
ExhaustedPastEnd(w) ==
    /\ next > end
    /\ At(w, "reserve", "done")
    /\ UNCHANGED <<call, next, winner, held, slot, past>>

\* attempts.reserve(..) returned None: the worker leaves its loop.
Exhausted(w) ==
    /\ next >= end
    /\ At(w, "reserve", "done")
    /\ UNCHANGED <<call, next, winner, held, slot, past>>

\* A host worker reserves one attempt.
CpuReserve(c) ==
    /\ At(c, "reserve", "hash")
    /\ Reserve(c, 1)
    /\ UNCHANGED <<call, winner, slot, tried, hits>>

\* fast_mast_hash(&pow) <= target on the host.
CpuHash(c) ==
    /\ \E hit \in BOOLEAN :
          /\ At(c, "hash", IF hit THEN "publish" ELSE "check")
          /\ hits' = IF hit THEN hits \cup {<<c, held[c].lo>>} ELSE hits
    /\ tried' = tried \cup {held[c].lo}
    /\ UNCHANGED <<call, next, winner, held, slot, taken, late>>

CpuPublish(c) ==
    /\ At(c, "publish", "check")
    /\ Publish(c, held[c].lo)
    /\ UNCHANGED <<call, next, held, slot, past>>

-----------------------------------------------------------------------------
(* The GPU dispatcher and the lanes of its launch.                         *)

\* The dispatcher reserves a whole launch.
GpuReserve ==
    /\ At(Gpu, "reserve", "dispatch")
    /\ Reserve(Gpu, Launch)
    /\ UNCHANGED <<call, winner, slot, tried, hits>>

\* The launch covers the reserved attempts rounded up to whole groups.
Count == held[Gpu].hi - held[Gpu].lo
Grid == ((Count + Group - 1) \div Group) * Group

\* Variant of ResetState: the flag of the previous launch survives.
KeepState == found

\* MineState::reset clears the flag and leaves the payload as it was.
ResetState == 0

\* dispatch_batch up to the launch.
Dispatch ==
    /\ At(Gpu, "dispatch", "kernel")
    /\ found' = ResetState
    /\ lanes' = [g \in Lanes |-> IF g < Grid THEN "hash" ELSE "idle"]
    /\ UNCHANGED <<call, next, winner, held, payload, past>>

\* Variant of InRange: the last attempt of the launch is left out.
InRangeShort(g) == g < Count - 1

\* The kernel's bound check, for the lanes that only fill up a group.
InRange(g) == g < Count

\* A lane past the end of the range returns, any other hashes its attempt.
LaneHash(g) ==
    /\ lanes[g] = "hash"
    /\ IF InRange(g)
       THEN \E hit \in BOOLEAN, flagged \in BOOLEAN :
            /\ lanes' = [lanes EXCEPT ![g] = IF flagged THEN "cas" ELSE "idle"]
            /\ tried' = tried \cup {held[Gpu].lo + g}
            /\ hits' = IF hit THEN hits \cup {<<Gpu, held[Gpu].lo + g>>} ELSE hits
       ELSE /\ lanes' = [lanes EXCEPT ![g] = "idle"]
            /\ UNCHANGED <<tried, hits>>
    /\ UNCHANGED <<call, next, winner, pc, held, found, payload, taken, late>>

\* atomic_compare_exchange_weak on found; a spurious failure is a stutter.
LaneClaim(g) ==
    /\ lanes[g] = "cas"
    /\ found' = 1
    /\ lanes' = [lanes EXCEPT ![g] = IF found = 0 THEN "write" ELSE "idle"]
    /\ UNCHANGED <<call, next, winner, pc, held, payload, past>>

\* The lane that set the flag writes the result.
LaneWrite(g) ==
    /\ lanes[g] = "write"
    /\ payload' = held[Gpu].lo + g
    /\ lanes' = [lanes EXCEPT ![g] = "idle"]
    /\ UNCHANGED <<call, next, winner, pc, held, found, past>>

\* The synchronous dispatch ends with its last lane; then the flag is read.
Complete ==
    /\ \A g \in Lanes : lanes[g] = "idle"
    /\ At(Gpu, "kernel", IF found = 0 THEN "check" ELSE "validate")
    /\ UNCHANGED <<call, next, winner, held, slot, past>>

\* Variant of Validate: the kernel's answer is taken as it comes.
ValidateNothing ==
    /\ At(Gpu, "validate", "check")
    /\ Publish(Gpu, payload)
    /\ UNCHANGED <<call, next, held, slot, past>>

\* The host hashes the returned nonce again: it publishes a real win and
\* panics over any other, which ends the dispatcher but no other worker.
Validate ==
    /\ IF <<Gpu, payload>> \in hits
       THEN At(Gpu, "validate", "check") /\ Publish(Gpu, payload)
       ELSE At(Gpu, "validate", "panicked") /\ UNCHANGED winner
    /\ UNCHANGED <<call, next, held, slot, past>>

-----------------------------------------------------------------------------
(* The call.                                                               *)

\* Who takes part: mine_cpu_range spawns the host workers, mine_gpu_range
\* runs the dispatcher with them or, without with_cpu, alone.
Teams == {Cpus, {Gpu}, Workers}

\* A miner is reused from call to call, so the mapped state starts as the
\* previous call left it.  Attempts::new panics when the range overflows.
Init ==
    /\ \E c \in Calls, team \in Teams :
          /\ start = c[1]
          /\ end = c[1] + c[2]
          /\ ret = IF c[1] + c[2] > MaxU64 THEN "panic" ELSE "pending"
          /\ pc = [w \in Workers |->
                     IF w \in team /\ c[1] + c[2] <= MaxU64 THEN "check" ELSE "done"]
    /\ next = start
    /\ winner = {}
    /\ held = [w \in Workers |-> [lo |-> 0, hi |-> 0]]
    /\ found \in {0, 1}
    /\ payload \in {0, MaxU64}
    /\ lanes = [g \in Lanes |-> "idle"]
    /\ taken = [w \in Workers |-> {}]
    /\ tried = {}
    /\ hits = {}
    /\ late = [w \in Workers |-> 0]

\* thread::scope joins every worker and passes a panic on; otherwise the
\* winner slot is the answer.
Return ==
    /\ ret = "pending"
    /\ \A w \in Workers : pc[w] \in {"done", "panicked"}
    /\ ret' = IF \E w \in Workers : pc[w] = "panicked" THEN "panic"
              ELSE IF winner = {} THEN "none" ELSE "found"
    /\ UNCHANGED <<start, end, next, winner, pc, held, slot, past>>

CpuStep(c) ==
    CheckWinner(c) \/ Exhausted(c) \/ CpuReserve(c) \/ CpuHash(c) \/ CpuPublish(c)

GpuStep ==
    CheckWinner(Gpu) \/ Exhausted(Gpu) \/ GpuReserve \/ Dispatch \/ Complete \/ Validate

LaneStep(g) == LaneHash(g) \/ LaneClaim(g) \/ LaneWrite(g)

\* The call has returned.
Returned == ret # "pending" /\ UNCHANGED vars

Next ==
    \/ \E c \in Cpus : CpuStep(c)
    \/ GpuStep
    \/ \E g \in Lanes : LaneStep(g)
    \/ Return
    \/ Returned

\* Threads are scheduled by the OS, a launched kernel runs to completion and
\* the caller waits: no step is awaited from outside.
Fairness ==
    /\ \A c \in Cpus : WF_vars(CpuStep(c))
    /\ WF_vars(GpuStep)
    /\ \A g \in Lanes : WF_vars(LaneStep(g))
    /\ WF_vars(Return)

Spec == Init /\ [][Next]_vars /\ Fairness

-----------------------------------------------------------------------------
(* Properties.                                                             *)

Places == {"check", "reserve", "hash", "publish", "dispatch", "kernel",
           "validate", "done", "panicked"}

\* The variables hold what their comments say.
TypeOK ==
    /\ start \in Nums /\ next \in Nums /\ end \in Nat
    /\ winner \subseteq Workers \X Nums
    /\ pc \in [Workers -> Places]
    /\ held \in [Workers -> [lo : Nums, hi : Nums]]
    /\ found \in {0, 1} /\ payload \in Nums
    /\ lanes \in [Lanes -> {"idle", "hash", "cas", "write"}]
    /\ ret \in {"pending", "found", "none", "panic"}
    /\ taken \in [Workers -> SUBSET Nums]
    /\ tried \subseteq Nums
    /\ hits \subseteq Workers \X Nums
    /\ late \in [Workers -> Nat]

\* No two workers ever reserve the same attempt, and what has been reserved
\* is exactly the range from the start of the call to the counter, which
\* never passes the end (mining.md: "Reservations are bounded,
\* non-overlapping, overflow-safe").
ReservationsPartition ==
    /\ \A v, w \in Workers : v # w => taken[v] \cap taken[w] = {}
    /\ UNION {taken[w] : w \in Workers} = start .. next - 1
    /\ ret # "panic" => next <= end

\* The winner, whoever races for it, is an attempt its finder reserved in
\* this call and whose hash met the target on the host.
WinnerIsValid ==
    \A win \in winner : win \in hits /\ win[2] \in taken[win[1]]

\* A search answers "none" only after every attempt of the range has been
\* hashed and no host worker had a hit.
NoneMeansAllTried ==
    ret = "none" =>
        /\ tried = start .. end - 1
        /\ \A h \in hits : h[1] = Gpu

\* Once there is a winner a worker reserves at most once more: the look at
\* the winner and the reservation are two steps, never three.
BoundedOvershoot == \A w \in Workers : late[w] <= 1

\* What the dispatcher reads back was written by the launch it waited for,
\* though reset leaves the payload of earlier launches and calls in place.
PayloadIsFresh ==
    pc[Gpu] = "validate" => payload \in held[Gpu].lo .. held[Gpu].hi - 1

\* Every call returns.
Terminates == <>(ret # "pending")

\* The search as its caller sees it.
Search == INSTANCE RangeSearch WITH
    Finders <- Workers,
    range <- IF end > MaxU64 THEN {} ELSE start .. end - 1,
    untried <- IF end > MaxU64 THEN {} ELSE next .. end - 1

\* The workers together implement the abstract search.
ImplementsSearch == Search!SearchSpec

=============================================================================
