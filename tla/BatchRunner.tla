---------------------------- MODULE BatchRunner ----------------------------
(***************************************************************************)
(* run_batch of cli/batch.rs: jobs run in scoped threads, at most          *)
(* max_parallel at a time.  The main thread spawns them in input order;    *)
(* when the window is full it joins the oldest one first, however long     *)
(* that one takes, and at the end it joins the rest.  A job that panics    *)
(* makes its join panic; the scope then waits for every thread it spawned  *)
(* before the panic leaves run_batch.                                      *)
(*                                                                         *)
(* What a job does is left to the module that extends this one.            *)
(***************************************************************************)
EXTENDS Integers, Sequences, FiniteSets

CONSTANTS N,            (* the number of jobs                              *)
          MaxParallel   (* the values of --max-parallel in use             *)

ASSUME NAssumption == N \in Nat \ {0}
ASSUME MaxParallelAssumption == MaxParallel \subseteq Nat

Jobs == 1 .. N
Ended == {"ok", "err", "panicked"}

VARIABLES
  window,     (* max_parallel as given                                     *)
  main,       (* where the main thread is                                  *)
  index,      (* the job it spawns next                                    *)
  handles,    (* the threads spawned and not joined, oldest first          *)
  job,        (* what has become of each job                               *)
  results     (* what has been stored for each job                         *)

runner == <<window, main, index, handles, job, results>>

\* max_parallel.max(1)
Window == IF window < 1 THEN 1 ELSE window

RunnerInit ==
    /\ window \in MaxParallel
    /\ main = "start"
    /\ index = 1
    /\ handles = <<>>
    /\ job = [j \in Jobs |-> "waiting"]
    /\ results = [j \in Jobs |-> "none"]

\* handles.len() >= max_parallel
Full == Len(handles) >= Window

\* scope.spawn: the next job gets a thread.
Spawn ==
    /\ main = "spawn" /\ index <= N /\ ~Full
    /\ job' = [job EXCEPT ![index] = "running"]
    /\ handles' = Append(handles, index)
    /\ index' = index + 1
    /\ UNCHANGED <<window, main, results>>

\* Variant of Slot: the result goes to the job that is about to be spawned.
SlotIndex(idx) == IF index \in Jobs THEN index ELSE idx

\* results[idx], with the index that was kept beside the handle.
Slot(idx) == idx

\* Variant of Joinable: a thread whose job failed is not seen to end.
JoinableOk(idx) == job[idx] = "ok"

\* join returns once the thread has ended.
Joinable(idx) == job[idx] \in Ended

\* handles.remove(0).join().expect(..)
JoinOldest ==
    /\ main = "spawn"
    /\ \/ index <= N /\ Full
       \/ index > N /\ handles # <<>>
    /\ Joinable(Head(handles))
    /\ handles' = Tail(handles)
    /\ IF job[Head(handles)] = "panicked"
       THEN main' = "unwind" /\ UNCHANGED results
       ELSE /\ results' = [results EXCEPT ![Slot(Head(handles))] = job[Head(handles)]]
            /\ UNCHANGED main
    /\ UNCHANGED <<window, index, job>>

\* Every job is stored: the results are collected in input order.
Collect ==
    /\ main = "spawn" /\ index > N /\ handles = <<>>
    /\ main' = "report"
    /\ UNCHANGED <<window, index, handles, job, results>>

\* The panic leaves the scope after its last thread.
Unwind ==
    /\ main = "unwind"
    /\ \A j \in Jobs : job[j] # "running"
    /\ main' = "panicked"
    /\ UNCHANGED <<window, index, handles, job, results>>

MainStep == Spawn \/ JoinOldest \/ Collect \/ Unwind

\* The thread of job j ends with this outcome.
End(j, outcome) ==
    /\ job' = [job EXCEPT ![j] = outcome]
    /\ UNCHANGED <<window, main, index, handles, results>>

RunnerTypeOK ==
    /\ window \in Nat
    /\ main \in {"start", "spawn", "report", "unwind", "panicked", "exited"}
    /\ index \in 1 .. N + 1
    /\ handles \in Seq(Jobs)
    /\ job \in [Jobs -> {"waiting", "running"} \cup Ended]
    /\ results \in [Jobs -> {"none"} \cup Ended]

\* A result is stored with the job it belongs to, whatever order the jobs end
\* in, and none is missing when the results are collected.
ResultsBelong ==
    /\ \A j \in Jobs : results[j] # "none" => results[j] = job[j]
    /\ main = "report" => \A j \in Jobs : results[j] # "none"

=============================================================================
