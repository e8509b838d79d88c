-------------------------- MODULE ProveBatchProofs --------------------------
(***************************************************************************)
(* Proofs about batches of any number of programs, in windows of any       *)
(* number of threads, under any names.                                     *)
(***************************************************************************)
EXTENDS ProveBatch, TLAPS

-----------------------------------------------------------------------------
(* The inductive invariant, part by part.                                  *)

\* The jobs from index on wait; the last ones before it are those whose
\* threads are not joined, in order.
HandlesInv ==
    /\ \A j \in Jobs : job[j] = "waiting" <=> j >= index
    /\ Len(handles) < index
    /\ \A i \in 1 .. Len(handles) : handles[i] = index - 1 - Len(handles) + i

\* The jobs that were joined before them have their result, and none panicked
\* unless the main thread knows.
ResultsInv ==
    /\ \A j \in Jobs : results[j] # "none" => results[j] = job[j]
    /\ main \in {"spawn", "report"} =>
          \A j \in Jobs : j < index - Len(handles) => results[j] \in {"ok", "err"}
    /\ main = "report" => index = N + 1 /\ handles = <<>>

\* No job begins before the names were compared.
NamesInv ==
    /\ main = "start" => index = 1
    /\ main \notin {"start", "exited"} => ~Collision
    /\ \A j \in Jobs : job[j] # "waiting" => ~Collision

\* Success is said only when each job has succeeded.
ExitInv ==
    /\ exit # -1 => main = "exited"
    /\ exit = 0 => \A j \in Jobs : job[j] = "ok"

IInv ==
    /\ TypeOK /\ HandlesInv /\ ResultsInv /\ NamesInv /\ ExitInv
    /\ ProofsSurvive

-----------------------------------------------------------------------------
(* One lemma per step.                                                     *)

\* It holds before anything has happened.
LEMMA InitInv == Init => IInv
<1> SUFFICES ASSUME Init PROVE IInv
  OBVIOUS
<1> USE NAssumption DEF Init, RunnerInit
<1>1. TypeOK
  BY MaxParallelAssumption, InputsAssumption DEF TypeOK, RunnerTypeOK, Jobs, Ended
<1>2. HandlesInv
  BY DEF HandlesInv, Jobs
<1>3. ResultsInv /\ NamesInv /\ ExitInv /\ ProofsSurvive
  BY DEF ResultsInv, NamesInv, ExitInv, ProofsSurvive
<1> QED
  BY <1>1, <1>2, <1>3 DEF IInv

\* The checks before any work.
LEMMA CheckStep ==
    ASSUME IInv, Check
    PROVE  IInv'
<1> USE DEF IInv, Check
<1>1. TypeOK'
  BY DEF TypeOK, RunnerTypeOK
<1>2. HandlesInv'
  BY DEF HandlesInv
<1>3. ResultsInv'
  <2>1. index = 1 /\ Len(handles) \in Nat
    BY DEF NamesInv, TypeOK, RunnerTypeOK
  <2> QED
    BY <2>1 DEF ResultsInv, Jobs
<1>4. NamesInv'
  BY DEF NamesInv, Collision
<1>5. ExitInv' /\ ProofsSurvive'
  BY DEF ExitInv, ProofsSurvive
<1> QED
  BY <1>1, <1>2, <1>3, <1>4, <1>5

\* A job gets its thread, which is the last in the window.
LEMMA SpawnStep ==
    ASSUME IInv, Spawn, UNCHANGED batchVars
    PROVE  IInv'
<1> USE NAssumption DEF IInv, Spawn, batchVars
<1>0. /\ index \in Jobs /\ handles \in Seq(Jobs) /\ Len(handles) \in Nat
      /\ job \in [Jobs -> {"waiting", "running"} \cup Ended]
      /\ job[index] = "waiting"
  BY DEF TypeOK, RunnerTypeOK, HandlesInv, Jobs
<1>00. /\ handles' \in Seq(Jobs) /\ Len(handles') = Len(handles) + 1
       /\ handles'[Len(handles) + 1] = index
       /\ \A i \in 1 .. Len(handles) : handles'[i] = handles[i]
  BY <1>0
<1>1. TypeOK'
  BY <1>0, <1>00 DEF TypeOK, RunnerTypeOK, Jobs
<1>2. HandlesInv'
  <2>1. \A j \in Jobs : job'[j] = "waiting" <=> j >= index'
    BY <1>0 DEF HandlesInv, Jobs
  <2>2. ASSUME NEW i \in 1 .. Len(handles')
        PROVE  handles'[i] = index' - 1 - Len(handles') + i
    <3>1. Len(handles') = Len(handles) + 1 /\ index' = index + 1
      BY <1>00
    <3>2. CASE i \in 1 .. Len(handles)
      BY <1>0, <1>00, <3>1, <3>2 DEF HandlesInv, Jobs
    <3>3. CASE i = Len(handles) + 1
      BY <1>0, <1>00, <3>1, <3>3 DEF Jobs
    <3> QED
      BY <1>0, <3>1, <3>2, <3>3
  <2>3. Len(handles') < index'
    BY <1>0, <1>00 DEF HandlesInv, Jobs
  <2> QED
    BY <2>1, <2>2, <2>3 DEF HandlesInv
<1>3. ResultsInv'
  <2>1. \A j \in Jobs : results[j] # "none" => j # index
    BY <1>0 DEF ResultsInv, TypeOK, RunnerTypeOK, Ended
  <2> QED
    BY <1>0, <1>00, <2>1 DEF ResultsInv, Jobs
<1>4. NamesInv'
  BY <1>0 DEF NamesInv, Collision
<1>5. ExitInv' /\ ProofsSurvive'
  BY <1>0 DEF ExitInv, ProofsSurvive
<1> QED
  BY <1>1, <1>2, <1>3, <1>4, <1>5

\* The oldest thread is joined: its job is the next without a result.
LEMMA JoinOldestStep ==
    ASSUME IInv, JoinOldest, UNCHANGED batchVars
    PROVE  IInv'
<1> USE NAssumption DEF IInv, JoinOldest, batchVars
<1> DEFINE j0 == Head(handles)
<1>0. /\ handles \in Seq(Jobs) /\ handles # <<>> /\ index \in 1 .. N + 1
      /\ results \in [Jobs -> {"none"} \cup Ended]
  BY DEF TypeOK, RunnerTypeOK, Full, Window
<1>00. /\ j0 \in Jobs /\ j0 = handles[1] /\ Len(handles) \in Nat \ {0}
       /\ handles' \in Seq(Jobs) /\ Len(handles') = Len(handles) - 1
       /\ \A i \in 1 .. Len(handles') : handles'[i] = handles[i + 1]
  BY <1>0
<1>01. j0 = index - Len(handles)
  BY <1>0, <1>00 DEF HandlesInv
<1>02. job[j0] \in Ended
  BY DEF Joinable
<1> HIDE DEF j0
<1>1. TypeOK'
  BY <1>0, <1>00, <1>02 DEF TypeOK, RunnerTypeOK, Slot, j0
<1>2. HandlesInv'
  BY <1>0, <1>00 DEF HandlesInv
<1>3. ResultsInv'
  <2>1. CASE job[j0] = "panicked"
    BY <2>1 DEF ResultsInv, j0
  <2>2. CASE job[j0] # "panicked"
    <3>1. results' = [results EXCEPT ![j0] = job[j0]] /\ main' = "spawn" /\ main = "spawn"
      BY <2>2 DEF Slot, j0
    <3>2. \A j \in Jobs : results'[j] # "none" => results'[j] = job'[j]
      BY <1>0, <1>00, <3>1 DEF ResultsInv
    <3>3. \A j \in Jobs : j < index' - Len(handles') => results'[j] \in {"ok", "err"}
      BY <1>0, <1>00, <1>01, <1>02, <2>2, <3>1 DEF ResultsInv, Ended, Jobs
    <3> QED
      BY <3>1, <3>2, <3>3 DEF ResultsInv
  <2> QED
    BY <2>1, <2>2
<1>4. NamesInv' /\ ExitInv' /\ ProofsSurvive'
  BY DEF NamesInv, Collision, ExitInv, ProofsSurvive
<1> QED
  BY <1>1, <1>2, <1>3, <1>4

\* The main thread goes on when the last thread is joined, or when a panic
\* leaves the scope.
LEMMA EndOfScopeStep ==
    ASSUME IInv, Collect \/ Unwind, UNCHANGED batchVars
    PROVE  IInv'
<1> USE DEF IInv, Collect, Unwind, batchVars
<1>1. TypeOK' /\ HandlesInv'
  BY DEF TypeOK, RunnerTypeOK, HandlesInv
<1>2. ResultsInv'
  <2>1. CASE Collect
    <3>1. index = N + 1 /\ Len(handles) \in Nat
      BY <2>1, NAssumption DEF TypeOK, RunnerTypeOK
    <3> QED
      BY <2>1, <3>1 DEF ResultsInv
  <2>2. CASE Unwind
    BY <2>2 DEF ResultsInv
  <2> QED
    BY <2>1, <2>2
<1>3. NamesInv' /\ ExitInv' /\ ProofsSurvive'
  BY DEF NamesInv, Collision, ExitInv, ProofsSurvive
<1> QED
  BY <1>1, <1>2, <1>3

\* The exit code is 0 only when every job has a result and none failed.
LEMMA ExitStep ==
    ASSUME IInv, Exit
    PROVE  IInv'
<1> USE NAssumption DEF IInv, Exit
<1>1. TypeOK' /\ HandlesInv'
  BY DEF TypeOK, RunnerTypeOK, HandlesInv
<1>2. ResultsInv'
  BY DEF ResultsInv
<1>3. NamesInv' /\ ProofsSurvive'
  BY DEF NamesInv, Collision, ProofsSurvive
<1>4. ExitInv'
  <2>1. ASSUME exit' = 0, NEW j \in Jobs PROVE job'[j] = "ok"
    <3>1. main = "report" /\ results[j] # "err"
      BY <2>1
    <3>2. index = N + 1 /\ Len(handles) = 0
      BY <3>1 DEF ResultsInv
    <3>3. results[j] \in {"ok", "err"} /\ results[j] = job[j]
      BY <3>1, <3>2 DEF ResultsInv, Jobs
    <3> QED
      BY <3>1, <3>3
  <2> QED
    BY <2>1 DEF ExitInv
<1> QED
  BY <1>1, <1>2, <1>3, <1>4

\* No job has ended well whose file another job is about to write to.
LEMMA OwnFile ==
    ASSUME IInv, NEW j \in Jobs, NEW k \in Jobs, job[j] = "running", j # k
    PROVE  stem[j] # stem[k] /\ stem[j] \in Stems /\ stem[k] \in Stems
BY DEF IInv, NamesInv, Collision, TypeOK

\* What ends while it runs changes none of what the main thread knows.
LEMMA EndedJob ==
    ASSUME IInv, NEW j \in Jobs, job[j] = "running", NEW outcome \in Ended,
           End(j, outcome), UNCHANGED exit, UNCHANGED stem
    PROVE  HandlesInv' /\ ResultsInv' /\ NamesInv' /\ ExitInv' /\ RunnerTypeOK'
<1> USE DEF IInv, End
<1>0. job \in [Jobs -> {"waiting", "running"} \cup Ended]
      /\ results \in [Jobs -> {"none"} \cup Ended]
  BY DEF TypeOK, RunnerTypeOK
<1>1. RunnerTypeOK'
  BY <1>0 DEF TypeOK, RunnerTypeOK
<1>2. HandlesInv'
  BY <1>0 DEF HandlesInv, Ended
<1>3. ResultsInv'
  <2>1. results[j] = "none"
    BY <1>0 DEF ResultsInv, Ended
  <2> QED
    BY <1>0, <2>1 DEF ResultsInv
<1>4. NamesInv'
  BY <1>0 DEF NamesInv, Collision
<1>5. ExitInv'
  BY <1>0 DEF ExitInv
<1> QED
  BY <1>1, <1>2, <1>3, <1>4, <1>5

\* A job compiles and proves, or ends.
LEMMA WorkStep ==
    ASSUME IInv, NEW j \in Jobs, Work(j)
    PROVE  IInv'
<1> USE DEF IInv, Work, Running
<1>1. CASE UNCHANGED runner
  <2>1. TypeOK'
    BY <1>1 DEF runner, TypeOK, RunnerTypeOK, End, Ended
  <2> QED
    BY <1>1, <2>1 DEF runner, HandlesInv, ResultsInv, NamesInv, Collision, ExitInv,
                      ProofsSurvive
<1>2. CASE \E outcome \in {"err", "panicked"} : End(j, outcome) /\ UNCHANGED stage
  <2>1. PICK outcome \in {"err", "panicked"} : End(j, outcome) /\ UNCHANGED stage
    BY <1>2
  <2>2. HandlesInv' /\ ResultsInv' /\ NamesInv' /\ ExitInv' /\ RunnerTypeOK'
    BY <2>1, EndedJob DEF Ended
  <2>3. TypeOK'
    BY <2>1, <2>2 DEF TypeOK
  <2>4. ProofsSurvive'
    BY <2>1 DEF ProofsSurvive, End, TypeOK, RunnerTypeOK
  <2> QED
    BY <2>2, <2>3, <2>4
<1> QED
  BY <1>1, <1>2

\* The file that is emptied is no other job's.
LEMMA CreateStep ==
    ASSUME IInv, NEW j \in Jobs, Create(j)
    PROVE  IInv'
<1> USE DEF IInv, Create, Running
<1>1. CASE UNCHANGED runner /\ disk' = [disk EXCEPT ![stem[j]] = Partial]
           /\ stage' = [stage EXCEPT ![j] = "write"]
  <2>1. TypeOK'
    BY <1>1 DEF runner, TypeOK, RunnerTypeOK
  <2>2. ProofsSurvive'
    BY <1>1, OwnFile DEF runner, ProofsSurvive, TypeOK
  <2> QED
    BY <1>1, <2>1, <2>2 DEF runner, HandlesInv, ResultsInv, NamesInv, Collision, ExitInv
<1>2. CASE End(j, "err") /\ UNCHANGED <<stage, disk>>
  <2>1. HandlesInv' /\ ResultsInv' /\ NamesInv' /\ ExitInv' /\ RunnerTypeOK'
    BY <1>2, EndedJob DEF Ended
  <2>2. TypeOK'
    BY <1>2, <2>1 DEF TypeOK
  <2>3. ProofsSurvive'
    BY <1>2 DEF ProofsSurvive, End, TypeOK, RunnerTypeOK
  <2> QED
    BY <2>1, <2>2, <2>3
<1> QED
  BY <1>1, <1>2

\* The proof is written whole, to the job's own file, or the job fails.
LEMMA WriteStep ==
    ASSUME IInv, NEW j \in Jobs, Write(j)
    PROVE  IInv'
<1> USE DEF IInv, Write, Running
<1>0. \E outcome \in {"ok", "err"} : End(j, outcome)
  OBVIOUS
<1>1. HandlesInv' /\ ResultsInv' /\ NamesInv' /\ ExitInv' /\ RunnerTypeOK'
  BY <1>0, EndedJob DEF Ended
<1>2. TypeOK'
  BY <1>1 DEF TypeOK, RunnerTypeOK
<1>3. ProofsSurvive'
  <2>1. CASE disk' = [disk EXCEPT ![stem[j]] = ProofOf(j)] /\ End(j, "ok")
    <3>1. disk'[stem[j]] = ProofOf(j)
      BY <2>1 DEF TypeOK
    <3>2. ASSUME NEW k \in Jobs, k # j, job[k] = "ok" PROVE disk'[stem[k]] = ProofOf(k)
      BY <2>1, <3>2, OwnFile DEF ProofsSurvive, TypeOK
    <3>3. \A k \in Jobs : k # j => job'[k] = job[k]
      BY <2>1 DEF End, TypeOK, RunnerTypeOK
    <3> QED
      BY <3>1, <3>2, <3>3 DEF ProofsSurvive
  <2>2. CASE UNCHANGED disk /\ End(j, "err")
    BY <2>2 DEF ProofsSurvive, End, TypeOK, RunnerTypeOK
  <2> QED
    BY <2>1, <2>2
<1> QED
  BY <1>1, <1>2, <1>3

\* Every step of the batch keeps the invariant.
LEMMA NextStep == IInv /\ [Next]_vars => IInv'
<1> SUFFICES ASSUME IInv, [Next]_vars PROVE IInv'
  OBVIOUS
<1>1. CASE Main
  BY <1>1, CheckStep, SpawnStep, JoinOldestStep, EndOfScopeStep, ExitStep DEF Main, MainStep
<1>2. CASE \E j \in Jobs : JobStep(j)
  BY <1>2, WorkStep, CreateStep, WriteStep DEF JobStep
<1>3. CASE UNCHANGED vars
  BY <1>3 DEF vars, IInv, TypeOK, RunnerTypeOK, HandlesInv, ResultsInv, NamesInv, Collision,
              ExitInv, ProofsSurvive
<1> QED
  BY <1>1, <1>2, <1>3 DEF Next, Exited

\* The invariant holds in every state.
LEMMA BatchInv == Spec => []IInv
BY InitInv, NextStep, PTL DEF Spec

-----------------------------------------------------------------------------
(* The theorems.                                                           *)

\* The variables keep their types, for any number of jobs and any window.
THEOREM BatchTypes == Spec => []TypeOK
<1>1. IInv => TypeOK
  BY DEF IInv
<1> QED
  BY <1>1, BatchInv, PTL

\* However the jobs end, each result is that of its own job, and all of them
\* are there when run_batch returns.
THEOREM ResultsAreOwn == Spec => []ResultsBelong
<1>1. IInv => ResultsBelong
  <2> SUFFICES ASSUME IInv, main = "report", NEW j \in Jobs PROVE results[j] # "none"
    BY DEF IInv, ResultsInv, ResultsBelong
  <2>1. index = N + 1 /\ Len(handles) = 0
    BY DEF IInv, ResultsInv
  <2> QED
    BY <2>1, NAssumption DEF IInv, ResultsInv, Jobs
<1> QED
  BY <1>1, BatchInv, PTL

\* A proof that was saved is never destroyed by another job of its batch.
THEOREM ProofsAreKept == Spec => []ProofsSurvive
<1>1. IInv => ProofsSurvive
  BY DEF IInv
<1> QED
  BY <1>1, BatchInv, PTL

\* Exit code 0 means that every file of the batch is the proof of its input.
THEOREM ZeroExitIsTrue == Spec => []ZeroExitMeansProved
<1>1. IInv => ZeroExitMeansProved
  BY DEF IInv, ExitInv, ProofsSurvive, ZeroExitMeansProved
<1> QED
  BY <1>1, BatchInv, PTL

=============================================================================
