----------------------------- MODULE ProveBatch -----------------------------
(***************************************************************************)
(* trisha prove batch: cmd_prove_batch of cli/prove.rs over run_batch.     *)
(* Each job compiles and proves one program and saves the proof under the  *)
(* name of its source file in one output directory, where an earlier batch *)
(* may have left files.  ProofFile::save is fs::write: the file is         *)
(* truncated first and written next, so other jobs run in between and an   *)
(* error leaves it cut short.                                              *)
(***************************************************************************)
EXTENDS BatchRunner

CONSTANTS Stems,     (* the file stems of the inputs                       *)
          Inputs     (* the lists of inputs in use, by stem                *)

ASSUME InputsAssumption == Inputs \subseteq [Jobs -> Stems]

VARIABLES
  stem,       (* the stem of each input, which names its destination       *)
  stage,      (* how far each running job is                               *)
  disk,       (* the proof file of each stem                               *)
  exit        (* the exit code, or -1                                      *)

batchVars == <<stem, stage, disk, exit>>
vars == <<window, main, index, handles, job, results, stem, stage, disk, exit>>

Absent == <<"absent", 0>>
Earlier == <<"earlier", 0>>
Partial == <<"partial", 0>>
ProofOf(j) == <<"proof", j>>

\* Variant of Collision: destinations are not compared.
CollisionIgnored == FALSE

\* Two inputs with one stem would share a destination.
Collision == \E i, j \in Jobs : i # j /\ stem[i] = stem[j]

Init ==
    /\ RunnerInit
    /\ stem \in Inputs
    /\ stage = [j \in Jobs |-> "work"]
    /\ disk \in [Stems -> {Absent, Earlier}]
    /\ exit = -1

\* The checks before any work: a collision, or a directory that cannot be made.
Check ==
    /\ main = "start"
    /\ \/ ~Collision /\ main' = "spawn" /\ UNCHANGED exit
       \/ main' = "exited" /\ exit' = 1
    /\ UNCHANGED <<window, index, handles, job, results, stem, stage, disk>>

Running(j) == main # "start" /\ job[j] = "running"

\* compile_source and prove_full: an error, a panic or a proof.
Work(j) ==
    /\ Running(j) /\ stage[j] = "work"
    /\ \/ /\ stage' = [stage EXCEPT ![j] = "create"]
          /\ UNCHANGED runner
       \/ \E outcome \in {"err", "panicked"} : End(j, outcome) /\ UNCHANGED stage
    /\ UNCHANGED <<stem, disk, exit>>

\* fs::write opens and truncates the file, or fails to.
Create(j) ==
    /\ Running(j) /\ stage[j] = "create"
    /\ \/ /\ disk' = [disk EXCEPT ![stem[j]] = Partial]
          /\ stage' = [stage EXCEPT ![j] = "write"]
          /\ UNCHANGED runner
       \/ End(j, "err") /\ UNCHANGED <<stage, disk>>
    /\ UNCHANGED <<stem, exit>>

\* Variant of Write: an error of the write is dropped.
WriteLossy(j) ==
    /\ Running(j) /\ stage[j] = "write"
    /\ disk' \in {disk, [disk EXCEPT ![stem[j]] = ProofOf(j)]}
    /\ End(j, "ok")
    /\ UNCHANGED <<stem, stage, exit>>

\* It writes the whole proof, or fails and leaves what it has written.
Write(j) ==
    /\ Running(j) /\ stage[j] = "write"
    /\ \/ disk' = [disk EXCEPT ![stem[j]] = ProofOf(j)] /\ End(j, "ok")
       \/ UNCHANGED disk /\ End(j, "err")
    /\ UNCHANGED <<stem, stage, exit>>

\* Failures are counted from the results; a panic has a code of its own.
Exit ==
    /\ main \in {"report", "panicked"}
    /\ main' = "exited"
    /\ exit' = IF main = "panicked" THEN 101
               ELSE IF \E j \in Jobs : results[j] = "err" THEN 1 ELSE 0
    /\ UNCHANGED <<window, index, handles, job, results, stem, stage, disk>>

Exited == main = "exited" /\ UNCHANGED vars

Main == Check \/ (MainStep /\ UNCHANGED batchVars) \/ Exit

JobStep(j) == Work(j) \/ Create(j) \/ Write(j)

Next == Main \/ Exited \/ \E j \in Jobs : JobStep(j)

\* The OS schedules the threads; compiling and proving terminate.
Fairness == WF_vars(Main) /\ \A j \in Jobs : WF_vars(JobStep(j))

Spec == Init /\ [][Next]_vars /\ Fairness

-----------------------------------------------------------------------------

\* The variables hold what their comments say.
TypeOK ==
    /\ RunnerTypeOK
    /\ stem \in [Jobs -> Stems]
    /\ stage \in [Jobs -> {"work", "create", "write"}]
    /\ disk \in [Stems -> {Absent, Earlier, Partial} \cup {ProofOf(j) : j \in Jobs}]
    /\ exit \in {-1, 0, 1, 101}

\* A job that has ended well has its own whole proof in its file, and no
\* other job, before or after it, destroys it.
ProofsSurvive == \A j \in Jobs : job[j] = "ok" => disk[stem[j]] = ProofOf(j)

\* The exit code is 0 only if every file of the batch is the proof of its own
\* input, none left over from an earlier batch and none cut short.
ZeroExitMeansProved ==
    exit = 0 => \A j \in Jobs : disk[stem[j]] = ProofOf(j)

\* The batch ends, even when jobs fail or panic.
BatchEnds == <>(main = "exited")

=============================================================================
