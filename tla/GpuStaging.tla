----------------------------- MODULE GpuStaging -----------------------------
(***************************************************************************)
(* The wgpu accelerator while several proofs use it: wgpu/accelerator.rs.  *)
(* One accelerator serves the whole process (set_gpu_accelerator keeps the *)
(* first), so the threads of a batch share its pool of staging buffers and *)
(* its cache of twiddle factors, each behind a mutex of its own.           *)
(*                                                                         *)
(* The prover calls hooks; a hook is a sequence of passes, each one GPU    *)
(* command with its readback or a piece of work left to the host.  An NTT  *)
(* pass keeps the twiddle lock from binding its factors to its end, so a   *)
(* panic inside it poisons the lock; the pool is only locked to take a     *)
(* buffer out and to put one in.                                           *)
(*                                                                         *)
(* Sizes are in words of eight bytes.  The data is left out: what counts   *)
(* of a pass is how many words it reads back.                              *)
(***************************************************************************)
EXTENDS Integers, Sequences, FiniteSets

CONSTANTS Threads,    (* the threads that prove                            *)
          Hooks,      (* the calls of hooks in use                         *)
          Passes(_),  (* the passes of a call                              *)
          Words(_),   (* the words of the answer to a call                 *)
          Plans,      (* the calls each thread makes                       *)
          Keys,       (* <<domain size, inverse>>, what factors are for    *)
          PoolLimit,  (* 8, the buffers the pool keeps                     *)
          MaxGroups   (* 65535, the workgroups the device takes at once    *)

\* kind is "host", "ntt" or "other".
Pass == [kind : {"host", "ntt", "other"}, key : Keys, out : Nat, groups : Nat]

ASSUME HooksAssumption == \A h \in Hooks : Passes(h) \in Seq(Pass) /\ Words(h) \in Nat
ASSUME PlansAssumption == Plans \subseteq [Threads -> Seq(Hooks)]
ASSUME LimitsAssumption == PoolLimit \in Nat /\ MaxGroups \in Nat

VARIABLES
  calls,      (* the hooks each thread has not been answered yet           *)
  passes,     (* the passes left of its current hook                       *)
  at,         (* where each thread is                                      *)
  words,      (* the words its current hook has been given                 *)
  twiddles,   (* the cache: <<key, the key its factors were made for>>     *)
  bound,      (* the factors each thread's pass was given                  *)
  holder,     (* the thread that holds the twiddle lock, or none           *)
  poisoned,   (* a thread panicked while it held the twiddle lock          *)
  pool,       (* the free staging buffers, each with its recorded size     *)
  sizes,      (* the true sizes of all buffers ever created                *)
  held        (* the staging buffer of each thread's pass, or 0            *)

lock == <<twiddles, bound, holder, poisoned>>
staging == <<pool, sizes, held>>
vars == <<calls, passes, at, words, twiddles, bound, holder, poisoned, pool, sizes, held>>

\* The pass thread t is in.
Now(t) == passes[t][1]

Go(t, from, to) == at[t] = from /\ at' = [at EXCEPT ![t] = to]

-----------------------------------------------------------------------------

Init ==
    /\ calls \in Plans
    /\ passes = [t \in Threads |-> <<>>]
    /\ at = [t \in Threads |-> "idle"]
    /\ words = [t \in Threads |-> 0]
    /\ twiddles = {} /\ bound = [t \in Threads |-> {}]
    /\ holder = {} /\ poisoned = FALSE
    /\ pool = {} /\ sizes = <<>> /\ held = [t \in Threads |-> 0]

\* The prover calls the next hook.
Begin(t) ==
    /\ Go(t, "idle", "pass")
    /\ calls[t] # <<>>
    /\ passes' = [passes EXCEPT ![t] = Passes(Head(calls[t]))]
    /\ words' = [words EXCEPT ![t] = 0]
    /\ UNCHANGED <<calls, lock, staging>>

\* The hook returns.
Answer(t) ==
    /\ Go(t, "pass", "idle")
    /\ passes[t] = <<>>
    /\ calls' = [calls EXCEPT ![t] = Tail(@)]
    /\ UNCHANGED <<passes, words, lock, staging>>

\* A pass that runs on the host.
Host(t) ==
    /\ at[t] = "pass" /\ passes[t] # <<>> /\ Now(t).kind = "host"
    /\ words' = [words EXCEPT ![t] = @ + Now(t).out]
    /\ passes' = [passes EXCEPT ![t] = Tail(@)]
    /\ UNCHANGED <<calls, at, lock, staging>>

\* A panic drops the thread's buffer and its guard, which poisons the lock.
Panic(t) ==
    /\ at' = [at EXCEPT ![t] = "panicked"]
    /\ held' = [held EXCEPT ![t] = 0]
    /\ holder' = holder \ {t}
    /\ poisoned' = (poisoned \/ t \in holder)
    /\ UNCHANGED <<calls, passes, words, twiddles, bound, pool, sizes>>

-----------------------------------------------------------------------------
(* Twiddle factors.                                                        *)

Waits(t) ==
    /\ passes[t] # <<>> /\ Now(t).kind = "ntt"
    /\ at[t] \in {"pass", "lock"}
    /\ holder = {}

\* Variant of CacheKey: both directions of a size share their factors.
SizeKey(p) == <<p.key[1], FALSE>>

\* let key = (n, is_inverse)
CacheKey(p) == p.key

\* Variant of EnsureTwiddles: the guard outlives the function.
EnsureAndKeep(t) ==
    /\ Waits(t) /\ ~poisoned
    /\ Go(t, "pass", "lock")
    /\ twiddles' = twiddles \cup {<<CacheKey(Now(t)), Now(t).key>>}
    /\ holder' = {t}
    /\ UNCHANGED <<calls, passes, words, bound, poisoned, staging>>

\* ensure_twiddle_cached: made once for each key.
EnsureTwiddles(t) ==
    /\ Waits(t) /\ ~poisoned
    /\ Go(t, "pass", "lock")
    /\ twiddles' = IF \E f \in twiddles : f[1] = CacheKey(Now(t)) THEN twiddles
                   ELSE twiddles \cup {<<CacheKey(Now(t)), Now(t).key>>}
    /\ UNCHANGED <<calls, passes, words, bound, holder, poisoned, staging>>

\* The lock is taken again, and kept, to bind the factors.
LockTwiddles(t) ==
    /\ Waits(t) /\ ~poisoned
    /\ Go(t, "lock", "acquire")
    /\ holder' = {t}
    /\ bound' = [bound EXCEPT ![t] = {f[2] : f \in {g \in twiddles : g[1] = CacheKey(Now(t))}}]
    /\ UNCHANGED <<calls, passes, words, twiddles, poisoned, staging>>

\* lock().unwrap() on a poisoned lock.
LockPanics(t) == Waits(t) /\ poisoned /\ Panic(t)

-----------------------------------------------------------------------------
(* Staging buffers.                                                        *)

\* Variant of Fits: the comparison is the wrong way round.
FitsIn(e, size) == e.room <= size

\* The recorded size decides.
Fits(e, size) == e.room >= size

\* Variant of TakeFree: the buffer also stays in the pool.
TakeShared(t, size) ==
    \E e \in pool :
        /\ Fits(e, size)
        /\ held' = [held EXCEPT ![t] = e.buf]
        /\ UNCHANGED <<pool, sizes>>

\* acquire_staging with a buffer that fits: a smallest one.
TakeFree(t, size) ==
    \E e \in pool :
        /\ Fits(e, size)
        /\ \A f \in pool : Fits(f, size) => e.room <= f.room
        /\ pool' = pool \ {e}
        /\ held' = [held EXCEPT ![t] = e.buf]
        /\ UNCHANGED sizes

\* acquire_staging without one: a new buffer of exactly this size.
Create(t, size) ==
    /\ \A e \in pool : ~Fits(e, size)
    /\ sizes' = Append(sizes, size)
    /\ held' = [held EXCEPT ![t] = Len(sizes) + 1]
    /\ UNCHANGED pool

Acquire(t) ==
    /\ passes[t] # <<>>
    /\ IF Now(t).kind = "other" THEN Go(t, "pass", "submit")
       ELSE Now(t).kind = "ntt" /\ Go(t, "acquire", "submit")
    /\ TakeFree(t, Now(t).out) \/ Create(t, Now(t).out)
    /\ UNCHANGED <<calls, passes, words, lock>>

\* The command is encoded, submitted and waited for.  wgpu refuses, with a
\* panic, a dispatch of too many workgroups.
Submit(t) ==
    /\ Go(t, "submit", "read")
    /\ Now(t).groups <= MaxGroups
    /\ UNCHANGED <<calls, passes, words, lock, staging>>

SubmitPanics(t) ==
    /\ at[t] = "submit" /\ Now(t).groups > MaxGroups
    /\ Panic(t)

\* Variant of Overruns: every reader walks over the whole mapped buffer.
OverrunsAlways(t) == sizes[held[t]] > Now(t).out

\* An NTT walks over the whole mapped buffer and stores word i in column[i];
\* the other readers take the words of their answer only.
Overruns(t) == Now(t).kind = "ntt" /\ sizes[held[t]] > Now(t).out

Read(t) ==
    /\ Go(t, "read", "release")
    /\ ~Overruns(t)
    /\ words' = [words EXCEPT ![t] = @ + Now(t).out]
    /\ UNCHANGED <<calls, passes, lock, staging>>

ReadPanics(t) == at[t] = "read" /\ Overruns(t) /\ Panic(t)

\* pool.len() < 8
Keeps == Cardinality(pool) < PoolLimit

\* release_staging: the size on record is the size that was asked for, and
\* a buffer too many is dropped.
Release(t) ==
    /\ at[t] = "release"
    /\ pool' = IF Keeps THEN pool \cup {[buf |-> held[t], room |-> Now(t).out]} ELSE pool
    /\ held' = [held EXCEPT ![t] = 0]
    /\ at' = [at EXCEPT ![t] = IF Now(t).kind = "ntt" THEN "unlock" ELSE "pass"]
    /\ passes' = IF Now(t).kind = "ntt" THEN passes ELSE [passes EXCEPT ![t] = Tail(@)]
    /\ UNCHANGED <<calls, words, lock, sizes>>

\* The guard of an NTT is dropped last.
Unlock(t) ==
    /\ Go(t, "unlock", "pass")
    /\ holder' = holder \ {t}
    /\ passes' = [passes EXCEPT ![t] = Tail(@)]
    /\ UNCHANGED <<calls, words, twiddles, bound, poisoned, staging>>

-----------------------------------------------------------------------------

Step(t) ==
    \/ Begin(t) \/ Answer(t) \/ Host(t)
    \/ EnsureTwiddles(t) \/ LockTwiddles(t) \/ LockPanics(t)
    \/ Acquire(t) \/ Submit(t) \/ SubmitPanics(t)
    \/ Read(t) \/ ReadPanics(t) \/ Release(t) \/ Unlock(t)

Stopped(t) == at[t] = "panicked" \/ (at[t] = "idle" /\ calls[t] = <<>>)

AllStopped == (\A t \in Threads : Stopped(t)) /\ UNCHANGED vars

Next == AllStopped \/ \E t \in Threads : Step(t)

\* The OS schedules the threads and the GPU completes what is submitted.
Spec == Init /\ [][Next]_vars /\ \A t \in Threads : WF_vars(Step(t))

-----------------------------------------------------------------------------
(* Properties.                                                             *)

Buffers == 1 .. Len(sizes)

\* The variables hold what their comments say.
TypeOK ==
    /\ calls \in [Threads -> Seq(Hooks)]
    /\ passes \in [Threads -> Seq(Pass)]
    /\ at \in [Threads -> {"idle", "pass", "lock", "acquire", "submit", "read",
                           "release", "unlock", "panicked"}]
    /\ words \in [Threads -> Nat]
    /\ twiddles \subseteq Keys \X Keys
    /\ bound \in [Threads -> SUBSET Keys]
    /\ holder \subseteq Threads /\ poisoned \in BOOLEAN
    /\ pool \subseteq [buf : Nat, room : Nat]
    /\ sizes \in Seq(Nat)
    /\ held \in [Threads -> Nat]

\* A staging buffer has one user: two passes never share one, none is in use
\* and free at once, and no buffer is twice in the pool.
BuffersExclusive ==
    /\ \A t, u \in Threads : t # u /\ held[t] = held[u] => held[t] = 0
    /\ \A e \in pool : e.buf \in Buffers /\ \A t \in Threads : held[t] # e.buf
    /\ \A e, f \in pool : e.buf = f.buf => e = f

\* Every readback fits the buffer it was given, however often this buffer
\* has been reused under other sizes, and the pool stays within its limit.
CopiesFit ==
    /\ \A t \in Threads : held[t] # 0 =>
          held[t] \in Buffers /\ sizes[held[t]] >= Now(t).out
    /\ \A e \in pool : sizes[e.buf] >= e.room
    /\ Cardinality(pool) <= PoolLimit

\* The factors an NTT is given are those of its size and direction, whoever
\* filled the cache between its two looks at it.
TwiddlesMatch ==
    \A t \in Threads :
        at[t] \in {"acquire", "submit", "read", "release", "unlock"} /\ Now(t).kind = "ntt" =>
            bound[t] = {Now(t).key} /\ holder = {t}

\* A hook that returns has given every word of its answer, also when it was
\* split into chunks, on the GPU and on the host.
WholeAnswers ==
    \A t \in Threads :
        at[t] = "pass" /\ passes[t] = <<>> => words[t] = Words(Head(calls[t]))

\* A panic spreads, by the poisoned lock, to NTTs only: any other pass that
\* panics has sent too large a dispatch itself.
FailureIsContained ==
    \A t \in Threads :
        at[t] = "panicked" => Now(t).kind = "ntt" \/ Now(t).groups > MaxGroups

\* Every thread gets all its answers or panics: nobody waits for ever for
\* the twiddle lock.
ThreadsStop == <>(\A t \in Threads : Stopped(t))

\* gpu-backend.md: "Each hook must preserve the upstream field/hash semantics
\* and fall back when unsupported."  No NTT is given back more words than its
\* column has, where the store would panic.
ColumnsHold == \A t \in Threads : at[t] = "read" => ~Overruns(t)

=============================================================================
