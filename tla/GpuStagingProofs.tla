-------------------------- MODULE GpuStagingProofs --------------------------
(***************************************************************************)
(* Proofs about the accelerator, for any number of threads, any calls, any *)
(* number of buffers in the pool and any size of dispatch; and about the   *)
(* hooks, for any memory budget and any sizes of their arguments.          *)
(***************************************************************************)
EXTENDS GpuStaging, GpuHooks, FiniteSetTheorems, TLAPS

-----------------------------------------------------------------------------
(* The inductive invariant, part by part.                                  *)

\* A pass in the twiddle lock.
Locked(t) ==
    at[t] \in {"acquire", "submit", "read", "release", "unlock"} /\ Now(t).kind = "ntt"

\* Where a thread may be in which kind of pass, and where it has a buffer.
PlaceInv ==
    \A t \in Threads :
        /\ at[t] \notin {"idle", "pass"} => passes[t] # <<>>
        /\ at[t] \in {"lock", "acquire", "unlock"} => Now(t).kind = "ntt"
        /\ at[t] \in {"submit", "read", "release"} => Now(t).kind \in {"ntt", "other"}
        /\ at[t] \in {"submit", "read", "release"} <=> held[t] # 0
        /\ at[t] \notin {"idle", "panicked"} => calls[t] # <<>>

\* The lock is held by the one thread in such a pass, and the factors it has
\* been given are those of its key; so are those another one will be given.
LockInv ==
    /\ \A t \in Threads : t \in holder <=> Locked(t)
    /\ \A t, u \in holder : t = u
    /\ \A f \in twiddles : f[1] = f[2]
    /\ \A t \in Threads :
          /\ at[t] = "lock" => <<Now(t).key, Now(t).key>> \in twiddles
          /\ Locked(t) => bound[t] = {Now(t).key}

StagingInv == IsFiniteSet(pool) /\ BuffersExclusive /\ CopiesFit

IInv == TypeOK /\ PlaceInv /\ LockInv /\ StagingInv /\ FailureIsContained

-----------------------------------------------------------------------------
(* The steps, grouped by what they touch.                                  *)

\* It holds before the first call.
LEMMA InitInv == Init => IInv
<1> SUFFICES ASSUME Init PROVE IInv
  OBVIOUS
<1> USE DEF Init
<1>1. TypeOK
  <2>1. calls \in [Threads -> Seq(Hooks)]
    BY PlansAssumption
  <2>2. <<>> \in Seq(Pass) /\ <<>> \in Seq(Nat) /\ {} \in SUBSET Keys
    OBVIOUS
  <2> QED
    BY <2>1, <2>2 DEF TypeOK
<1>2. PlaceInv /\ LockInv /\ FailureIsContained
  BY DEF PlaceInv, LockInv, Locked, FailureIsContained
<1>3. IsFiniteSet(pool) /\ Cardinality(pool) = 0
  BY FS_EmptySet
<1>4. StagingInv
  BY <1>3, LimitsAssumption DEF StagingInv, BuffersExclusive, CopiesFit
<1> QED
  BY <1>1, <1>2, <1>3, <1>4 DEF IInv

\* The pass at hand is a pass.
LEMMA NowIsPass ==
    ASSUME TypeOK, NEW t \in Threads, passes[t] # <<>>
    PROVE  /\ Now(t) \in Pass /\ Now(t).out \in Nat /\ Now(t).groups \in Nat
           /\ Now(t).key \in Keys /\ Tail(passes[t]) \in Seq(Pass)
<1>1. passes[t] \in Seq(Pass)
  BY DEF TypeOK
<1>2. Now(t) \in Pass /\ Tail(passes[t]) \in Seq(Pass)
  BY <1>1 DEF Now
<1> QED
  BY <1>2 DEF Pass

\* Staging is not disturbed where no buffer changes hands, by a step of a
\* thread that has none.
LEMMA StagingKept ==
    ASSUME IInv, NEW t \in Threads, held[t] = 0, UNCHANGED staging,
           \A u \in Threads : u # t => passes'[u] = passes[u]
    PROVE  StagingInv'
BY DEF IInv, StagingInv, BuffersExclusive, CopiesFit, Buffers, staging, Now

\* Nobody gets into the lock or out of it where no lock changes.
LEMMA LockKept ==
    ASSUME IInv, NEW t \in Threads, UNCHANGED lock,
           \A u \in Threads : u # t => passes'[u] = passes[u] /\ at'[u] = at[u],
           Locked(t)' = Locked(t), Locked(t) => Now(t)' = Now(t), at'[t] # "lock"
    PROVE  LockInv'
<1> USE DEF IInv, LockInv, lock
<1>1. ASSUME NEW u \in Threads PROVE u \in holder' <=> Locked(u)'
  BY <1>1 DEF Locked, Now
<1>2. ASSUME NEW u \in Threads, at'[u] = "lock" PROVE <<Now(u)', Now(u)'>> = <<Now(u), Now(u)>> /\ at[u] = "lock"
  BY <1>2 DEF Now
<1>3. ASSUME NEW u \in Threads, Locked(u)' PROVE Locked(u) /\ Now(u)' = Now(u)
  BY <1>3 DEF Locked, Now
<1> QED
  BY <1>1, <1>2, <1>3

\* A hook is called, answered, or gives a pass to the host.
LEMMA HostStep ==
    ASSUME IInv, NEW t \in Threads, Begin(t) \/ Answer(t) \/ Host(t)
    PROVE  IInv'
<1> USE DEF IInv, Begin, Answer, Host, Go
<1>0. /\ at[t] \in {"idle", "pass"} /\ at'[t] \in {"idle", "pass"}
      /\ \A u \in Threads : u # t => passes'[u] = passes[u] /\ at'[u] = at[u]
                                     /\ calls'[u] = calls[u]
      /\ held[t] = 0 /\ UNCHANGED <<lock, staging>>
  BY DEF TypeOK, PlaceInv
<1>1. TypeOK'
  <2>1. ASSUME Begin(t) PROVE Passes(Head(calls[t])) \in Seq(Pass)
    BY <2>1, HooksAssumption DEF TypeOK
  <2>2. ASSUME Host(t)
        PROVE  Tail(passes[t]) \in Seq(Pass) /\ words[t] + Now(t).out \in Nat
    BY <2>2, NowIsPass DEF TypeOK
  <2>3. ASSUME Answer(t) PROVE Tail(calls[t]) \in Seq(Hooks)
    <3>1. calls[t] \in Seq(Hooks) /\ calls[t] # <<>>
      BY <2>3 DEF TypeOK, PlaceInv
    <3> QED
      BY <3>1
  <2>4. UNCHANGED <<twiddles, bound, holder, poisoned, pool, sizes, held>>
    BY <1>0 DEF lock, staging
  <2>5. calls' \in [Threads -> Seq(Hooks)]
    BY <2>3 DEF TypeOK
  <2>6. passes' \in [Threads -> Seq(Pass)]
    BY <2>1, <2>2 DEF TypeOK
  <2>7. words' \in [Threads -> Nat]
    BY <2>2 DEF TypeOK
  <2> QED
    BY <2>4, <2>5, <2>6, <2>7 DEF TypeOK
<1>2. PlaceInv'
  <2>1. \A u \in Threads : u # t => Now(u)' = Now(u)
    BY <1>0 DEF Now
  <2>2. held' = held
    BY <1>0 DEF staging
  <2>3. at'[t] # "idle" => calls'[t] # <<>>
    BY DEF PlaceInv, TypeOK
  <2> HIDE DEF Begin, Answer, Host, Go
  <2> QED
    BY <1>0, <2>1, <2>2, <2>3 DEF PlaceInv
<1>3. LockInv'
  BY <1>0, LockKept DEF Locked
<1>4. StagingInv'
  BY <1>0, StagingKept
<1>5. FailureIsContained'
  BY <1>0 DEF FailureIsContained, Now
<1> QED
  BY <1>1, <1>2, <1>3, <1>4, <1>5

\* A thread that is in an NTT, or has sent too large a dispatch, panics.
LEMMA PanicStep ==
    ASSUME IInv, NEW t \in Threads, Panic(t), passes[t] # <<>>,
           Now(t).kind = "ntt" \/ Now(t).groups > MaxGroups
    PROVE  IInv'
<1> USE DEF IInv, Panic
<1>0. /\ at'[t] = "panicked" /\ held'[t] = 0 /\ ~Locked(t)'
      /\ \A u \in Threads : u # t => at'[u] = at[u] /\ held'[u] = held[u]
      /\ \A u \in Threads : Now(u)' = Now(u)
  BY DEF TypeOK, Locked, Now
<1>1. TypeOK'
  BY DEF TypeOK
<1>2. PlaceInv'
  BY <1>0 DEF PlaceInv
<1>3. LockInv'
  <2>1. \A u \in Threads : u # t => Locked(u)' = Locked(u)
    BY <1>0 DEF Locked
  <2> QED
    BY <1>0, <2>1 DEF LockInv, TypeOK
<1>4. StagingInv'
  BY <1>0 DEF StagingInv, BuffersExclusive, CopiesFit, Buffers
<1>5. FailureIsContained'
  BY <1>0 DEF FailureIsContained
<1> QED
  BY <1>1, <1>2, <1>3, <1>4, <1>5

\* The factors of the key at hand are in the cache from now on.
LEMMA EnsureTwiddlesStep ==
    ASSUME IInv, NEW t \in Threads, EnsureTwiddles(t)
    PROVE  IInv'
<1> USE DEF IInv, EnsureTwiddles, Go, Waits, staging
<1> DEFINE key == Now(t).key
<1>0. /\ key \in Keys /\ at[t] = "pass" /\ at'[t] = "lock" /\ passes' = passes
      /\ held[t] = 0 /\ passes[t] # <<>> /\ Now(t).kind = "ntt"
      /\ \A u \in Threads : u # t => at'[u] = at[u]
      /\ \A u \in Threads : Now(u)' = Now(u)
      /\ \A u \in Threads : Locked(u)' = Locked(u)
  BY NowIsPass DEF TypeOK, PlaceInv, Now, Locked
<1>00. twiddles' \subseteq twiddles \cup {<<key, key>>} /\ twiddles \subseteq twiddles'
  BY DEF CacheKey
<1>01. <<key, key>> \in twiddles'
  <2>1. CASE \E f \in twiddles : f[1] = key
    <3>1. PICK f \in twiddles : f[1] = key
      BY <2>1
    <3>2. f \in Keys \X Keys /\ f[1] = f[2]
      BY <3>1 DEF TypeOK, LockInv
    <3>3. f = <<key, key>>
      BY <3>1, <3>2
    <3> QED
      BY <3>1, <3>3, <1>00
  <2>2. CASE ~\E f \in twiddles : f[1] = key
    BY <2>2 DEF CacheKey
  <2> QED
    BY <2>1, <2>2
<1>1. TypeOK'
  BY <1>0, <1>00 DEF TypeOK
<1>2. PlaceInv'
  BY <1>0 DEF PlaceInv
<1>3. LockInv'
  <2>1. \A f \in twiddles' : f[1] = f[2]
    BY <1>00 DEF LockInv
  <2> QED
    BY <1>0, <1>00, <1>01, <2>1 DEF LockInv
<1>4. StagingInv'
  BY <1>0, StagingKept
<1>5. FailureIsContained'
  BY <1>0 DEF FailureIsContained
<1> QED
  BY <1>1, <1>2, <1>3, <1>4, <1>5

\* The lock is free, is taken, and the factors that are bound are one key's.
LEMMA LockTwiddlesStep ==
    ASSUME IInv, NEW t \in Threads, LockTwiddles(t)
    PROVE  IInv'
<1> USE DEF IInv, LockTwiddles, Go, Waits, staging
<1> DEFINE key == Now(t).key
<1>0. /\ key \in Keys /\ at[t] = "lock" /\ at'[t] = "acquire" /\ passes' = passes
      /\ held[t] = 0 /\ passes[t] # <<>> /\ Now(t).kind = "ntt"
      /\ \A u \in Threads : u # t => at'[u] = at[u]
      /\ \A u \in Threads : Now(u)' = Now(u)
  BY NowIsPass DEF TypeOK, PlaceInv, Now
<1>00. {f[2] : f \in {g \in twiddles : g[1] = key}} = {key}
  <2>1. <<key, key>> \in twiddles /\ \A f \in twiddles : f[1] = f[2]
    BY <1>0 DEF LockInv
  <2>2. <<key, key>>[1] = key /\ <<key, key>>[2] = key
    OBVIOUS
  <2> QED
    BY <2>1, <2>2
<1>01. bound' = [bound EXCEPT ![t] = {key}]
  BY <1>00 DEF CacheKey
<1>02. \A u \in Threads : ~Locked(u)
  BY DEF LockInv
<1>03. \A u \in Threads : Locked(u)' <=> u = t
  BY <1>0, <1>02 DEF Locked
<1>1. TypeOK'
  BY <1>0, <1>01 DEF TypeOK
<1>2. PlaceInv'
  BY <1>0 DEF PlaceInv
<1>3. LockInv'
  <2>1. bound'[t] = {key} /\ \A u \in holder' : u = t
    BY <1>01 DEF TypeOK
  <2>2. \A u \in Threads : at'[u] = "lock" => at[u] = "lock"
    BY <1>0
  <2> QED
    BY <1>0, <1>03, <2>1, <2>2 DEF LockInv, TypeOK
<1>4. StagingInv'
  BY <1>0, StagingKept
<1>5. FailureIsContained'
  BY <1>0 DEF FailureIsContained
<1> QED
  BY <1>1, <1>2, <1>3, <1>4, <1>5

\* A buffer is taken from the pool or made, and fits.
LEMMA AcquireStep ==
    ASSUME IInv, NEW t \in Threads, Acquire(t)
    PROVE  IInv'
<1> USE DEF IInv, Acquire, Go, lock
<1> DEFINE size == Now(t).out
<1>0. /\ size \in Nat /\ passes[t] # <<>> /\ passes' = passes /\ at'[t] = "submit"
      /\ at[t] \in {"pass", "acquire"} /\ Now(t).kind \in {"ntt", "other"}
      /\ at[t] = "acquire" <=> Now(t).kind = "ntt"
      /\ held[t] = 0 /\ calls[t] # <<>>
      /\ \A u \in Threads : u # t => at'[u] = at[u]
      /\ \A u \in Threads : Now(u)' = Now(u)
  BY NowIsPass DEF TypeOK, PlaceInv, Now
<1>00. sizes \in Seq(Nat) /\ Len(sizes) \in Nat /\ pool \subseteq [buf : Nat, room : Nat]
       /\ held \in [Threads -> Nat]
  BY DEF TypeOK
<1> HIDE DEF size
<1>a. ASSUME TakeFree(t, size)
    PROVE  /\ TypeOK' /\ StagingInv' /\ held'[t] # 0
           /\ \A u \in Threads : u # t => held'[u] = held[u]
  <2>1. PICK e \in pool : /\ e.room >= size /\ pool' = pool \ {e}
                          /\ held' = [held EXCEPT ![t] = e.buf] /\ UNCHANGED sizes
    BY <1>a DEF TakeFree, Fits
  <2>2. /\ e.buf \in 1 .. Len(sizes) /\ sizes[e.buf] >= e.room /\ e.room \in Nat
        /\ \A u \in Threads : held[u] # e.buf
        /\ \A f \in pool' : f \in pool /\ f.buf # e.buf
    BY <2>1, <1>00 DEF StagingInv, BuffersExclusive, CopiesFit, Buffers
  <2>3. held'[t] = e.buf /\ e.buf # 0 /\ \A u \in Threads : u # t => held'[u] = held[u]
    BY <2>1, <2>2, <1>00
  <2>4. IsFiniteSet(pool') /\ Cardinality(pool') <= PoolLimit
    <3>1. IsFiniteSet(pool) /\ Cardinality(pool) <= PoolLimit
      BY DEF StagingInv, CopiesFit
    <3>2. IsFiniteSet(pool') /\ Cardinality(pool') <= Cardinality(pool)
      BY <2>1, <3>1, FS_Subset
    <3> QED
      BY <3>1, <3>2, FS_CardinalityType, LimitsAssumption
  <2>5. sizes[e.buf] \in Nat
    BY <2>2, <1>00
  <2>6. BuffersExclusive'
    BY <2>1, <2>2, <2>3 DEF StagingInv, BuffersExclusive, Buffers
  <2>7. CopiesFit'
    <3>1. sizes[e.buf] >= size
      BY <2>1, <2>2, <2>5, <1>0, <1>00
    <3> QED
      BY <3>1, <2>1, <2>2, <2>3, <2>4, <1>0 DEF StagingInv, CopiesFit, Buffers, size
  <2>8. TypeOK'
    BY <2>1, <2>2, <1>00, <1>0 DEF TypeOK
  <2> QED
    BY <2>3, <2>4, <2>6, <2>7, <2>8 DEF StagingInv
<1>b. ASSUME Create(t, size)
    PROVE  /\ TypeOK' /\ StagingInv' /\ held'[t] # 0
           /\ \A u \in Threads : u # t => held'[u] = held[u]
  <2>1. /\ sizes' = Append(sizes, size) /\ pool' = pool
        /\ held' = [held EXCEPT ![t] = Len(sizes) + 1]
    BY <1>b DEF Create
  <2>2. /\ sizes' \in Seq(Nat) /\ Len(sizes') = Len(sizes) + 1
        /\ sizes'[Len(sizes) + 1] = size
        /\ \A b \in 1 .. Len(sizes) : sizes'[b] = sizes[b]
    BY <2>1, <1>0, <1>00
  <2>3. /\ held'[t] = Len(sizes) + 1 /\ held'[t] # 0
        /\ \A u \in Threads : u # t => held'[u] = held[u]
    BY <2>1, <1>00
  <2>4. \A u \in Threads : held[u] # 0 => held[u] \in 1 .. Len(sizes)
    BY DEF StagingInv, CopiesFit, Buffers
  <2>5. \A e \in pool : e.buf \in 1 .. Len(sizes)
    BY DEF StagingInv, BuffersExclusive, Buffers
  <2>6. BuffersExclusive'
    BY <2>1, <2>2, <2>3, <2>4, <2>5, <1>00 DEF StagingInv, BuffersExclusive, Buffers
  <2>7. CopiesFit'
    BY <2>1, <2>2, <2>3, <2>4, <2>5, <1>0, <1>00 DEF StagingInv, CopiesFit, Buffers, size
  <2>8. TypeOK'
    <3>1. held' \in [Threads -> Nat]
      BY <2>1, <1>00
    <3>2. pool' \subseteq [buf : Nat, room : Nat]
      BY <2>1, <1>00
    <3>3. at' \in [Threads -> {"idle", "pass", "lock", "acquire", "submit", "read",
                                "release", "unlock", "panicked"}]
      BY DEF TypeOK
    <3> QED
      BY <3>1, <3>2, <3>3, <2>2 DEF TypeOK
  <2>9. IsFiniteSet(pool')
    BY <2>1 DEF StagingInv
  <2> QED
    BY <2>9, <2>3, <2>6, <2>7, <2>8 DEF StagingInv
<1>1. /\ TypeOK' /\ StagingInv' /\ held'[t] # 0
      /\ \A u \in Threads : u # t => held'[u] = held[u]
  BY <1>a, <1>b DEF size
<1>2. PlaceInv'
  BY <1>0, <1>1 DEF PlaceInv
<1>3. LockInv'
  BY <1>0, LockKept DEF Locked
<1>4. FailureIsContained'
  BY <1>0 DEF FailureIsContained
<1> QED
  BY <1>1, <1>2, <1>3, <1>4

\* The command runs and its words are read.
LEMMA ReadStep ==
    ASSUME IInv, NEW t \in Threads, Submit(t) \/ Read(t)
    PROVE  IInv'
<1> USE DEF IInv, Submit, Read, Go, lock, staging
<1>0. /\ passes[t] # <<>> /\ passes' = passes /\ held' = held
      /\ at[t] \in {"submit", "read"} /\ at'[t] \in {"read", "release"}
      /\ \A u \in Threads : u # t => at'[u] = at[u]
      /\ \A u \in Threads : Now(u)' = Now(u)
  BY DEF TypeOK, PlaceInv, Now
<1>1. TypeOK'
  <2>1. words[t] + Now(t).out \in Nat
    BY <1>0, NowIsPass DEF TypeOK
  <2> QED
    BY <2>1 DEF TypeOK
<1>2. PlaceInv'
  BY <1>0 DEF PlaceInv
<1>3. LockInv'
  BY <1>0, LockKept DEF Locked
<1>4. StagingInv'
  BY <1>0 DEF StagingInv, BuffersExclusive, CopiesFit, Buffers
<1>5. FailureIsContained'
  BY <1>0 DEF FailureIsContained
<1> QED
  BY <1>1, <1>2, <1>3, <1>4, <1>5

\* The buffer goes back under the size that was asked for, or is dropped.
LEMMA ReleaseStep ==
    ASSUME IInv, NEW t \in Threads, Release(t)
    PROVE  IInv'
<1> USE DEF IInv, Release, lock
<1> DEFINE e == [buf |-> held[t], room |-> Now(t).out]
<1>0. /\ passes[t] # <<>> /\ at[t] = "release" /\ held[t] # 0 /\ calls[t] # <<>>
      /\ Now(t).kind \in {"ntt", "other"}
      /\ Now(t).out \in Nat /\ Tail(passes[t]) \in Seq(Pass)
  BY NowIsPass DEF PlaceInv
<1>00. /\ held'[t] = 0
       /\ \A u \in Threads : u # t => held'[u] = held[u] /\ at'[u] = at[u]
                                      /\ passes'[u] = passes[u] /\ Now(u)' = Now(u)
       /\ IF Now(t).kind = "ntt" THEN at'[t] = "unlock" /\ passes'[t] = passes[t]
          ELSE at'[t] = "pass"
  BY DEF TypeOK, Now
<1>01. /\ held[t] \in Buffers /\ sizes[held[t]] >= Now(t).out
       /\ \A u \in Threads : u # t => held[u] # held[t]
       /\ \A f \in pool : f.buf # held[t]
  BY <1>0 DEF StagingInv, BuffersExclusive, CopiesFit
<1>02. e.buf = held[t] /\ e.room = Now(t).out /\ e \notin pool
  BY <1>01
<1>03. pool' \subseteq pool \cup {e}
  OBVIOUS
<1>04. IsFiniteSet(pool') /\ Cardinality(pool') <= PoolLimit
  <2>1. IsFiniteSet(pool) /\ Cardinality(pool) <= PoolLimit /\ Cardinality(pool) \in Nat
    BY FS_CardinalityType DEF StagingInv, CopiesFit
  <2>2. IsFiniteSet(pool \cup {e}) /\ Cardinality(pool \cup {e}) = Cardinality(pool) + 1
    BY <2>1, <1>02, FS_AddElement
  <2> QED
    BY <2>1, <2>2, LimitsAssumption DEF Keeps
<1> HIDE DEF e
<1>1. TypeOK'
  <2>1. e \in [buf : Nat, room : Nat]
    BY <1>0 DEF e, TypeOK
  <2>2. pool' \subseteq [buf : Nat, room : Nat]
    BY <1>03, <2>1 DEF TypeOK
  <2> QED
    BY <1>0, <2>2 DEF TypeOK
<1>2. PlaceInv'
  BY <1>0, <1>00 DEF PlaceInv, Now
<1>3. LockInv'
  BY <1>0, <1>00, LockKept DEF Locked, Now
<1>4. BuffersExclusive'
  BY <1>00, <1>01, <1>02, <1>03 DEF StagingInv, BuffersExclusive, Buffers
<1>5. CopiesFit'
  <2>1. \A f \in pool' : sizes[f.buf] >= f.room
    BY <1>01, <1>02, <1>03 DEF StagingInv, CopiesFit
  <2> QED
    BY <1>00, <1>04, <2>1 DEF StagingInv, CopiesFit, Buffers
<1>6. FailureIsContained'
  BY <1>0, <1>00 DEF FailureIsContained
<1> QED
  BY <1>04, <1>1, <1>2, <1>3, <1>4, <1>5, <1>6 DEF StagingInv

\* The guard is dropped, and with it the pass.
LEMMA UnlockStep ==
    ASSUME IInv, NEW t \in Threads, Unlock(t)
    PROVE  IInv'
<1> USE DEF IInv, Unlock, Go, staging
<1>0. /\ passes[t] # <<>> /\ at[t] = "unlock" /\ held[t] = 0 /\ calls[t] # <<>>
      /\ Now(t).kind = "ntt" /\ Tail(passes[t]) \in Seq(Pass)
      /\ at'[t] = "pass"
      /\ \A u \in Threads : u # t => at'[u] = at[u] /\ passes'[u] = passes[u]
                                     /\ Now(u)' = Now(u)
  BY NowIsPass DEF PlaceInv, TypeOK, Now
<1>1. TypeOK'
  BY <1>0 DEF TypeOK
<1>2. PlaceInv'
  BY <1>0 DEF PlaceInv
<1>3. LockInv'
  <2>1. t \in holder /\ holder' = {}
    BY <1>0 DEF LockInv, Locked
  <2>2. \A u \in Threads : u # t => ~Locked(u)
    BY <2>1 DEF LockInv
  <2>3. \A u \in Threads : ~Locked(u)'
    BY <1>0, <2>2 DEF Locked
  <2> QED
    BY <1>0, <2>1, <2>3 DEF LockInv
<1>4. StagingInv'
  BY <1>0, StagingKept
<1>5. FailureIsContained'
  BY <1>0 DEF FailureIsContained
<1> QED
  BY <1>1, <1>2, <1>3, <1>4, <1>5

\* Every step keeps the invariant.
LEMMA NextStep == IInv /\ [Next]_vars => IInv'
<1> SUFFICES ASSUME IInv, [Next]_vars PROVE IInv'
  OBVIOUS
<1>1. ASSUME NEW t \in Threads, Step(t) PROVE IInv'
  <2>1. CASE LockPanics(t)
    BY <2>1, PanicStep DEF LockPanics, Waits
  <2>2. CASE SubmitPanics(t)
    BY <2>2, PanicStep DEF SubmitPanics, IInv, PlaceInv
  <2>3. CASE ReadPanics(t)
    BY <2>3, PanicStep DEF ReadPanics, Overruns, IInv, PlaceInv
  <2> QED
    BY <1>1, <2>1, <2>2, <2>3, HostStep, EnsureTwiddlesStep, LockTwiddlesStep, AcquireStep,
       ReadStep, ReleaseStep, UnlockStep DEF Step
<1>2. CASE UNCHANGED vars
  BY <1>2 DEF vars, IInv, TypeOK, PlaceInv, LockInv, Locked, Now, StagingInv,
              BuffersExclusive, CopiesFit, Buffers, FailureIsContained
<1> QED
  BY <1>1, <1>2 DEF Next, AllStopped

\* The invariant holds in every state.
LEMMA StagingIsSound == Spec => []IInv
BY InitInv, NextStep, PTL DEF Spec

-----------------------------------------------------------------------------
(* The theorems.                                                           *)

\* The variables keep their types.
THEOREM StagingTypes == Spec => []TypeOK
<1>1. IInv => TypeOK
  BY DEF IInv
<1> QED
  BY <1>1, StagingIsSound, PTL

\* No two passes ever share a staging buffer, for any number of threads.
THEOREM BuffersAreExclusive == Spec => []BuffersExclusive
<1>1. IInv => BuffersExclusive
  BY DEF IInv, StagingInv
<1> QED
  BY <1>1, StagingIsSound, PTL

\* No readback overruns its buffer, whatever sizes it went through.
THEOREM CopiesAlwaysFit == Spec => []CopiesFit
<1>1. IInv => CopiesFit
  BY DEF IInv, StagingInv
<1> QED
  BY <1>1, StagingIsSound, PTL

\* An NTT computes with the factors of its own size and direction.
THEOREM TwiddlesAlwaysMatch == Spec => []TwiddlesMatch
<1>1. ASSUME IInv PROVE TwiddlesMatch
  <2>1. ASSUME NEW t \in Threads, Locked(t) PROVE bound[t] = {Now(t).key} /\ holder = {t}
    <3>1. t \in holder /\ \A u \in holder : u = t
      BY <1>1, <2>1 DEF IInv, LockInv, TypeOK
    <3> QED
      BY <1>1, <2>1, <3>1 DEF IInv, LockInv
  <2> QED
    BY <2>1 DEF TwiddlesMatch, Locked
<1> QED
  BY <1>1, StagingIsSound, PTL

\* A panic is passed on by the twiddle lock, and by nothing else.
THEOREM FailuresAreContained == Spec => []FailureIsContained
<1>1. IInv => FailureIsContained
  BY DEF IInv
<1> QED
  BY <1>1, StagingIsSound, PTL

-----------------------------------------------------------------------------
(* The answers are whole.                                                  *)

\* f[i] is what the first i passes of s give together.
PrefixSums(f, s) ==
    /\ f \in [0 .. Len(s) -> Nat]
    /\ f[0] = 0
    /\ \A i \in 1 .. Len(s) : f[i] = f[i - 1] + s[i].out

\* Together the passes of s give n words.
AddUpTo(s, n) == \E f : PrefixSums(f, s) /\ f[Len(s)] = n

\* The passes that the current hook of t has begun with, and those that have
\* given their words.
Begun(t) == Len(Passes(Head(calls[t]))) - Len(passes[t])
Given(t) == Begun(t) + IF at[t] \in {"release", "unlock"} THEN 1 ELSE 0

\* What is left of a hook is the end of its passes, and what it has been given
\* is what the others add up to.
AnswersInv ==
    \A t \in Threads :
        at[t] \notin {"idle", "panicked"} =>
            LET s == Passes(Head(calls[t])) IN
            /\ Begun(t) \in 0 .. Len(s)
            /\ \A i \in 1 .. Len(passes[t]) : passes[t][i] = s[Begun(t) + i]
            /\ \A f : PrefixSums(f, s) => words[t] = f[Given(t)]

\* The next pass of a hook is the one after those it has begun with.
LEMMA NextPass ==
    ASSUME IInv, AnswersInv, NEW t \in Threads, at[t] \notin {"idle", "panicked"},
           passes[t] # <<>>
    PROVE  LET s == Passes(Head(calls[t])) IN
           /\ s \in Seq(Pass) /\ Begun(t) + 1 \in 1 .. Len(s)
           /\ Now(t) = s[Begun(t) + 1]
           /\ \A f : PrefixSums(f, s) => f[Begun(t) + 1] = f[Begun(t)] + Now(t).out
           /\ Len(Tail(passes[t])) = Len(passes[t]) - 1
           /\ \A i \in 1 .. Len(Tail(passes[t])) : Tail(passes[t])[i] = s[Begun(t) + 1 + i]
<1> DEFINE s == Passes(Head(calls[t]))
<1>1. calls[t] \in Seq(Hooks) /\ calls[t] # <<>> /\ passes[t] \in Seq(Pass)
  BY DEF IInv, TypeOK, PlaceInv
<1>2. s \in Seq(Pass)
  BY <1>1, HooksAssumption
<1> DEFINE b == Begun(t)
<1>3. Len(passes[t]) \in Nat \ {0} /\ Len(s) \in Nat
  BY <1>1, <1>2
<1>4. b = Len(s) - Len(passes[t]) /\ b \in 0 .. Len(s)
      /\ \A i \in 1 .. Len(passes[t]) : passes[t][i] = s[b + i]
  BY DEF AnswersInv, Begun
<1> HIDE DEF s, b
<1>5. b + 1 \in 1 .. Len(s) /\ Now(t) = s[b + 1]
  <2>1. b + 1 \in 1 .. Len(s) /\ 1 \in 1 .. Len(passes[t])
    BY <1>3, <1>4
  <2> QED
    BY <2>1, <1>4 DEF Now
<1>6. \A f : PrefixSums(f, s) => f[b + 1] = f[b] + Now(t).out
  <2>1. (b + 1) - 1 = b
    BY <1>4
  <2> QED
    BY <1>5, <2>1 DEF PrefixSums
<1>7. /\ Len(Tail(passes[t])) = Len(passes[t]) - 1
      /\ \A i \in 1 .. Len(Tail(passes[t])) : Tail(passes[t])[i] = passes[t][i + 1]
  BY <1>1, <1>3
<1>8. ASSUME NEW i \in 1 .. Len(Tail(passes[t])) PROVE Tail(passes[t])[i] = s[b + 1 + i]
  <2>1. i + 1 \in 1 .. Len(passes[t]) /\ b + (i + 1) = b + 1 + i
    BY <1>3, <1>4, <1>7
  <2> QED
    BY <1>4, <1>7, <2>1
<1> QED
  BY <1>2, <1>5, <1>6, <1>7, <1>8 DEF s, b

\* A step of one thread leaves the answers of the others as they are.
LEMMA OthersAnswers ==
    ASSUME IInv, AnswersInv, NEW t \in Threads, Step(t), NEW u \in Threads, u # t,
           at'[u] \notin {"idle", "panicked"}
    PROVE  LET s == Passes(Head(calls[u])) IN
           /\ Head(calls[u])' = Head(calls[u])
           /\ Begun(u)' \in 0 .. Len(s)
           /\ \A i \in 1 .. Len(passes'[u]) : passes'[u][i] = s[Begun(u)' + i]
           /\ \A f : PrefixSums(f, s) => words'[u] = f[Given(u)']
<1>1. /\ calls'[u] = calls[u] /\ passes'[u] = passes[u] /\ at'[u] = at[u]
      /\ words'[u] = words[u]
  BY DEF Step, Begin, Answer, Host, EnsureTwiddles, LockTwiddles, LockPanics, Acquire, Submit,
         SubmitPanics, Read, ReadPanics, Release, Unlock, Panic, Go, IInv, TypeOK
<1>2. Begun(u)' = Begun(u) /\ Given(u)' = Given(u)
  BY <1>1 DEF Begun, Given
<1> QED
  BY <1>1, <1>2 DEF AnswersInv

\* The words of an answer add up pass by pass.
LEMMA AnswersStep ==
    ASSUME IInv, AnswersInv, NEW t \in Threads, Step(t), at'[t] \notin {"idle", "panicked"}
    PROVE  LET s == Passes(Head(calls[t])) IN
           /\ Head(calls[t])' = Head(calls[t])
           /\ Begun(t)' \in 0 .. Len(s)
           /\ \A i \in 1 .. Len(passes'[t]) : passes'[t][i] = s[Begun(t)' + i]
           /\ \A f : PrefixSums(f, s) => words'[t] = f[Given(t)']
<1> DEFINE s == Passes(Head(calls[t]))
<1> USE DEF Go
<1>0. /\ calls \in [Threads -> Seq(Hooks)] /\ passes \in [Threads -> Seq(Pass)]
      /\ words \in [Threads -> Nat]
      /\ at \in [Threads -> {"idle", "pass", "lock", "acquire", "submit", "read",
                             "release", "unlock", "panicked"}]
  BY DEF IInv, TypeOK
<1>1. CASE Begin(t)
  <2>1. /\ calls' = calls /\ calls[t] # <<>> /\ at'[t] = "pass" /\ passes'[t] = s
        /\ words'[t] = 0
    BY <1>0, <1>1 DEF Begin
  <2>2. s \in Seq(Pass) /\ Len(s) \in Nat
    BY <1>0, <2>1, HooksAssumption
  <2>3. Begun(t)' = 0 /\ Given(t)' = 0
    BY <2>1, <2>2 DEF Begun, Given
  <2> QED
    BY <2>1, <2>2, <2>3 DEF PrefixSums
<1>2. CASE Answer(t)
  BY <1>0, <1>2 DEF Answer
<1>3. CASE Host(t)
  <2>1. /\ calls' = calls /\ at[t] = "pass" /\ at'[t] = "pass" /\ passes[t] # <<>>
        /\ passes'[t] = Tail(passes[t]) /\ words'[t] = words[t] + Now(t).out
    BY <1>0, <1>3 DEF Host
  <2>2. /\ Begun(t) + 1 \in 1 .. Len(s) /\ Len(passes'[t]) = Len(passes[t]) - 1
        /\ \A f : PrefixSums(f, s) => f[Begun(t) + 1] = f[Begun(t)] + Now(t).out
        /\ \A i \in 1 .. Len(passes'[t]) : passes'[t][i] = s[Begun(t) + 1 + i]
    BY <2>1, NextPass
  <2>3. /\ Begun(t)' = Begun(t) + 1 /\ Given(t) = Begun(t) /\ Given(t)' = Begun(t)'
        /\ Begun(t) \in Int
    BY <2>1, <2>2, <1>0, NextPass DEF Begun, Given
  <2>4. \A f : PrefixSums(f, s) => words[t] = f[Begun(t)]
    BY <2>1, <2>3 DEF AnswersInv
  <2> QED
    BY <2>1, <2>2, <2>3, <2>4
<1>4. CASE Read(t)
  <2>1. /\ calls' = calls /\ at[t] = "read" /\ at'[t] = "release" /\ passes' = passes
        /\ passes[t] # <<>> /\ words'[t] = words[t] + Now(t).out
    BY <1>0, <1>4 DEF Read, IInv, PlaceInv
  <2>2. \A f : PrefixSums(f, s) => f[Begun(t) + 1] = f[Begun(t)] + Now(t).out
    BY <2>1, NextPass
  <2>3. /\ Begun(t)' = Begun(t) /\ Given(t)' = Begun(t) + 1 /\ Given(t) = Begun(t)
        /\ Begun(t) \in Int
    BY <2>1 DEF Begun, Given, AnswersInv
  <2> QED
    BY <2>1, <2>2, <2>3 DEF AnswersInv
<1>5. CASE Release(t) /\ Now(t).kind = "ntt"
  <2>1. /\ calls' = calls /\ at[t] = "release" /\ at'[t] = "unlock" /\ passes' = passes
        /\ words' = words
    BY <1>0, <1>5 DEF Release
  <2>2. Begun(t)' = Begun(t) /\ Given(t)' = Given(t)
    BY <2>1 DEF Begun, Given
  <2> QED
    BY <2>1, <2>2 DEF AnswersInv
<1>6. CASE Unlock(t) \/ (Release(t) /\ Now(t).kind # "ntt")
  <2>1. /\ calls' = calls /\ at[t] \in {"release", "unlock"} /\ at'[t] = "pass"
        /\ passes[t] # <<>> /\ passes'[t] = Tail(passes[t]) /\ words' = words
    BY <1>0, <1>6 DEF Release, Unlock, IInv, PlaceInv
  <2>2. /\ Begun(t) + 1 \in 1 .. Len(s) /\ Len(passes'[t]) = Len(passes[t]) - 1
        /\ \A i \in 1 .. Len(passes'[t]) : passes'[t][i] = s[Begun(t) + 1 + i]
    BY <2>1, NextPass
  <2>3. /\ Begun(t)' = Begun(t) + 1 /\ Given(t) = Begun(t) + 1 /\ Given(t)' = Begun(t) + 1
        /\ Begun(t) \in Int
    BY <2>1, <2>2, <1>0, NextPass DEF Begun, Given
  <2> QED
    BY <2>1, <2>2, <2>3 DEF AnswersInv
<1>7. CASE EnsureTwiddles(t) \/ LockTwiddles(t) \/ Acquire(t) \/ Submit(t)
  <2>1. /\ calls' = calls /\ passes' = passes /\ words' = words
        /\ {at[t], at'[t]} \subseteq {"pass", "lock", "acquire", "submit", "read"}
    BY <1>0, <1>7 DEF EnsureTwiddles, LockTwiddles, Acquire, Submit
  <2>2. Begun(t)' = Begun(t) /\ Given(t)' = Given(t)
    BY <2>1 DEF Begun, Given
  <2> QED
    BY <2>1, <2>2 DEF AnswersInv
<1>8. CASE LockPanics(t) \/ SubmitPanics(t) \/ ReadPanics(t)
  BY <1>0, <1>8 DEF LockPanics, SubmitPanics, ReadPanics, Panic
<1> QED
  BY <1>1, <1>2, <1>3, <1>4, <1>5, <1>6, <1>7, <1>8 DEF Step

\* Where the passes of every hook add up to the words of its answer, every
\* answer is whole, whatever the other threads do between two passes.
THEOREM AnswersAreWhole ==
    ASSUME \A h \in Hooks : AddUpTo(Passes(h), Words(h))
    PROVE  Spec => []WholeAnswers
<1>1. Init => AnswersInv
  BY DEF Init, AnswersInv
<1>2. IInv /\ AnswersInv /\ [Next]_vars => AnswersInv'
  <2> SUFFICES ASSUME IInv, AnswersInv, [Next]_vars PROVE AnswersInv'
    OBVIOUS
  <2>1. ASSUME NEW t \in Threads, Step(t) PROVE AnswersInv'
    BY <2>1, AnswersStep, OthersAnswers DEF AnswersInv
  <2>2. CASE UNCHANGED vars
    BY <2>2 DEF vars, AnswersInv, Begun, Given
  <2> QED
    BY <2>1, <2>2 DEF Next, AllStopped
<1>3. IInv /\ AnswersInv => WholeAnswers
  <2> SUFFICES ASSUME IInv, AnswersInv,
                      NEW t \in Threads, at[t] = "pass", passes[t] = <<>>
               PROVE  words[t] = Words(Head(calls[t]))
    BY DEF WholeAnswers
  <2> DEFINE s == Passes(Head(calls[t]))
  <2>1. Head(calls[t]) \in Hooks
    <3>1. calls[t] \in Seq(Hooks) /\ calls[t] # <<>>
      BY DEF IInv, TypeOK, PlaceInv
    <3> QED
      BY <3>1
  <2>2. PICK f : PrefixSums(f, s) /\ f[Len(s)] = Words(Head(calls[t]))
    BY <2>1 DEF AddUpTo
  <2>3. Given(t) = Len(s)
    BY <2>1, HooksAssumption DEF Given, Begun
  <2> QED
    BY <2>2, <2>3 DEF AnswersInv
<1> QED
  BY <1>1, <1>2, <1>3, StagingIsSound, PTL DEF Spec

-----------------------------------------------------------------------------
(* The hooks divide every call into passes that add up to its answer.      *)

\* A call that is one pass.
LEMMA OnePass ==
    ASSUME NEW p, p.out \in Nat
    PROVE  AddUpTo(<<p>>, p.out)
<1> DEFINE f == [i \in 0 .. 1 |-> IF i = 0 THEN 0 ELSE p.out]
<1>1. PrefixSums(f, <<p>>)
  BY DEF PrefixSums
<1>2. f[Len(<<p>>)] = p.out
  OBVIOUS
<1> QED
  BY <1>1, <1>2 DEF AddUpTo

\* Where a chunk of k rows ends among n.
EndOf(i, n, k) == IF i * k <= n THEN i * k ELSE n

\* n rows in steps of k are n rows: no row is lost and none is done twice.
LEMMA ChunksEnd ==
    ASSUME NEW n \in Nat, NEW k \in Nat \ {0}
    PROVE  /\ (n + k - 1) \div k \in Nat
           /\ EndOf(0, n, k) = 0 /\ EndOf((n + k - 1) \div k, n, k) = n
           /\ \A i \in 1 .. (n + k - 1) \div k :
                 /\ Chunks(n, k)[i] \in Nat
                 /\ EndOf(i, n, k) \in Nat /\ EndOf(i - 1, n, k) \in Nat
                 /\ EndOf(i, n, k) = EndOf(i - 1, n, k) + Chunks(n, k)[i]
<1> DEFINE L == (n + k - 1) \div k
<1>1. L \in Nat /\ L * k <= n + k - 1 /\ n + k - 1 < (L + 1) * k
  OBVIOUS
<1>2. (L + 1) * k = L * k + k /\ L * k \in Nat
  BY <1>1
<1>3. L * k >= n
  BY <1>1, <1>2
<1>4. EndOf(0, n, k) = 0 /\ EndOf(L, n, k) = n
  <2>1. 0 * k = 0
    OBVIOUS
  <2>2. CASE L * k = n
    BY <2>1, <2>2 DEF EndOf
  <2>3. CASE L * k > n
    BY <2>1, <2>3, <1>2 DEF EndOf
  <2> QED
    BY <1>2, <1>3, <2>2, <2>3
<1> HIDE DEF L
<1>5. ASSUME NEW i \in 1 .. L
      PROVE  /\ Chunks(n, k)[i] \in Nat
             /\ EndOf(i, n, k) \in Nat /\ EndOf(i - 1, n, k) \in Nat
             /\ EndOf(i, n, k) = EndOf(i - 1, n, k) + Chunks(n, k)[i]
  <2>1. i * k \in Nat /\ (i - 1) * k \in Nat /\ i * k = (i - 1) * k + k
    BY <1>1
  <2>2. (i - 1) * k <= (L - 1) * k
    BY <1>1
  <2>3. (L - 1) * k = L * k - k
    BY <1>1
  <2>4. (i - 1) * k <= n - 1
    BY <1>1, <1>2, <2>1, <2>2, <2>3
  <2>5. Chunks(n, k)[i] = IF i * k <= n THEN k ELSE n - (i - 1) * k
    BY DEF Chunks, L
  <2> QED
    BY <2>1, <2>4, <2>5 DEF EndOf
<1> QED
  BY <1>1, <1>4, <1>5 DEF L

\* So the passes of an answer of m words a row add up to that of all rows.
LEMMA ChunkedPasses ==
    ASSUME NEW n \in Nat, NEW k \in Nat \ {0}, NEW m \in {3, 5}, NEW s,
           DOMAIN s = DOMAIN Chunks(n, k), s \in Seq(Pass),
           \A i \in DOMAIN s : s[i].out = m * Chunks(n, k)[i]
    PROVE  AddUpTo(s, m * n)
<1> DEFINE L == (n + k - 1) \div k
<1> DEFINE f == [i \in 0 .. L |-> m * EndOf(i, n, k)]
<1>1. L \in Nat /\ EndOf(0, n, k) = 0 /\ EndOf(L, n, k) = n
      /\ \A i \in 1 .. L :
            /\ Chunks(n, k)[i] \in Nat
            /\ EndOf(i, n, k) \in Nat /\ EndOf(i - 1, n, k) \in Nat
            /\ EndOf(i, n, k) = EndOf(i - 1, n, k) + Chunks(n, k)[i]
  BY ChunksEnd
<1>2. Len(s) = L /\ DOMAIN s = 1 .. L
  <2>1. DOMAIN Chunks(n, k) = 1 .. L
    BY DEF Chunks
  <2>2. DOMAIN s = 1 .. Len(s) /\ Len(s) \in Nat
    OBVIOUS
  <2> QED
    BY <1>1, <2>1, <2>2
<1> HIDE DEF L
<1>3. \A i \in 0 .. L : EndOf(i, n, k) \in Nat
  BY <1>1
<1>4. f \in [0 .. L -> Nat] /\ f[0] = 0 /\ f[L] = m * n
  BY <1>1, <1>3
<1>5. ASSUME NEW i \in 1 .. L PROVE f[i] = f[i - 1] + s[i].out
  <2>1. i - 1 \in 0 .. L /\ i \in 0 .. L
    BY <1>1
  <2>2. m * EndOf(i, n, k) = m * EndOf(i - 1, n, k) + m * Chunks(n, k)[i]
    <3> DEFINE before == EndOf(i - 1, n, k)
               here == Chunks(n, k)[i]
    <3>1. before \in Nat /\ here \in Nat /\ EndOf(i, n, k) = before + here
      BY <1>1
    <3> HIDE DEF before, here
    <3>2. m * (before + here) = m * before + m * here
      BY <3>1
    <3> QED
      BY <3>1, <3>2 DEF before, here
  <2> QED
    BY <2>1, <2>2, <1>2
<1> HIDE DEF f
<1>6. PrefixSums(f, s)
  BY <1>2, <1>4, <1>5 DEF PrefixSums
<1> QED
  BY <1>2, <1>4, <1>6 DEF AddUpTo

\* One more column is one more time its words.
LEMMA NextProduct ==
    ASSUME NEW i \in Nat, NEW n \in Nat
    PROVE  i * n = (i - 1) * n + n
OBVIOUS

\* What a hook of the accelerator does is a sequence of passes, and they give
\* the whole answer, for any budget: rows in chunks with a remainder, columns
\* one by one, a remainder that is left to the host.
THEOREM HooksAddUp ==
    ASSUME NEW c \in Calls, HookPasses(c) \in Seq(Pass)
    PROVE  AddUpTo(HookPasses(c), HookWords(c))
<1> USE BudgetAssumption, SmallAssumption
<1>1. CASE c.hook = "hash"
  <2>0. c.rows \in Nat /\ c.length \in Nat
    BY <1>1 DEF Calls
  <2> DEFINE each == c.length + 5
             chunk == IF Budget \div each < 1 THEN 1 ELSE Budget \div each
             rows == IF c.rows * each > Budget THEN Chunks(c.rows, chunk) ELSE <<c.rows>>
  <2>1. HookPasses(c) = HashPasses(c) /\ HookWords(c) = 5 * c.rows
    BY <1>1 DEF HookPasses, HookWords
  <2>2. CASE c.rows = 0 \/ ~c.uniform \/ c.length = 0
    <3>1. HookPasses(c) = <<HostPass(5 * c.rows)>> /\ HostPass(5 * c.rows).out = 5 * c.rows
      BY <2>1, <2>2 DEF HashPasses, HostPass
    <3> QED
      BY <2>0, <2>1, <3>1, OnePass
  <2>3. CASE ~(c.rows = 0 \/ ~c.uniform \/ c.length = 0)
    <3>1. HookPasses(c) = [i \in DOMAIN rows |-> OtherPass(5 * rows[i], rows[i])]
      BY <2>1, <2>3 DEF HashPasses
    <3>2. CASE c.rows * each > Budget
      <4>1. chunk \in Nat \ {0}
        BY <2>0
      <4>2. rows = Chunks(c.rows, chunk)
        BY <3>2
      <4> HIDE DEF rows, chunk
      <4>3. /\ DOMAIN HookPasses(c) = DOMAIN Chunks(c.rows, chunk)
            /\ \A i \in DOMAIN HookPasses(c) : HookPasses(c)[i].out = 5 * Chunks(c.rows, chunk)[i]
        BY <3>1, <4>2 DEF OtherPass
      <4> QED
        BY <2>0, <2>1, <4>1, <4>3, ChunkedPasses
    <3>3. CASE ~(c.rows * each > Budget)
      <4>1. rows = <<c.rows>>
        BY <3>3
      <4> HIDE DEF rows
      <4>2. HookPasses(c) = <<OtherPass(5 * c.rows, c.rows)>>
            /\ OtherPass(5 * c.rows, c.rows).out = 5 * c.rows
        BY <3>1, <4>1 DEF OtherPass
      <4> QED
        BY <2>0, <2>1, <4>2, OnePass
    <3> QED
      BY <3>2, <3>3
  <2> QED
    BY <2>2, <2>3
<1>2. CASE c.hook = "ntt"
  <2>0. c.n \in Nat /\ c.width \in Nat /\ c.width * c.n \in Nat
    BY <1>2 DEF Calls
  <2>1. HookPasses(c) = NttPasses(c) /\ HookWords(c) = c.width * c.n
    BY <1>2 DEF HookPasses, HookWords
  <2>2. CASE NttPasses(c) = <<HostPass(c.width * c.n)>>
    <3>1. HostPass(c.width * c.n).out = c.width * c.n
      BY DEF HostPass
    <3> QED
      BY <2>0, <2>1, <2>2, <3>1, OnePass
  <2>3. CASE NttPasses(c) = [i \in 1 .. c.width |-> NttPass(c.n, c.inverse)]
    <3> DEFINE f == [i \in 0 .. c.width |-> i * c.n]
    <3>1. Len(HookPasses(c)) = c.width
      BY <2>0, <2>1, <2>3
    <3>2. \A i \in 1 .. c.width : HookPasses(c)[i].out = c.n
      BY <2>1, <2>3 DEF NttPass
    <3>3. \A i \in 0 .. c.width : i * c.n \in Nat
      BY <2>0
    <3>4. f \in [0 .. c.width -> Nat] /\ f[0] = 0 /\ f[c.width] = c.width * c.n
      BY <2>0, <3>3
    <3>5. ASSUME NEW i \in 1 .. c.width PROVE f[i] = f[i - 1] + c.n
      <4>1. i \in 0 .. c.width /\ i - 1 \in 0 .. c.width /\ i \in Nat
        BY <2>0
      <4>2. i * c.n = (i - 1) * c.n + c.n
        BY <4>1, <2>0, NextProduct
      <4> QED
        BY <4>1, <4>2
    <3> HIDE DEF f
    <3>6. PrefixSums(f, HookPasses(c))
      BY <3>1, <3>2, <3>4, <3>5 DEF PrefixSums
    <3> QED
      BY <2>1, <3>1, <3>4, <3>6 DEF AddUpTo
  <2> QED
    BY <2>2, <2>3 DEF NttPasses
<1>3. CASE c.hook = "gemv"
  <2>0. c.rows \in Nat /\ c.columns \in Nat /\ c.width \in Nat \ {0}
        /\ Small.rows \in Nat \ {0} /\ Small.columns \in Nat \ {0}
    BY <1>3 DEF Calls
  <2> DEFINE each == c.columns * c.width
             chunk == IF Budget \div each < Small.rows THEN Small.rows ELSE Budget \div each
             rows == IF c.rows * each > Budget THEN Chunks(c.rows, chunk) ELSE <<c.rows>>
  <2>1. HookPasses(c) = GemvPasses(c) /\ HookWords(c) = 3 * c.rows
    BY <1>3 DEF HookPasses, HookWords
  <2>2. CASE c.rows < Small.rows \/ c.columns < Small.columns
    <3>1. HookPasses(c) = <<HostPass(3 * c.rows)>> /\ HostPass(3 * c.rows).out = 3 * c.rows
      BY <2>1, <2>2 DEF GemvPasses, HostPass
    <3> QED
      BY <2>0, <2>1, <3>1, OnePass
  <2>3. CASE ~(c.rows < Small.rows \/ c.columns < Small.columns)
    <3>1. HookPasses(c) = [i \in DOMAIN rows |-> IF rows[i] < Small.rows THEN HostPass(3 * rows[i])
                                                 ELSE OtherPass(3 * rows[i], rows[i])]
      BY <2>1, <2>3 DEF GemvPasses
    <3>2. CASE c.rows * each > Budget
      <4>1. chunk \in Nat \ {0}
        <5>1. each \in Nat \ {0}
          BY <2>0, <2>3
        <5> HIDE DEF each
        <5>2. Budget \div each \in Nat
          BY <5>1
        <5> QED
          BY <2>0, <5>2
      <4>2. rows = Chunks(c.rows, chunk)
        BY <3>2
      <4> HIDE DEF rows, chunk
      <4>3. /\ DOMAIN HookPasses(c) = DOMAIN Chunks(c.rows, chunk)
            /\ \A i \in DOMAIN HookPasses(c) : HookPasses(c)[i].out = 3 * Chunks(c.rows, chunk)[i]
        BY <3>1, <4>2 DEF OtherPass, HostPass
      <4> QED
        BY <2>0, <2>1, <4>1, <4>3, ChunkedPasses
    <3>3. CASE ~(c.rows * each > Budget)
      <4>1. rows = <<c.rows>>
        BY <3>3
      <4> HIDE DEF rows
      <4>2. HookPasses(c) = <<OtherPass(3 * c.rows, c.rows)>>
            /\ OtherPass(3 * c.rows, c.rows).out = 3 * c.rows
        BY <2>0, <2>3, <3>1, <4>1 DEF OtherPass
      <4> QED
        BY <2>0, <2>1, <4>2, OnePass
    <3> QED
      BY <3>2, <3>3
  <2> QED
    BY <2>2, <2>3
<1>4. CASE c.hook = "fold"
  <2>0. c.n \in Nat /\ c.n \div 2 \in Nat
    BY <1>4 DEF Calls
  <2>1. HookPasses(c) = FoldPasses(c) /\ HookWords(c) = 3 * (c.n \div 2)
    BY <1>4 DEF HookPasses, HookWords
  <2>2. \E p : HookPasses(c) = <<p>> /\ p.out = 3 * (c.n \div 2)
    BY <2>1 DEF FoldPasses, HostPass, OtherPass
  <2> QED
    BY <2>0, <2>1, <2>2, OnePass
<1>5. CASE c.hook = "tree"
  <2>0. c.n \in Nat
    BY <1>5 DEF Calls
  <2>1. HookPasses(c) = TreePasses(c) /\ HookWords(c) = 10 * c.n
    BY <1>5 DEF HookPasses, HookWords
  <2>2. \E p : HookPasses(c) = <<p>> /\ p.out = 10 * c.n
    BY <2>1 DEF TreePasses, HostPass, OtherPass
  <2> QED
    BY <2>0, <2>1, <2>2, OnePass
<1> QED
  BY <1>1, <1>2, <1>3, <1>4, <1>5 DEF Calls

\* Every answer of the accelerator's own hooks is whole.
THEOREM HookAnswersAreWhole ==
    ASSUME \A h \in Hooks :
               h \in Calls /\ Passes(h) = HookPasses(h) /\ Words(h) = HookWords(h)
    PROVE  Spec => []WholeAnswers
<1>1. \A h \in Hooks : AddUpTo(Passes(h), Words(h))
  BY HooksAddUp, HooksAssumption
<1> QED
  BY <1>1, AnswersAreWhole

=============================================================================
