------------------------- MODULE MiningRangeProofs -------------------------
(***************************************************************************)
(* Proofs about one bounded search, for any number of host workers, any    *)
(* launch size and any width of the attempt numbers.                       *)
(***************************************************************************)
EXTENDS MiningRange, TLAPS

-----------------------------------------------------------------------------
(* The inductive invariant, part by part.                                  *)

\* The counter stays between the start and the end of the call; a call whose
\* range overflows never starts a worker.
CounterInv ==
    /\ start <= next
    /\ end <= MaxU64 => next <= end
    /\ end > MaxU64 => /\ ret = "panic" /\ winner = {} /\ next = start
                       /\ \A w \in Workers : pc[w] = "done"

\* What was reserved is what the counter has passed, and by one worker each.
TakenInv ==
    /\ \A w \in Workers : taken[w] \subseteq start .. next - 1
    /\ \A a \in start .. next - 1 : \E w \in Workers : a \in taken[w]
    /\ \A v, w \in Workers : v # w => taken[v] \cap taken[w] = {}

\* Where a worker is says what it holds.
HeldInv ==
    /\ \A w \in Workers :
          pc[w] \in {"hash", "publish"} => w \in Cpus /\ held[w].lo \in taken[w]
    /\ \A w \in Workers :
          pc[w] \in {"dispatch", "kernel", "validate", "panicked"} => w = Gpu
    /\ pc[Gpu] \in {"dispatch", "kernel", "validate"} =>
          /\ held[Gpu].lo < held[Gpu].hi
          /\ held[Gpu].hi - held[Gpu].lo <= Launch
          /\ held[Gpu].lo .. held[Gpu].hi - 1 \subseteq taken[Gpu]

\* Only reserved attempts hit, and only hits win.
HitsInv ==
    /\ \A h \in hits : h[2] \in taken[h[1]]
    /\ \A w \in Workers : pc[w] = "publish" => <<w, held[w].lo>> \in hits
    /\ winner \subseteq hits

\* Lanes run inside a launch only.  Once the flag is set the payload is being
\* written or has been.
LanesInv ==
    /\ \A g \in Lanes : lanes[g] # "idle" => pc[Gpu] = "kernel"
    /\ \A g \in Lanes : lanes[g] \in {"cas", "write"} => g < Count
    /\ pc[Gpu] = "kernel" /\ found = 1 =>
          \/ \E g \in Lanes : lanes[g] = "write"
          \/ payload \in held[Gpu].lo .. held[Gpu].hi - 1
    /\ PayloadIsFresh

\* A worker on its way to reserve has not reserved since there is a winner.
LateInv ==
    /\ BoundedOvershoot
    /\ \A w \in Workers : winner = {} \/ pc[w] = "reserve" => late[w] = 0

IInv == TypeOK /\ CounterInv /\ TakenInv /\ HeldInv /\ HitsInv /\ LanesInv /\ LateInv

-----------------------------------------------------------------------------
(* Numbers.                                                                *)

\* The launch is rounded up, never down: a lane exists for every attempt.
LEMMA GridCovers ==
    ASSUME NEW n \in Nat, NEW k \in Nat \ {0}
    PROVE  ((n + k - 1) \div k) * k >= n
<1> DEFINE q == (n + k - 1) \div k
<1> DEFINE r == (n + k - 1) % k
<1>1. q \in Int /\ r \in 0 .. k - 1
  OBVIOUS
<1>2. n + k - 1 = k * q + r
  OBVIOUS
<1>3. k * q \in Int /\ k * q = q * k
  BY <1>1
<1> QED
  BY <1>1, <1>2, <1>3

\* An interval splits at any number, and starts with its first one.
LEMMA SplitInterval ==
    ASSUME NEW l \in Int, NEW m \in Int, NEW h \in Int
    PROVE  /\ \A x \in l .. h - 1 : x \in l .. m - 1 \/ x \in m .. h - 1
           /\ l < h => l \in l .. h - 1
OBVIOUS

\* An interval with a larger end holds the one with the smaller end.
LEMMA IntervalGrows ==
    ASSUME NEW l \in Int, NEW m \in Int, NEW h \in Int, m < h
    PROVE  l .. m - 1 \subseteq l .. h - 1
<1> SUFFICES ASSUME NEW x \in l .. m - 1 PROVE x \in l .. h - 1
  OBVIOUS
<1>1. x \in Int /\ l <= x /\ x <= m - 1
  OBVIOUS
<1> QED
  BY <1>1

\* A non-empty prefix taken off an interval leaves the rest of it.
LEMMA PrefixInterval ==
    ASSUME NEW l \in Int, NEW m \in Int, NEW h \in Int, l < m, m <= h
    PROVE  /\ l .. m - 1 \in SUBSET (l .. h - 1)
           /\ l .. m - 1 # {}
           /\ m .. h - 1 = (l .. h - 1) \ (l .. m - 1)
<1>1. l \in l .. m - 1
  OBVIOUS
<1>2. \A x \in l .. m - 1 : x \in l .. h - 1
  OBVIOUS
<1> QED
  BY <1>1, <1>2

\* An attempt of a launch of at most n attempts has a lane.
LEMMA LaneIndex ==
    ASSUME NEW lo \in Int, NEW hi \in Int, NEW n \in Int, NEW a \in lo .. hi - 1,
           hi - lo <= n
    PROVE  /\ a - lo \in 0 .. n - 1
           /\ a - lo < hi - lo
           /\ a = lo + (a - lo)
OBVIOUS

\* A successful reservation advances the counter without passing the end,
\* whatever the count, up to the largest number.
LEMMA ReserveBounds ==
    ASSUME TypeOK, next < end, end <= MaxU64, NEW count \in Nat \ {0}
    PROVE  /\ ReserveEnd(next, count) \in Nums
           /\ next < ReserveEnd(next, count)
           /\ ReserveEnd(next, count) <= end
           /\ ReserveEnd(next, count) - next <= count
BY WidthAssumption DEF TypeOK, Nums, ReserveEnd, SatAdd, Least

\* The attempt of a running lane below the bound is one the dispatcher holds.
LEMMA LaneAttempt ==
    ASSUME IInv, NEW g \in Lanes, lanes[g] # "idle", g < Count
    PROVE  /\ Gpu \in Workers
           /\ held[Gpu].lo + g \in taken[Gpu]
           /\ held[Gpu].lo + g \in Nums
<1>1. Gpu \in Workers /\ held[Gpu].lo \in Int /\ held[Gpu].hi \in Int /\ g \in Int /\ 0 <= g
  BY WidthAssumption, LaunchAssumption DEF IInv, TypeOK, Workers, Nums, Lanes
<1>2. held[Gpu].lo .. held[Gpu].hi - 1 \subseteq taken[Gpu]
  BY DEF IInv, LanesInv, HeldInv
<1>3. held[Gpu].lo + g \in held[Gpu].lo .. held[Gpu].hi - 1
  BY <1>1 DEF Count
<1> QED
  BY <1>1, <1>2, <1>3 DEF IInv, TypeOK

-----------------------------------------------------------------------------
(* One lemma per step: what the step writes cannot break any part.         *)

\* A look at the winner moves its worker only.
LEMMA CheckWinnerStep ==
    ASSUME IInv, NEW w \in Workers, CheckWinner(w)
    PROVE  IInv'
<1> USE WorkersAssumption, WidthAssumption, LaunchAssumption DEF IInv, CheckWinner, At, call, slot, past
<1>1. TypeOK'
  BY DEF TypeOK, Nums, Places, Workers, Lanes
<1>2. CounterInv'
  BY DEF TypeOK, Nums, Places, Workers, Lanes, CounterInv
<1>3. TakenInv'
  BY DEF TypeOK, Nums, Places, Workers, Lanes, TakenInv
<1>4. HeldInv'
  BY DEF TypeOK, Nums, Places, Workers, Lanes, HeldInv
<1>5. HitsInv'
  BY DEF TypeOK, Nums, Places, Workers, Lanes, HitsInv
<1>6. LanesInv'
  BY DEF TypeOK, Nums, Places, Workers, Lanes, LanesInv, PayloadIsFresh, Count
<1>7. LateInv'
  BY DEF TypeOK, Nums, Places, Workers, Lanes, LateInv, BoundedOvershoot
<1> QED
  BY <1>1, <1>2, <1>3, <1>4, <1>5, <1>6, <1>7

\* Leaving the loop moves its worker only.
LEMMA ExhaustedStep ==
    ASSUME IInv, NEW w \in Workers, Exhausted(w)
    PROVE  IInv'
<1> USE WorkersAssumption, WidthAssumption, LaunchAssumption DEF IInv, Exhausted, At, call, slot, past
<1>1. TypeOK'
  BY DEF TypeOK, Nums, Places, Workers, Lanes
<1>2. CounterInv'
  BY DEF TypeOK, Nums, Places, Workers, Lanes, CounterInv
<1>3. TakenInv'
  BY DEF TypeOK, Nums, Places, Workers, Lanes, TakenInv
<1>4. HeldInv'
  BY DEF TypeOK, Nums, Places, Workers, Lanes, HeldInv
<1>5. HitsInv'
  BY DEF TypeOK, Nums, Places, Workers, Lanes, HitsInv
<1>6. LanesInv'
  BY DEF TypeOK, Nums, Places, Workers, Lanes, LanesInv, PayloadIsFresh, Count
<1>7. LateInv'
  BY DEF TypeOK, Nums, Places, Workers, Lanes, LateInv, BoundedOvershoot
<1> QED
  BY <1>1, <1>2, <1>3, <1>4, <1>5, <1>6, <1>7

\* What a reservation of any size does to the counter and to what is taken.
LEMMA ReserveStep ==
    ASSUME IInv, end <= MaxU64, NEW w \in Workers,
           NEW count \in Nat \ {0}, Reserve(w, count)
    PROVE  /\ next' \in Nums /\ next < next' /\ next' <= end
           /\ held' \in [Workers -> [lo : Nums, hi : Nums]]
           /\ held'[w] = [lo |-> next, hi |-> next']
           /\ \A v \in Workers : v # w => held'[v] = held[v]
           /\ next' - next <= count
           /\ taken' \in [Workers -> SUBSET Nums]
           /\ taken'[w] = taken[w] \cup (next .. next' - 1)
           /\ \A v \in Workers : v # w => taken'[v] = taken[v]
           /\ late' \in [Workers -> Nat]
           /\ \A v \in Workers : v # w => late'[v] = late[v]
           /\ late'[w] = IF winner = {} THEN 0 ELSE late[w] + 1
<1> DEFINE e == ReserveEnd(next, count)
<1>1. /\ next < end /\ next' = e
      /\ held' = [held EXCEPT ![w] = [lo |-> next, hi |-> e]]
      /\ taken' = [taken EXCEPT ![w] = @ \cup (next .. e - 1)]
      /\ late' = [late EXCEPT ![w] = IF winner = {} THEN 0 ELSE @ + 1]
  BY DEF Reserve
<1>2. e \in Nums /\ next < e /\ e <= end /\ e - next <= count
  BY <1>1, ReserveBounds DEF IInv
<1>3. next .. e - 1 \subseteq Nums
  BY <1>2, WidthAssumption DEF IInv, TypeOK, Nums
<1>4. /\ next \in Nums /\ held \in [Workers -> [lo : Nums, hi : Nums]]
      /\ taken \in [Workers -> SUBSET Nums] /\ late \in [Workers -> Nat]
  BY DEF IInv, TypeOK
<1> HIDE DEF e
<1> QED
  BY <1>1, <1>2, <1>3, <1>4

\* A reservation extends the partition: the new attempts begin where the
\* counter stood, past everything taken before.
LEMMA ReserveKeepsTaken ==
    ASSUME IInv, end <= MaxU64, NEW w \in Workers,
           NEW count \in Nat \ {0}, Reserve(w, count), UNCHANGED <<start, end>>
    PROVE  TakenInv'
<1>1. /\ next \in Int /\ next' \in Int /\ start \in Int
      /\ start <= next /\ next < next'
      /\ taken'[w] = taken[w] \cup (next .. next' - 1)
      /\ \A v \in Workers : v # w => taken'[v] = taken[v]
  BY ReserveStep, WidthAssumption DEF IInv, TypeOK, CounterInv, Nums
<1>2. \A v \in Workers : taken[v] \subseteq start .. next - 1
  BY DEF IInv, TakenInv
<1>3. \A v \in Workers : taken'[v] \subseteq start .. next' - 1
  BY <1>1, <1>2
<1>4. \A a \in start .. next' - 1 : \E v \in Workers : a \in taken'[v]
  <2> SUFFICES ASSUME NEW a \in start .. next' - 1
               PROVE  \E v \in Workers : a \in taken'[v]
    OBVIOUS
  <2>1. CASE a \in start .. next - 1
    <3>1. PICK v \in Workers : a \in taken[v]
      BY <2>1 DEF IInv, TakenInv
    <3> QED
      BY <3>1, <1>1
  <2>2. CASE a \in next .. next' - 1
    BY <2>2, <1>1
  <2>3. a \in start .. next - 1 \/ a \in next .. next' - 1
    BY <1>1, SplitInterval
  <2> QED
    BY <2>1, <2>2, <2>3
<1>5. \A u, v \in Workers : u # v => taken'[u] \cap taken'[v] = {}
  BY <1>1, <1>2 DEF IInv, TakenInv
<1> QED
  BY <1>3, <1>4, <1>5 DEF TakenInv

\* A host worker reserves one attempt and holds it.
LEMMA CpuReserveStep ==
    ASSUME IInv, NEW c \in Cpus, CpuReserve(c)
    PROVE  IInv'
<1> USE WorkersAssumption, WidthAssumption, LaunchAssumption
<1>1. c \in Workers /\ c # Gpu /\ end <= MaxU64 /\ UNCHANGED <<start, end>>
  BY DEF IInv, TypeOK, CounterInv, CpuReserve, At, Workers, Nums, call
<1>2. Reserve(c, 1) /\ pc[c] = "reserve" /\ pc' = [pc EXCEPT ![c] = "hash"]
  BY DEF CpuReserve, At
<1>3. /\ next' \in Nums /\ next < next' /\ next' <= end
      /\ held' \in [Workers -> [lo : Nums, hi : Nums]]
      /\ held'[c] = [lo |-> next, hi |-> next']
      /\ \A v \in Workers : v # c => held'[v] = held[v]
      /\ taken' \in [Workers -> SUBSET Nums]
      /\ taken'[c] = taken[c] \cup (next .. next' - 1)
      /\ \A v \in Workers : v # c => taken'[v] = taken[v]
      /\ late' \in [Workers -> Nat]
      /\ \A v \in Workers : v # c => late'[v] = late[v]
      /\ late'[c] = IF winner = {} THEN 0 ELSE late[c] + 1
  BY <1>1, <1>2, ReserveStep
<1>4. UNCHANGED <<start, end, ret, winner, found, payload, lanes, tried, hits>>
  BY DEF CpuReserve, call, slot
<1>5. TypeOK'
  BY <1>2, <1>3, <1>4 DEF IInv, TypeOK, Places
<1>6. CounterInv'
  BY <1>1, <1>3, <1>4 DEF IInv, TypeOK, CounterInv, Nums
<1>7. TakenInv'
  BY <1>1, <1>2, ReserveKeepsTaken
<1>8. HeldInv'
  <2>0. next \in Int /\ next' \in Int /\ next < next'
    BY <1>3 DEF IInv, TypeOK, Nums
  <2>1. next \in next .. next' - 1
    BY <2>0, SplitInterval
  <2>2. next \in taken'[c]
    BY <2>1, <1>3
  <2> QED
    BY <2>2, <1>1, <1>2, <1>3 DEF IInv, TypeOK, HeldInv, Workers
<1>9. HitsInv'
  BY <1>1, <1>2, <1>3, <1>4 DEF IInv, TypeOK, HitsInv
<1>10. LanesInv'
  BY <1>1, <1>2, <1>3, <1>4 DEF IInv, TypeOK, LanesInv, PayloadIsFresh, Count, Workers
<1>11. LateInv'
  <2>1. late[c] = 0
    BY <1>1, <1>2 DEF IInv, LateInv
  <2>2. late'[c] <= 1 /\ (winner = {} => late'[c] = 0)
    BY <2>1, <1>3
  <2>3. \A v \in Workers : v # c => late'[v] = late[v] /\ pc'[v] = pc[v]
    BY <1>2, <1>3 DEF IInv, TypeOK
  <2>4. pc'[c] # "reserve" /\ winner' = winner
    BY <1>1, <1>2, <1>4 DEF IInv, TypeOK
  <2> QED
    BY <2>2, <2>3, <2>4 DEF IInv, LateInv, BoundedOvershoot
<1> QED
  BY <1>5, <1>6, <1>7, <1>8, <1>9, <1>10, <1>11 DEF IInv

\* Hashing records the attempt, and a hit is one of the worker's own.
LEMMA CpuHashStep ==
    ASSUME IInv, NEW c \in Cpus, CpuHash(c)
    PROVE  IInv'
<1> USE WorkersAssumption, WidthAssumption, LaunchAssumption DEF IInv, CpuHash, At, call, slot, past
<1>1. TypeOK'
  <2>1. c \in Workers /\ held[c].lo \in Nums
    BY DEF TypeOK, Workers
  <2>2. hits' \subseteq hits \cup {<<c, held[c].lo>>}
    OBVIOUS
  <2>3. hits' \subseteq Workers \X Nums
    BY <2>1, <2>2 DEF TypeOK
  <2>4. pc' \in [Workers -> Places]
    BY <2>1 DEF TypeOK, Places
  <2> QED
    BY <2>1, <2>3, <2>4 DEF TypeOK
<1>2. CounterInv'
  BY DEF TypeOK, Nums, Places, Workers, Lanes, CounterInv
<1>3. TakenInv'
  BY DEF TypeOK, Nums, Places, Workers, Lanes, TakenInv
<1>4. HeldInv'
  BY DEF TypeOK, Nums, Places, Workers, Lanes, HeldInv
<1>5. HitsInv'
  <2>1. c \in Workers /\ held[c].lo \in taken[c]
    BY DEF HeldInv, Workers
  <2>2. \A h \in hits' : h \in hits \/ h = <<c, held[c].lo>>
    OBVIOUS
  <2>3. \A h \in hits' : h[2] \in taken[h[1]]
    BY <2>1, <2>2 DEF HitsInv
  <2>4. \A w \in Workers : pc'[w] = "publish" => <<w, held[w].lo>> \in hits'
    BY <2>1 DEF HitsInv, TypeOK
  <2> QED
    BY <2>3, <2>4 DEF HitsInv
<1>6. LanesInv'
  BY DEF TypeOK, Nums, Places, Workers, Lanes, LanesInv, PayloadIsFresh, Count
<1>7. LateInv'
  BY DEF TypeOK, Nums, Places, Workers, Lanes, LateInv, BoundedOvershoot
<1> QED
  BY <1>1, <1>2, <1>3, <1>4, <1>5, <1>6, <1>7

\* What a host worker publishes is the hit it has just had.
LEMMA CpuPublishStep ==
    ASSUME IInv, NEW c \in Cpus, CpuPublish(c)
    PROVE  IInv'
<1> USE WorkersAssumption, WidthAssumption, LaunchAssumption DEF IInv, CpuPublish, At, Publish, call, slot, past
<1>1. TypeOK'
  <2>1. c \in Workers /\ held[c].lo \in Nums
    BY DEF TypeOK, Workers
  <2>2. winner' \subseteq Workers \X Nums
    BY <2>1 DEF TypeOK
  <2> QED
    BY <2>1, <2>2 DEF TypeOK, Places
<1>2. CounterInv'
  BY DEF TypeOK, Nums, Places, Workers, Lanes, CounterInv
<1>3. TakenInv'
  BY DEF TypeOK, Nums, Places, Workers, Lanes, TakenInv
<1>4. HeldInv'
  BY DEF TypeOK, Nums, Places, Workers, Lanes, HeldInv
<1>5. HitsInv'
  BY DEF TypeOK, Nums, Places, Workers, Lanes, HitsInv
<1>6. LanesInv'
  BY DEF TypeOK, Nums, Places, Workers, Lanes, LanesInv, PayloadIsFresh, Count
<1>7. LateInv'
  BY DEF TypeOK, Nums, Places, Workers, Lanes, LateInv, BoundedOvershoot
<1> QED
  BY <1>1, <1>2, <1>3, <1>4, <1>5, <1>6, <1>7

\* The dispatcher reserves a launch and holds all of it.
LEMMA GpuReserveStep ==
    ASSUME IInv, GpuReserve
    PROVE  IInv'
<1> USE WorkersAssumption, WidthAssumption, LaunchAssumption
<1>1. Gpu \in Workers /\ end <= MaxU64 /\ UNCHANGED <<start, end>>
  BY DEF IInv, TypeOK, CounterInv, GpuReserve, At, Workers, Nums, call
<1>2. Reserve(Gpu, Launch) /\ pc[Gpu] = "reserve" /\ pc' = [pc EXCEPT ![Gpu] = "dispatch"]
  BY DEF GpuReserve, At
<1>3. /\ next' \in Nums /\ next < next' /\ next' <= end
      /\ held' \in [Workers -> [lo : Nums, hi : Nums]]
      /\ held'[Gpu] = [lo |-> next, hi |-> next']
      /\ next' - next <= Launch
      /\ \A v \in Workers : v # Gpu => held'[v] = held[v]
      /\ taken' \in [Workers -> SUBSET Nums]
      /\ taken'[Gpu] = taken[Gpu] \cup (next .. next' - 1)
      /\ \A v \in Workers : v # Gpu => taken'[v] = taken[v]
      /\ late' \in [Workers -> Nat]
      /\ \A v \in Workers : v # Gpu => late'[v] = late[v]
      /\ late'[Gpu] = IF winner = {} THEN 0 ELSE late[Gpu] + 1
  BY <1>1, <1>2, ReserveStep
<1>4. UNCHANGED <<start, end, ret, winner, found, payload, lanes, tried, hits>>
  BY DEF GpuReserve, call, slot
<1>5. TypeOK'
  BY <1>2, <1>3, <1>4 DEF IInv, TypeOK, Places
<1>6. CounterInv'
  BY <1>1, <1>3, <1>4 DEF IInv, TypeOK, CounterInv, Nums
<1>7. TakenInv'
  BY <1>1, <1>2, ReserveKeepsTaken
<1>8. HeldInv'
  BY <1>1, <1>2, <1>3 DEF IInv, TypeOK, HeldInv, Workers
<1>9. HitsInv'
  BY <1>1, <1>2, <1>3, <1>4 DEF IInv, TypeOK, HitsInv
<1>10. LanesInv'
  BY <1>1, <1>2, <1>4 DEF IInv, TypeOK, LanesInv, PayloadIsFresh, Lanes
<1>11. LateInv'
  <2>1. late[Gpu] = 0
    BY <1>1, <1>2 DEF IInv, LateInv
  <2>2. late'[Gpu] <= 1 /\ (winner = {} => late'[Gpu] = 0)
    BY <2>1, <1>3
  <2>3. \A v \in Workers : v # Gpu => late'[v] = late[v] /\ pc'[v] = pc[v]
    BY <1>2, <1>3 DEF IInv, TypeOK
  <2>4. pc'[Gpu] # "reserve" /\ winner' = winner
    BY <1>1, <1>2, <1>4 DEF IInv, TypeOK
  <2> QED
    BY <2>2, <2>3, <2>4 DEF IInv, LateInv, BoundedOvershoot
<1> QED
  BY <1>5, <1>6, <1>7, <1>8, <1>9, <1>10, <1>11 DEF IInv

\* A launch starts with the flag cleared and all lanes ahead of it.
LEMMA DispatchStep ==
    ASSUME IInv, Dispatch
    PROVE  IInv'
<1> USE WorkersAssumption, WidthAssumption, LaunchAssumption DEF IInv, Dispatch, At, ResetState, call, slot, past
<1>1. TypeOK'
  BY DEF TypeOK, Nums, Places, Workers, Lanes
<1>2. CounterInv'
  BY DEF TypeOK, Nums, Places, Workers, Lanes, CounterInv
<1>3. TakenInv'
  BY DEF TypeOK, Nums, Places, Workers, Lanes, TakenInv
<1>4. HeldInv'
  BY DEF TypeOK, Nums, Places, Workers, Lanes, HeldInv
<1>5. HitsInv'
  BY DEF TypeOK, Nums, Places, Workers, Lanes, HitsInv
<1>6. LanesInv'
  BY DEF TypeOK, Nums, Places, Workers, Lanes, LanesInv, PayloadIsFresh, Count
<1>7. LateInv'
  BY DEF TypeOK, Nums, Places, Workers, Lanes, LateInv, BoundedOvershoot
<1> QED
  BY <1>1, <1>2, <1>3, <1>4, <1>5, <1>6, <1>7

\* A lane hashes an attempt of its launch or none.
LEMMA LaneHashStep ==
    ASSUME IInv, NEW g \in Lanes, LaneHash(g)
    PROVE  IInv'
<1> USE WorkersAssumption, WidthAssumption, LaunchAssumption DEF IInv, LaneHash, InRange, call, slot, past
<1>1. TypeOK'
  <2>1. lanes' \in [Lanes -> {"idle", "hash", "cas", "write"}]
    BY DEF TypeOK
  <2>2. CASE g < Count
    <3>1. Gpu \in Workers /\ held[Gpu].lo + g \in Nums
      BY <2>2, LaneAttempt
    <3>2. hits' \subseteq hits \cup {<<Gpu, held[Gpu].lo + g>>}
      BY <2>2
    <3> QED
      BY <2>1, <2>2, <3>1, <3>2 DEF TypeOK
  <2>3. CASE ~(g < Count)
    BY <2>1, <2>3 DEF TypeOK
  <2> QED
    BY <2>2, <2>3
<1>2. CounterInv'
  BY DEF TypeOK, Nums, Places, Workers, Lanes, CounterInv
<1>3. TakenInv'
  BY DEF TypeOK, Nums, Places, Workers, Lanes, TakenInv
<1>4. HeldInv'
  BY DEF TypeOK, Nums, Places, Workers, Lanes, HeldInv
<1>5. HitsInv'
  <2>1. \/ hits' = hits
        \/ g < Count /\ hits' = hits \cup {<<Gpu, held[Gpu].lo + g>>}
    OBVIOUS
  <2>2. g < Count => held[Gpu].lo + g \in taken[Gpu]
    BY LaneAttempt
  <2>3. \A h \in hits' : h[2] \in taken[h[1]]
    BY <2>1, <2>2 DEF HitsInv
  <2> QED
    BY <2>3 DEF HitsInv
<1>6. LanesInv'
  BY DEF TypeOK, Nums, Places, Workers, Lanes, LanesInv, PayloadIsFresh, Count
<1>7. LateInv'
  BY DEF TypeOK, Nums, Places, Workers, Lanes, LateInv, BoundedOvershoot
<1> QED
  BY <1>1, <1>2, <1>3, <1>4, <1>5, <1>6, <1>7

\* The lane that sets the flag is about to write the payload.
LEMMA LaneClaimStep ==
    ASSUME IInv, NEW g \in Lanes, LaneClaim(g)
    PROVE  IInv'
<1> USE WorkersAssumption, WidthAssumption, LaunchAssumption DEF IInv, LaneClaim, call, slot, past
<1>1. TypeOK'
  BY DEF TypeOK, Nums, Places, Workers, Lanes
<1>2. CounterInv'
  BY DEF TypeOK, Nums, Places, Workers, Lanes, CounterInv
<1>3. TakenInv'
  BY DEF TypeOK, Nums, Places, Workers, Lanes, TakenInv
<1>4. HeldInv'
  BY DEF TypeOK, Nums, Places, Workers, Lanes, HeldInv
<1>5. HitsInv'
  BY DEF TypeOK, Nums, Places, Workers, Lanes, HitsInv
<1>6. LanesInv'
  BY DEF TypeOK, Nums, Places, Workers, Lanes, LanesInv, PayloadIsFresh, Count
<1>7. LateInv'
  BY DEF TypeOK, Nums, Places, Workers, Lanes, LateInv, BoundedOvershoot
<1> QED
  BY <1>1, <1>2, <1>3, <1>4, <1>5, <1>6, <1>7

\* The payload written is an attempt of this launch.
LEMMA LaneWriteStep ==
    ASSUME IInv, NEW g \in Lanes, LaneWrite(g)
    PROVE  IInv'
<1> USE WorkersAssumption, WidthAssumption, LaunchAssumption DEF IInv, LaneWrite, call, slot, past
<1>1. TypeOK'
  <2>1. held[Gpu].lo + g \in Nums
    BY LaneAttempt DEF LanesInv
  <2> QED
    BY <2>1 DEF TypeOK
<1>2. CounterInv'
  BY DEF TypeOK, Nums, Places, Workers, Lanes, CounterInv
<1>3. TakenInv'
  BY DEF TypeOK, Nums, Places, Workers, Lanes, TakenInv
<1>4. HeldInv'
  BY DEF TypeOK, Nums, Places, Workers, Lanes, HeldInv
<1>5. HitsInv'
  BY DEF TypeOK, Nums, Places, Workers, Lanes, HitsInv
<1>6. LanesInv'
  BY DEF TypeOK, Nums, Places, Workers, Lanes, LanesInv, PayloadIsFresh, Count
<1>7. LateInv'
  BY DEF TypeOK, Nums, Places, Workers, Lanes, LateInv, BoundedOvershoot
<1> QED
  BY <1>1, <1>2, <1>3, <1>4, <1>5, <1>6, <1>7

\* When the last lane is done, a set flag means a written payload.
LEMMA CompleteStep ==
    ASSUME IInv, Complete
    PROVE  IInv'
<1> USE WorkersAssumption, WidthAssumption, LaunchAssumption DEF IInv, Complete, At, call, slot, past
<1>1. TypeOK'
  BY DEF TypeOK, Nums, Places, Workers, Lanes
<1>2. CounterInv'
  BY DEF TypeOK, Nums, Places, Workers, Lanes, CounterInv
<1>3. TakenInv'
  BY DEF TypeOK, Nums, Places, Workers, Lanes, TakenInv
<1>4. HeldInv'
  BY DEF TypeOK, Nums, Places, Workers, Lanes, HeldInv
<1>5. HitsInv'
  BY DEF TypeOK, Nums, Places, Workers, Lanes, HitsInv
<1>6. LanesInv'
  BY DEF TypeOK, Nums, Places, Workers, Lanes, LanesInv, PayloadIsFresh, Count
<1>7. LateInv'
  BY DEF TypeOK, Nums, Places, Workers, Lanes, LateInv, BoundedOvershoot
<1> QED
  BY <1>1, <1>2, <1>3, <1>4, <1>5, <1>6, <1>7

\* The dispatcher publishes a hit or ends in a panic.
LEMMA ValidateStep ==
    ASSUME IInv, Validate
    PROVE  IInv'
<1> USE WorkersAssumption, WidthAssumption, LaunchAssumption DEF IInv, Validate, At, Publish, call, slot, past
<1>1. TypeOK'
  <2>1. Gpu \in Workers /\ payload \in Nums
    BY DEF TypeOK, Workers
  <2>2. winner' \subseteq Workers \X Nums
    BY <2>1 DEF TypeOK
  <2>3. pc' \in [Workers -> Places]
    BY <2>1 DEF TypeOK, Places
  <2> QED
    BY <2>2, <2>3 DEF TypeOK
<1>2. CounterInv'
  BY DEF TypeOK, Nums, Places, Workers, Lanes, CounterInv
<1>3. TakenInv'
  BY DEF TypeOK, Nums, Places, Workers, Lanes, TakenInv
<1>4. HeldInv'
  BY DEF TypeOK, Nums, Places, Workers, Lanes, HeldInv
<1>5. HitsInv'
  <2>1. winner' \subseteq hits
    BY DEF HitsInv
  <2>2. \A w \in Workers : pc'[w] = "publish" => pc[w] = "publish"
    BY DEF TypeOK
  <2> QED
    BY <2>1, <2>2 DEF HitsInv
<1>6. LanesInv'
  BY DEF TypeOK, Nums, Places, Workers, Lanes, LanesInv, PayloadIsFresh, Count
<1>7. LateInv'
  BY DEF TypeOK, Nums, Places, Workers, Lanes, LateInv, BoundedOvershoot
<1> QED
  BY <1>1, <1>2, <1>3, <1>4, <1>5, <1>6, <1>7

\* Returning changes nothing but the answer.
LEMMA ReturnStep ==
    ASSUME IInv, Return
    PROVE  IInv'
<1> USE WorkersAssumption, WidthAssumption, LaunchAssumption DEF IInv, Return, call, slot, past
<1>1. TypeOK'
  BY DEF TypeOK, Nums, Places, Workers, Lanes
<1>2. CounterInv'
  BY DEF TypeOK, Nums, Places, Workers, Lanes, CounterInv
<1>3. TakenInv'
  BY DEF TypeOK, Nums, Places, Workers, Lanes, TakenInv
<1>4. HeldInv'
  BY DEF TypeOK, Nums, Places, Workers, Lanes, HeldInv
<1>5. HitsInv'
  BY DEF TypeOK, Nums, Places, Workers, Lanes, HitsInv
<1>6. LanesInv'
  BY DEF TypeOK, Nums, Places, Workers, Lanes, LanesInv, PayloadIsFresh, Count
<1>7. LateInv'
  BY DEF TypeOK, Nums, Places, Workers, Lanes, LateInv, BoundedOvershoot
<1> QED
  BY <1>1, <1>2, <1>3, <1>4, <1>5, <1>6, <1>7

\* Nothing but the variables of a step matters.
LEMMA StutterStep ==
    ASSUME IInv, UNCHANGED vars
    PROVE  IInv'
BY DEF IInv, vars, TypeOK, CounterInv, TakenInv, HeldInv, HitsInv, LanesInv, LateInv,
       PayloadIsFresh, BoundedOvershoot, Count

\* A call starts with nothing reserved, hit or published.
LEMMA InitEstablishes == Init => IInv
<1> SUFFICES ASSUME Init PROVE IInv
  OBVIOUS
<1> USE WorkersAssumption, WidthAssumption, LaunchAssumption DEF Init
<1>1. PICK c \in Calls, team \in Teams :
          /\ start = c[1]
          /\ end = c[1] + c[2]
          /\ ret = IF c[1] + c[2] > MaxU64 THEN "panic" ELSE "pending"
          /\ pc = [w \in Workers |->
                     IF w \in team /\ c[1] + c[2] <= MaxU64 THEN "check" ELSE "done"]
  OBVIOUS
<1>2. c[1] \in Nums /\ c[2] \in Nums
  OBVIOUS
<1>3. /\ start \in Nums /\ end \in Nat /\ start <= end
      /\ 0 \in Nums /\ MaxU64 \in Nums
      /\ pc \in [Workers -> {"check", "done"}]
      /\ ret \in {"pending", "panic"}
  BY <1>1, <1>2 DEF Nums
<1>4. TypeOK
  BY <1>3 DEF TypeOK, Places
<1>5. CounterInv
  BY <1>1, <1>2, <1>3 DEF CounterInv, Nums
<1>6. TakenInv
  BY <1>3 DEF TakenInv, Nums
<1>7. HeldInv
  BY <1>3 DEF HeldInv, Workers
<1>8. HitsInv
  BY <1>3 DEF HitsInv
<1>9. LanesInv
  BY <1>3 DEF LanesInv, PayloadIsFresh, Workers
<1>10. LateInv
  BY <1>3 DEF LateInv, BoundedOvershoot
<1> QED
  BY <1>4, <1>5, <1>6, <1>7, <1>8, <1>9, <1>10 DEF IInv

-----------------------------------------------------------------------------
(* What it takes to answer "none": nothing left over anywhere.             *)

\* As long as nobody has won, the last worker leaves an exhausted counter.
ExitInv ==
    end <= MaxU64 /\ winner = {} =>
        next >= end \/ \E w \in Workers : pc[w] # "done"

\* A reserved attempt that has not been hashed is in the hands of a worker.
InHand(w, a) ==
    \/ pc[w] = "hash" /\ a = held[w].lo
    \/ pc[w] = "dispatch" /\ a \in held[w].lo .. held[w].hi - 1
    \/ /\ pc[w] = "kernel" /\ a \in held[w].lo .. held[w].hi - 1
       /\ lanes[a - held[w].lo] = "hash"

\* A host hit that is not published yet is about to be.
TriedInv ==
    /\ \A w \in Workers : \A a \in taken[w] : a \in tried \/ InHand(w, a)
    /\ tried \subseteq start .. next - 1
    /\ \A h \in hits : h[1] = Gpu \/ winner # {} \/ pc[h[1]] = "publish"

\* An answered "none" was given by an exhausted search and stays true.
NoneInv ==
    ret = "none" =>
        /\ winner = {} /\ end <= MaxU64 /\ next >= end
        /\ \A w \in Workers : pc[w] = "done"

\* A call that does not overflow starts with a worker that is not done.
LEMMA ExitInit == Init => ExitInv
<1> SUFFICES ASSUME Init, end <= MaxU64 PROVE \E w \in Workers : pc[w] # "done"
  BY DEF ExitInv
<1>1. PICK c \in Calls, team \in Teams :
          /\ end = c[1] + c[2]
          /\ pc = [w \in Workers |->
                     IF w \in team /\ c[1] + c[2] <= MaxU64 THEN "check" ELSE "done"]
  BY DEF Init
<1>2. PICK w \in team : w \in Workers
  BY <1>1, WorkersAssumption DEF Teams, Workers
<1>3. pc[w] = "check"
  BY <1>1, <1>2
<1> QED
  BY <1>2, <1>3

\* A worker is done only over an exhausted counter or a winner.
LEMMA ExitKeeps ==
    ASSUME IInv, ExitInv, [Next]_vars
    PROVE  ExitInv'
<1> USE WorkersAssumption, WidthAssumption DEF ExitInv, IInv, TypeOK, Nums, At, call, slot, past
<1>1. ASSUME NEW c \in Cpus, CpuStep(c) PROVE ExitInv'
  <2> c \in Workers
    BY DEF Workers
  <2>1. CASE CheckWinner(c)
    BY <2>1 DEF CheckWinner
  <2>2. CASE Exhausted(c)
    BY <2>2 DEF Exhausted
  <2>3. CASE CpuReserve(c)
    BY <2>3 DEF CpuReserve
  <2>4. CASE CpuHash(c)
    BY <2>4 DEF CpuHash
  <2>5. CASE CpuPublish(c)
    BY <2>5 DEF CpuPublish
  <2> QED
    BY <1>1, <2>1, <2>2, <2>3, <2>4, <2>5 DEF CpuStep
<1>2. CASE GpuStep
  <2> Gpu \in Workers
    BY DEF Workers
  <2>1. CASE CheckWinner(Gpu)
    BY <2>1 DEF CheckWinner
  <2>2. CASE Exhausted(Gpu)
    BY <2>2 DEF Exhausted
  <2>3. CASE GpuReserve
    BY <2>3 DEF GpuReserve
  <2>4. CASE Dispatch
    BY <2>4 DEF Dispatch
  <2>5. CASE Complete
    BY <2>5 DEF Complete
  <2>6. CASE Validate
    BY <2>6 DEF Validate
  <2> QED
    BY <1>2, <2>1, <2>2, <2>3, <2>4, <2>5, <2>6 DEF GpuStep
<1>3. ASSUME NEW g \in Lanes, LaneStep(g) PROVE ExitInv'
  BY <1>3 DEF LaneStep, LaneHash, LaneClaim, LaneWrite
<1>4. CASE Return
  BY <1>4 DEF Return
<1>5. CASE UNCHANGED vars
  BY <1>5 DEF vars
<1> QED
  BY <1>1, <1>2, <1>3, <1>4, <1>5 DEF Next, Returned

\* Once the call has returned no worker is left to disturb its answer.
LEMMA NoneKeeps ==
    ASSUME IInv, ExitInv, NoneInv, [Next]_vars
    PROVE  NoneInv'
<1> USE WorkersAssumption, WidthAssumption DEF NoneInv, IInv, TypeOK, At, call, slot, past
<1>1. ASSUME NEW c \in Cpus, CpuStep(c) PROVE NoneInv'
  BY <1>1 DEF CpuStep, CheckWinner, Exhausted, CpuReserve, CpuHash, CpuPublish, Workers
<1>2. CASE GpuStep
  BY <1>2 DEF GpuStep, CheckWinner, Exhausted, GpuReserve, Dispatch, Complete, Validate, Workers
<1>3. ASSUME NEW g \in Lanes, LaneStep(g) PROVE NoneInv'
  BY <1>3 DEF LaneStep, LaneHash, LaneClaim, LaneWrite
<1>4. CASE Return
  BY <1>4 DEF Return, ExitInv, CounterInv
<1>5. CASE UNCHANGED vars
  BY <1>5 DEF vars
<1> QED
  BY <1>1, <1>2, <1>3, <1>4, <1>5 DEF Next, Returned

\* Nothing is tried, taken or hit before the first step.
LEMMA TriedInit == Init => TriedInv
BY DEF Init, TriedInv

\* What was tried stays below the counter when the counter advances.
LEMMA TriedGrows ==
    ASSUME IInv, TriedInv, next' \in Nums, next < next', UNCHANGED <<start, tried>>
    PROVE  tried' \subseteq start' .. next' - 1
<1>1. start \in Int /\ next \in Int /\ next' \in Int
  BY WidthAssumption DEF Nums, IInv, TypeOK
<1>2. start .. next - 1 \subseteq start .. next' - 1
  BY <1>1, IntervalGrows
<1>3. tried \subseteq start .. next - 1
  BY DEF TriedInv
<1> QED
  BY <1>2, <1>3

\* A reservation of one attempt is in the hands of its worker at once.
LEMMA TriedCpuReserve ==
    ASSUME IInv, TriedInv, NEW c \in Cpus, CpuReserve(c)
    PROVE  TriedInv'
<1>1. c \in Workers /\ c # Gpu /\ end <= MaxU64
  BY WorkersAssumption, WidthAssumption
     DEF IInv, TypeOK, CounterInv, CpuReserve, At, Workers, Nums
<1>2. Reserve(c, 1) /\ pc[c] = "reserve" /\ pc' = [pc EXCEPT ![c] = "hash"]
  BY DEF CpuReserve, At
<1>3. /\ next \in Nums /\ next' \in Nums /\ next < next' /\ next' - next <= 1
      /\ held'[c] = [lo |-> next, hi |-> next']
      /\ \A v \in Workers : v # c => held'[v] = held[v]
      /\ taken'[c] = taken[c] \cup (next .. next' - 1)
      /\ \A v \in Workers : v # c => taken'[v] = taken[v]
  BY <1>1, <1>2, ReserveStep DEF IInv, TypeOK
<1>4. UNCHANGED <<start, end, ret, winner, found, payload, lanes, tried, hits>>
  BY DEF CpuReserve, call, slot
<1>5. \A a \in next .. next' - 1 : a = next
  BY <1>3, WidthAssumption DEF Nums
<1>6. \A a \in taken'[c] : a \in tried' \/ InHand(c, a)'
  BY <1>1, <1>2, <1>3, <1>4, <1>5 DEF IInv, TypeOK, TriedInv, InHand
<1>7. ASSUME NEW w \in Workers, w # c, NEW a \in taken'[w]
      PROVE  a \in tried' \/ InHand(w, a)'
  <2>1. a \in taken[w] /\ held'[w] = held[w]
    BY <1>3, <1>7
  <2>2. pc'[w] = pc[w]
    BY <1>1, <1>2, <1>7 DEF IInv, TypeOK
  <2>3. a \in tried \/ InHand(w, a)
    BY <2>1 DEF TriedInv
  <2> QED
    BY <2>1, <2>2, <2>3, <1>4 DEF InHand
<1>8. tried' \subseteq start' .. next' - 1
  BY <1>3, <1>4, TriedGrows
<1>9. \A h \in hits' : h[1] = Gpu \/ winner' # {} \/ pc'[h[1]] = "publish"
  BY <1>1, <1>2, <1>4 DEF TriedInv, IInv, TypeOK
<1> QED
  BY <1>6, <1>7, <1>8, <1>9 DEF TriedInv

\* Hashing turns an attempt in hand into a tried one; a hit is published next.
LEMMA TriedCpuHash ==
    ASSUME IInv, TriedInv, NEW c \in Cpus, CpuHash(c)
    PROVE  TriedInv'
<1> USE DEF IInv, TypeOK
<1>1. c \in Workers /\ held[c].lo \in taken[c] /\ pc[c] = "hash"
  BY DEF CpuHash, At, HeldInv, Workers
<1>2. UNCHANGED <<start, end, next, winner, held, found, payload, lanes, taken>>
  BY DEF CpuHash, call, slot
<1>3. tried' = tried \cup {held[c].lo}
  BY DEF CpuHash
<1>4. ASSUME NEW w \in Workers, NEW a \in taken'[w]
      PROVE  a \in tried' \/ InHand(w, a)'
  BY <1>1, <1>2, <1>3 DEF TriedInv, InHand, CpuHash, At
<1>5. tried' \subseteq start' .. next' - 1
  BY <1>1, <1>2, <1>3 DEF TriedInv, TakenInv
<1>6. ASSUME NEW h \in hits'
      PROVE  h[1] = Gpu \/ winner' # {} \/ pc'[h[1]] = "publish"
  <2>1. CASE h \in hits
    BY <2>1, <1>1, <1>2 DEF TriedInv, CpuHash, At
  <2>2. CASE h \notin hits
    BY <2>2, <1>1 DEF CpuHash, At
  <2> QED
    BY <2>1, <2>2
<1> QED
  BY <1>4, <1>5, <1>6 DEF TriedInv

\* A launch is in the hands of the dispatcher as soon as it is reserved.
LEMMA TriedGpuReserve ==
    ASSUME IInv, TriedInv, GpuReserve
    PROVE  TriedInv'
<1>1. Gpu \in Workers /\ end <= MaxU64
  BY WidthAssumption DEF IInv, TypeOK, CounterInv, GpuReserve, At, Workers, Nums
<1>2. Reserve(Gpu, Launch) /\ pc[Gpu] = "reserve" /\ pc' = [pc EXCEPT ![Gpu] = "dispatch"]
  BY DEF GpuReserve, At
<1>3. /\ next \in Nums /\ next' \in Nums /\ next < next'
      /\ held'[Gpu] = [lo |-> next, hi |-> next']
      /\ \A v \in Workers : v # Gpu => held'[v] = held[v]
      /\ taken'[Gpu] = taken[Gpu] \cup (next .. next' - 1)
      /\ \A v \in Workers : v # Gpu => taken'[v] = taken[v]
  BY <1>1, <1>2, ReserveStep, LaunchAssumption DEF IInv, TypeOK
<1>4. UNCHANGED <<start, end, ret, winner, found, payload, lanes, tried, hits>>
  BY DEF GpuReserve, call, slot
<1>5. \A a \in taken'[Gpu] : a \in tried' \/ InHand(Gpu, a)'
  BY <1>1, <1>2, <1>3, <1>4 DEF IInv, TypeOK, TriedInv, InHand
<1>6. ASSUME NEW w \in Workers, w # Gpu, NEW a \in taken'[w]
      PROVE  a \in tried' \/ InHand(w, a)'
  <2>1. a \in taken[w] /\ held'[w] = held[w]
    BY <1>3, <1>6
  <2>2. pc'[w] = pc[w]
    BY <1>1, <1>2, <1>6 DEF IInv, TypeOK
  <2>3. a \in tried \/ InHand(w, a)
    BY <2>1 DEF TriedInv
  <2> QED
    BY <2>1, <2>2, <2>3, <1>4 DEF InHand
<1>7. tried' \subseteq start' .. next' - 1
  BY <1>3, <1>4, TriedGrows
<1>8. \A h \in hits' : h[1] = Gpu \/ winner' # {} \/ pc'[h[1]] = "publish"
  BY <1>1, <1>2, <1>4 DEF TriedInv, IInv, TypeOK
<1> QED
  BY <1>5, <1>6, <1>7, <1>8 DEF TriedInv

\* The rounded-up grid has a lane for every attempt of the reservation.
LEMMA TriedDispatch ==
    ASSUME IInv, TriedInv, Dispatch
    PROVE  TriedInv'
<1> USE WidthAssumption, LaunchAssumption
<1>1. /\ Gpu \in Workers /\ pc[Gpu] = "dispatch" /\ pc' = [pc EXCEPT ![Gpu] = "kernel"]
      /\ UNCHANGED <<start, end, next, winner, held, payload, taken, tried, hits>>
  BY DEF Dispatch, At, Workers, call, past
<1>2. /\ held[Gpu].lo \in Int /\ held[Gpu].hi \in Int
      /\ held[Gpu].lo < held[Gpu].hi /\ Count <= Launch /\ Count \in Nat
  BY <1>1 DEF IInv, HeldInv, TypeOK, Nums, Count
<1>3. Grid >= Count
  BY <1>2, GridCovers DEF Grid
<1>4. Grid \in Int
  BY <1>2 DEF Grid
<1>5. ASSUME NEW a \in taken[Gpu], a \in held[Gpu].lo .. held[Gpu].hi - 1
      PROVE  lanes'[a - held[Gpu].lo] = "hash"
  <2>1. a - held[Gpu].lo \in Lanes /\ a - held[Gpu].lo < Count
    BY <1>2, <1>5 DEF Lanes, Count
  <2>2. a - held[Gpu].lo < Grid
    BY <2>1, <1>2, <1>3, <1>4 DEF Lanes
  <2> QED
    BY <2>1, <2>2 DEF Dispatch
<1>6. ASSUME NEW w \in Workers, NEW a \in taken'[w]
      PROVE  a \in tried' \/ InHand(w, a)'
  <2>1. CASE w = Gpu
    BY <2>1, <1>1, <1>5 DEF IInv, TypeOK, TriedInv, InHand
  <2>2. CASE w # Gpu
    <3>1. pc'[w] = pc[w] /\ w \in Cpus
      BY <2>2, <1>1 DEF IInv, TypeOK, Workers
    <3>2. pc[w] \notin {"dispatch", "kernel"}
      BY <2>2 DEF IInv, HeldInv
    <3> QED
      BY <3>1, <3>2, <1>1 DEF TriedInv, InHand
  <2> QED
    BY <2>1, <2>2
<1>7. tried' \subseteq start' .. next' - 1
  BY <1>1 DEF TriedInv
<1>8. \A h \in hits' : h[1] = Gpu \/ winner' # {} \/ pc'[h[1]] = "publish"
  BY <1>1 DEF TriedInv, IInv, TypeOK
<1> QED
  BY <1>6, <1>7, <1>8 DEF TriedInv

\* A lane takes its attempt out of the launch by hashing it; a lane past the
\* bound had none.
LEMMA TriedLaneHash ==
    ASSUME IInv, TriedInv, NEW g \in Lanes, LaneHash(g)
    PROVE  TriedInv'
<1> USE WidthAssumption, LaunchAssumption
<1>1. /\ lanes[g] = "hash" /\ pc[Gpu] = "kernel" /\ Gpu \in Workers
      /\ UNCHANGED <<start, end, next, winner, pc, held, taken>>
  BY DEF LaneHash, IInv, LanesInv, Workers, call
<1>2. /\ held[Gpu].lo \in Int /\ held[Gpu].hi \in Int /\ g \in Int
      /\ lanes \in [Lanes -> {"idle", "hash", "cas", "write"}]
  BY <1>1 DEF IInv, TypeOK, Nums, Lanes
<1>3. \A k \in Lanes : k # g => lanes'[k] = lanes[k]
  BY <1>2 DEF LaneHash
<1>4. tried' = IF g < Count THEN tried \cup {held[Gpu].lo + g} ELSE tried
  BY DEF LaneHash, InRange
<1>5. ASSUME NEW a \in taken[Gpu], a \in held[Gpu].lo .. held[Gpu].hi - 1,
             lanes[a - held[Gpu].lo] = "hash"
      PROVE  a \in tried' \/ lanes'[a - held[Gpu].lo] = "hash"
  <2>1. /\ a - held[Gpu].lo \in Lanes /\ a - held[Gpu].lo < Count
        /\ a = held[Gpu].lo + (a - held[Gpu].lo)
    <3>1. held[Gpu].hi - held[Gpu].lo <= Launch /\ a \in Int
      BY <1>1, <1>5, <1>2 DEF IInv, HeldInv
    <3>2. Launch \in Nat /\ held[Gpu].lo \in Int /\ held[Gpu].hi \in Int
      BY <1>2
    <3>3. a - held[Gpu].lo \in Lanes
      BY <3>1, <3>2, <1>5, LaneIndex DEF Lanes
    <3>4. a < held[Gpu].hi
      BY <3>1, <3>2, <1>5
    <3> QED
      BY <3>1, <3>2, <3>3, <3>4 DEF Count
  <2>2. CASE a - held[Gpu].lo = g
    BY <2>1, <2>2, <1>4
  <2>3. CASE a - held[Gpu].lo # g
    BY <2>1, <2>3, <1>3, <1>5
  <2> QED
    BY <2>2, <2>3
<1>6. tried \subseteq tried'
  BY <1>4
<1>7. ASSUME NEW w \in Workers, NEW a \in taken'[w]
      PROVE  a \in tried' \/ InHand(w, a)'
  <2>1. CASE w = Gpu
    BY <2>1, <1>1, <1>5, <1>6 DEF TriedInv, InHand
  <2>2. CASE w # Gpu
    <3>1. pc[w] \notin {"dispatch", "kernel"}
      BY <2>2 DEF IInv, HeldInv
    <3> QED
      BY <3>1, <1>1, <1>6 DEF TriedInv, InHand
  <2> QED
    BY <2>1, <2>2
<1>8. tried' \subseteq start' .. next' - 1
  <2>1. CASE g < Count
    <3>1. held[Gpu].lo + g \in taken[Gpu]
      BY <2>1, <1>1, LaneAttempt
    <3> QED
      BY <2>1, <3>1, <1>1, <1>4 DEF TriedInv, IInv, TakenInv
  <2>2. CASE ~(g < Count)
    BY <2>2, <1>1, <1>4 DEF TriedInv
  <2> QED
    BY <2>1, <2>2
<1>9. \A h \in hits' : h[1] = Gpu \/ winner' # {} \/ pc'[h[1]] = "publish"
  <2>1. hits' \subseteq hits \cup {<<Gpu, held[Gpu].lo + g>>}
    BY DEF LaneHash
  <2> QED
    BY <2>1, <1>1 DEF TriedInv
<1> QED
  BY <1>7, <1>8, <1>9 DEF TriedInv

\* No other step takes, tries or hits anything, and the dispatcher leaves a
\* launch only when every lane is done.
LEMMA TriedOther ==
    ASSUME IInv, TriedInv,
           \/ \E w \in Workers : CheckWinner(w) \/ Exhausted(w)
           \/ \E c \in Cpus : CpuPublish(c)
           \/ \E g \in Lanes : LaneClaim(g) \/ LaneWrite(g)
           \/ Complete \/ Validate \/ Return \/ UNCHANGED vars
    PROVE  TriedInv'
<1> USE DEF TriedInv, InHand, IInv, TypeOK, At, call, slot, past
<1>1. ASSUME NEW w \in Workers, CheckWinner(w) \/ Exhausted(w) PROVE TriedInv'
  <2>1. /\ pc[w] \in {"check", "reserve"} /\ pc'[w] \in {"reserve", "done"}
        /\ \A v \in Workers : v # w => pc'[v] = pc[v]
        /\ UNCHANGED <<start, next, winner, held, lanes, taken, tried, hits>>
    BY <1>1 DEF CheckWinner, Exhausted
  <2>2. ASSUME NEW v \in Workers, NEW a \in taken'[v]
        PROVE  a \in tried' \/ InHand(v, a)'
    BY <2>1
  <2>3. \A h \in hits : h[1] \in Workers
    OBVIOUS
  <2>4. \A h \in hits' : h[1] = Gpu \/ winner' # {} \/ pc'[h[1]] = "publish"
    BY <2>1, <2>3
  <2> QED
    BY <2>1, <2>2, <2>4
<1>2. ASSUME NEW c \in Cpus, CpuPublish(c) PROVE TriedInv'
  BY <1>2 DEF CpuPublish, Publish, Workers
<1>3. ASSUME NEW g \in Lanes, LaneClaim(g) \/ LaneWrite(g) PROVE TriedInv'
  <2>1. lanes[g] # "hash" /\ UNCHANGED <<start, next, winner, pc, held, taken, tried, hits>>
    BY <1>3 DEF LaneClaim, LaneWrite
  <2>2. \A k \in Lanes : lanes[k] = "hash" => lanes'[k] = "hash"
    BY <1>3, <2>1 DEF LaneClaim, LaneWrite
  <2>3. ASSUME NEW w \in Workers, NEW a \in taken[w], pc[w] = "kernel",
               a \in held[w].lo .. held[w].hi - 1
        PROVE  a - held[w].lo \in Lanes
    BY <2>3, WidthAssumption, LaunchAssumption DEF HeldInv, Lanes, Nums
  <2> QED
    BY <2>1, <2>2, <2>3
<1>4. CASE Complete
  <2>1. /\ Gpu \in Workers /\ pc[Gpu] = "kernel"
        /\ \A g \in Lanes : lanes[g] = "idle"
        /\ UNCHANGED <<start, next, winner, held, lanes, taken, tried, hits>>
        /\ pc'[Gpu] \in {"check", "validate"}
        /\ \A w \in Workers : w # Gpu => pc'[w] = pc[w]
    BY <1>4 DEF Complete, Workers
  <2>2. ASSUME NEW a \in taken[Gpu], a \in held[Gpu].lo .. held[Gpu].hi - 1
        PROVE  a - held[Gpu].lo \in Lanes
    BY <2>1, <2>2, WidthAssumption, LaunchAssumption DEF HeldInv, Lanes, Nums
  <2>3. \A a \in taken[Gpu] : a \in tried
    BY <2>1, <2>2
  <2>4. ASSUME NEW w \in Workers, NEW a \in taken'[w]
        PROVE  a \in tried' \/ InHand(w, a)'
    BY <2>1, <2>3
  <2>5. \A h \in hits : pc[h[1]] = "publish" => h[1] # Gpu
    BY <2>1
  <2>6. \A h \in hits' : h[1] = Gpu \/ winner' # {} \/ pc'[h[1]] = "publish"
    BY <2>1, <2>5
  <2> QED
    BY <2>1, <2>4, <2>6
<1>5. CASE Validate
  BY <1>5 DEF Validate, Publish, Workers
<1>6. CASE Return
  BY <1>6 DEF Return
<1>7. CASE UNCHANGED vars
  BY <1>7 DEF vars
<1> QED
  BY <1>1, <1>2, <1>3, <1>4, <1>5, <1>6, <1>7

\* Every step keeps the tried attempts and the attempts in hand complete.
LEMMA TriedKeeps ==
    ASSUME IInv, TriedInv, [Next]_vars
    PROVE  TriedInv'
<1>1. ASSUME NEW c \in Cpus, CpuStep(c) PROVE TriedInv'
  BY <1>1, TriedCpuReserve, TriedCpuHash, TriedOther DEF CpuStep, Workers
<1>2. CASE GpuStep
  BY <1>2, TriedGpuReserve, TriedDispatch, TriedOther DEF GpuStep, Workers
<1>3. ASSUME NEW g \in Lanes, LaneStep(g) PROVE TriedInv'
  BY <1>3, TriedLaneHash, TriedOther DEF LaneStep
<1>4. CASE Return
  BY <1>4, TriedOther
<1>5. CASE UNCHANGED vars
  BY <1>5, TriedOther
<1> QED
  BY <1>1, <1>2, <1>3, <1>4, <1>5 DEF Next, Returned

-----------------------------------------------------------------------------
(* The workers implement the abstract search.                              *)

\* The steps that only move a worker or a lane are not seen by the caller.
LEMMA HiddenStep ==
    ASSUME UNCHANGED <<start, end, next, winner, ret>>
    PROVE  UNCHANGED Search!searchVars
BY DEF Search!searchVars

\* A reservation hands out the attempts the counter passes.
LEMMA ReserveMaps ==
    ASSUME IInv, end <= MaxU64, NEW w \in Workers, NEW count \in Nat \ {0},
           Reserve(w, count), UNCHANGED <<start, end, winner, ret>>
    PROVE  Search!HandOut
<1>1. next \in Int /\ next' \in Int /\ end \in Int /\ next < next' /\ next' <= end /\ MaxU64 \in Int
  BY ReserveStep, WidthAssumption DEF IInv, TypeOK, Nums
<1> DEFINE S == next .. next' - 1
<1> DEFINE U == next .. end - 1
<1>2. S \in SUBSET U /\ S # {}
  BY <1>1, PrefixInterval
<1>3. (next' .. end - 1) = U \ S
  BY <1>1, PrefixInterval
<1>4. ~(end > MaxU64) /\ ~(end' > MaxU64)
  BY <1>1
<1> QED
  BY <1>2, <1>3, <1>4 DEF Search!HandOut

\* A first publication is a win, a later one is not seen.
LEMMA PublishMaps ==
    ASSUME IInv, NEW w \in Workers, NEW a \in taken[w],
           Publish(w, a), UNCHANGED <<start, end, next, ret>>
    PROVE  Search!Win \/ UNCHANGED Search!searchVars
<1>1. a \in start .. next - 1
  BY DEF IInv, TakenInv
<1>2. ~(end > MaxU64) /\ start \in Int /\ next \in Int /\ end \in Int /\ next <= end
  BY <1>1, WidthAssumption DEF IInv, TypeOK, CounterInv, Nums
<1>3. a \in (start .. end - 1) \ (next .. end - 1)
  BY <1>1, <1>2
<1>4. CASE winner = {}
  <2>1. winner' = {<<w, a>>}
    BY <1>4 DEF Publish
  <2> QED
    BY <1>2, <1>3, <1>4, <2>1 DEF Search!Win
<1>5. CASE winner # {}
  BY <1>5, HiddenStep DEF Publish
<1> QED
  BY <1>4, <1>5

\* A search starts with its whole range untried.
LEMMA SearchInitMaps == Init => Search!SearchInit
<1> SUFFICES ASSUME Init PROVE Search!SearchInit
  OBVIOUS
<1>1. TypeOK /\ next = start /\ winner = {} /\ ret \in {"pending", "panic"}
  BY InitEstablishes DEF Init, IInv
<1>2. (IF end > MaxU64 THEN {} ELSE start .. end - 1) \in SUBSET (0 .. MaxU64)
  BY <1>1, WidthAssumption DEF TypeOK, Nums
<1> QED
  BY <1>1, <1>2 DEF Search!SearchInit

\* Every step of the workers is a step of the search, or not seen at all.
LEMMA SearchStepMaps ==
    ASSUME IInv, ExitInv, [Next]_vars
    PROVE  [Search!SearchNext]_(Search!searchVars)
<1> USE DEF call, slot, past
<1>1. ASSUME NEW w \in Workers, CheckWinner(w) \/ Exhausted(w)
      PROVE  UNCHANGED Search!searchVars
  BY <1>1, HiddenStep DEF CheckWinner, Exhausted
<1>2. ASSUME NEW w \in Workers, pc[w] # "done"
      PROVE  end <= MaxU64
  BY <1>2, WidthAssumption DEF IInv, TypeOK, CounterInv
<1>3. ASSUME NEW c \in Cpus, CpuStep(c)
      PROVE  Search!SearchNext \/ UNCHANGED Search!searchVars
  <2>0. c \in Workers
    BY DEF Workers
  <2>1. CASE CpuReserve(c)
    BY <2>0, <2>1, <1>2, ReserveMaps DEF CpuReserve, At, Search!SearchNext
  <2>2. CASE CpuHash(c)
    BY <2>2, HiddenStep DEF CpuHash
  <2>3. CASE CpuPublish(c)
    BY <2>0, <2>3, PublishMaps DEF CpuPublish, At, IInv, HeldInv, Search!SearchNext
  <2> QED
    BY <1>3, <1>1, <2>0, <2>1, <2>2, <2>3 DEF CpuStep
<1>4. CASE GpuStep
  <2>0. Gpu \in Workers
    BY DEF Workers
  <2>1. CASE GpuReserve
    BY <2>0, <2>1, <1>2, ReserveMaps, LaunchAssumption DEF GpuReserve, At, Search!SearchNext
  <2>2. CASE Dispatch \/ Complete
    BY <2>2, HiddenStep DEF Dispatch, Complete
  <2>3. CASE Validate
    <3>1. CASE <<Gpu, payload>> \in hits
      <4>1. payload \in taken[Gpu]
        BY <3>1 DEF IInv, HitsInv
      <4> QED
        BY <2>0, <2>3, <3>1, <4>1, PublishMaps DEF Validate, Search!SearchNext
    <3>2. CASE <<Gpu, payload>> \notin hits
      BY <2>3, <3>2, HiddenStep DEF Validate
    <3> QED
      BY <3>1, <3>2
  <2> QED
    BY <1>4, <1>1, <2>0, <2>1, <2>2, <2>3 DEF GpuStep
<1>5. ASSUME NEW g \in Lanes, LaneStep(g) PROVE UNCHANGED Search!searchVars
  BY <1>5, HiddenStep DEF LaneStep, LaneHash, LaneClaim, LaneWrite
<1>6. CASE Return
  <2>1. ret = "pending" /\ UNCHANGED <<start, end, next, winner>>
    BY <1>6 DEF Return
  <2>2. (\A w \in Workers : pc[w] = "done") /\ winner = {} =>
           (IF end > MaxU64 THEN {} ELSE next .. end - 1) = {}
    BY <2>1, WidthAssumption DEF ExitInv, IInv, TypeOK, Nums
  <2>3. \/ winner # {} /\ ret' = "found"
        \/ winner = {} /\ (\A w \in Workers : pc[w] = "done") /\ ret' = "none"
        \/ ret' = "panic"
    BY <1>6 DEF Return
  <2> QED
    BY <2>1, <2>2, <2>3 DEF Search!Answer, Search!SearchNext
<1>7. CASE UNCHANGED vars
  BY <1>7, HiddenStep DEF vars
<1> QED
  BY <1>3, <1>4, <1>5, <1>6, <1>7 DEF Next, Returned

-----------------------------------------------------------------------------
(* The theorems.                                                           *)

\* Every step of the search keeps the inductive invariant.
LEMMA NextKeeps ==
    ASSUME IInv, [Next]_vars
    PROVE  IInv'
<1>1. ASSUME NEW c \in Cpus, CpuStep(c) PROVE IInv'
  BY <1>1, CheckWinnerStep, ExhaustedStep, CpuReserveStep, CpuHashStep, CpuPublishStep
     DEF CpuStep, Workers
<1>2. CASE GpuStep
  BY <1>2, CheckWinnerStep, ExhaustedStep, GpuReserveStep, DispatchStep, CompleteStep,
     ValidateStep DEF GpuStep, Workers
<1>3. ASSUME NEW g \in Lanes, LaneStep(g) PROVE IInv'
  BY <1>3, LaneHashStep, LaneClaimStep, LaneWriteStep DEF LaneStep
<1>4. CASE Return
  BY <1>4, ReturnStep
<1>5. CASE UNCHANGED vars
  BY <1>5, StutterStep
<1> QED
  BY <1>1, <1>2, <1>3, <1>4, <1>5 DEF Next, Returned

\* The inductive invariant holds of every search.
THEOREM SearchInvariant == Spec => []IInv
<1>1. Init => IInv
  BY InitEstablishes
<1>2. IInv /\ [Next]_vars => IInv'
  BY NextKeeps
<1> QED
  BY <1>1, <1>2, PTL DEF Spec

\* The variables keep their types: in particular no reservation, nonce or
\* lane ever computes a number above u64::MAX.
THEOREM SearchTypes == Spec => []TypeOK
<1>1. IInv => TypeOK
  BY DEF IInv
<1> QED
  BY <1>1, SearchInvariant, PTL

\* Attempts hands out every attempt at most once and in order, for any
\* number of threads, any launch size and a range that ends at u64::MAX.
THEOREM ReservationsArePartition == Spec => []ReservationsPartition
<1>1. IInv => ReservationsPartition
  <2> SUFFICES ASSUME IInv PROVE ReservationsPartition
    OBVIOUS
  <2>1. UNION {taken[w] : w \in Workers} = start .. next - 1
    BY DEF IInv, TakenInv
  <2>2. ret # "panic" => next <= end
    BY WidthAssumption DEF IInv, CounterInv, TypeOK
  <2> QED
    BY <2>1, <2>2 DEF IInv, TakenInv, ReservationsPartition
<1> QED
  BY <1>1, SearchInvariant, PTL

\* Whoever publishes, and whatever the kernel answered, the winner is a
\* reserved attempt that met the target on the host.
THEOREM WinnersAreValid == Spec => []WinnerIsValid
<1>1. IInv => WinnerIsValid
  BY DEF IInv, HitsInv, WinnerIsValid
<1> QED
  BY <1>1, SearchInvariant, PTL

\* After a win each worker reserves at most once more.
THEOREM OvershootIsBounded == Spec => []BoundedOvershoot
<1>1. IInv => BoundedOvershoot
  BY DEF IInv, LateInv
<1> QED
  BY <1>1, SearchInvariant, PTL

\* The nonce read back belongs to the launch that was awaited.
THEOREM PayloadsAreFresh == Spec => []PayloadIsFresh
<1>1. IInv => PayloadIsFresh
  BY DEF IInv, LanesInv
<1> QED
  BY <1>1, SearchInvariant, PTL

\* "none" is never wrong: whatever the interleaving of host workers, lanes
\* and dispatcher, every attempt was hashed and no host hit was lost.
THEOREM NoneIsExhaustive == Spec => []NoneMeansAllTried
<1> DEFINE J == IInv /\ ExitInv /\ NoneInv /\ TriedInv
<1>1. Init => J
  <2>1. Init => NoneInv
    BY DEF Init, NoneInv
  <2> QED
    BY <2>1, InitEstablishes, ExitInit, TriedInit
<1>2. J /\ [Next]_vars => J'
  BY NextKeeps, ExitKeeps, NoneKeeps, TriedKeeps
<1>3. J => NoneMeansAllTried
  <2> SUFFICES ASSUME J, ret = "none" PROVE tried = start .. end - 1 /\ \A h \in hits : h[1] = Gpu
    BY DEF NoneMeansAllTried
  <2>1. next = end /\ winner = {} /\ \A w \in Workers : pc[w] = "done"
    BY WidthAssumption DEF NoneInv, IInv, CounterInv, TypeOK, Nums
  <2>2. tried \subseteq start .. end - 1
    BY <2>1 DEF TriedInv
  <2>3. ASSUME NEW a \in start .. end - 1 PROVE a \in tried
    BY <2>1 DEF TriedInv, InHand, IInv, TakenInv
  <2>4. \A h \in hits : h[1] \in Workers
    BY DEF IInv, TypeOK
  <2>5. \A h \in hits : h[1] = Gpu
    BY <2>1, <2>4 DEF TriedInv
  <2> QED
    BY <2>2, <2>3, <2>5
<1> HIDE DEF J
<1> QED
  BY <1>1, <1>2, <1>3, PTL DEF Spec

\* The host workers, the dispatcher and the lanes together implement the
\* bounded search their caller relies on: each attempt is handed out once,
\* the first win stands, "none" comes only when nothing is left.
THEOREM WorkersImplementSearch == Spec => ImplementsSearch
<1>1. Init => IInv /\ ExitInv /\ Search!SearchInit
  BY InitEstablishes, ExitInit, SearchInitMaps
<1>2. IInv /\ ExitInv /\ [Next]_vars => IInv' /\ ExitInv'
  BY NextKeeps, ExitKeeps
<1>3. IInv /\ ExitInv /\ [Next]_vars => [Search!SearchNext]_(Search!searchVars)
  BY SearchStepMaps
<1> QED
  BY <1>1, <1>2, <1>3, PTL DEF Spec, ImplementsSearch, Search!SearchSpec

=============================================================================
