----------------------------- MODULE GuesserBuffer -----------------------------
(***************************************************************************)
(* The tree that mining needed before hardfork Beta, and the search on it  *)
(* (honeycrisp/neptune_mine.rs).  The leaves are built from the buds in    *)
(* rounds over two buffers, and for Alpha and TVM1 put in bit-reversed     *)
(* order in place; of the inner nodes the lowest level is left out, and a  *)
(* path computes the one node of it that it needs.  Every attempt derives  *)
(* two indices from its nonce and proves both with a path.                 *)
(*                                                                         *)
(* A hash is what it is of, so that two are equal only if what was hashed  *)
(* is.  The tree is as high as the job says instead of 29 levels.          *)
(***************************************************************************)
EXTENDS ParallelFind, Integers, Sequences, FiniteSetsExt

CONSTANTS
  NumBudLayers,  (* NUM_BUD_LAYERS                                         *)
  U64Max         (* the largest attempt number                             *)

ASSUME GuesserBufferAssumption == NumBudLayers \in Nat /\ NumBudLayers >= 2 /\ U64Max \in Nat

VARIABLES
  job,     (* [height, reversed, start, count, words, wins]: words are the
              two that the last of the hashes of a nonce begins with, and
              wins the nonces whose block hash is within the target        *)
  buffer,  (* [phase, at, leafs, nodes]                                    *)
  mined    (* {} or what the search returned                               *)

\* 1 << n.
Pow2[n \in Nat] == IF n = 0 THEN 1 ELSE 2 * Pow2[n - 1]

\* k >> n.
Shifted(k, n) ==
    LET after[i \in Nat] == IF i = 0 THEN k ELSE after[i - 1] \div 2
    IN  after[n]

HEIGHT == 29

NumLeafs == Pow2[job.height]
HashPair(left, right) == <<left, right>>
Bud(index) == <<"prefix", index, 0>>

-----------------------------------------------------------------------------
(* The leaves.                                                             *)

Buds ==
    /\ buffer.phase = "buds"
    /\ buffer' = [buffer EXCEPT !.phase = "rounds", !.leafs = [k \in 0..NumLeafs - 1 |-> Bud(k)]]
    /\ UNCHANGED <<job, pool, mined>>

\* Variant of Partner: without the way round the end.
PartnerClamped(k, stride) == Min({k + stride, NumLeafs - 1})

Partner(k, stride) == (k + stride) % NumLeafs

\* A round reads one buffer and writes the other, which is the first one of
\* the next round.
Butterfly ==
    /\ buffer.phase = "rounds" /\ buffer.at < NumBudLayers
    /\ buffer' = [buffer EXCEPT !.at = @ + 1,
          !.leafs = [k \in DOMAIN @ |-> HashPair(@[k], @[Partner(k, Pow2[buffer.at])])]]
    /\ UNCHANGED <<job, pool, mined>>

\* Reboot keeps the order of the buds.
EndRounds ==
    /\ buffer.phase = "rounds" /\ buffer.at = NumBudLayers
    /\ buffer' = [buffer EXCEPT !.phase = IF job.reversed THEN "reversal" ELSE "nodes", !.at = 0]
    /\ UNCHANGED <<job, pool, mined>>

\* A word is a function from the numbers of its bits, 0 that of the lowest.
Word == 32
BitsOf(k) == [i \in 0..Word - 1 |-> Shifted(k, i) % 2]

\* The number that n bits make, the highest first.
Number(bits, n) ==
    LET first[i \in 0..n] == IF i = 0 THEN 0 ELSE 2 * first[i - 1] + bits[i]
    IN  first[n]

\* Every group of s bits changes places with the next one.
SwapGroups(w, s) == [i \in DOMAIN w |-> IF (i \div s) % 2 = 0 THEN w[i + s] ELSE w[i - s]]

RotateRight(w, s) == [i \in DOMAIN w |-> w[(i + s) % Word]]

BitReverse(k, bits) ==
    LET swapped == SwapGroups(SwapGroups(SwapGroups(SwapGroups(BitsOf(k), 1), 2), 4), 8)
        word == RotateRight(swapped, 16)
    IN  Number([i \in 1..bits |-> word[Word - i]], bits)

\* The loop over the leaves: each pair is exchanged at its smaller index.
SwapLeaf ==
    /\ buffer.phase = "reversal" /\ buffer.at < NumLeafs
    /\ LET k == buffer.at
           r == BitReverse(k, job.height)
       IN  buffer' = [buffer EXCEPT !.at = k + 1,
              !.leafs = IF r > k THEN [@ EXCEPT ![k] = buffer.leafs[r], ![r] = buffer.leafs[k]]
                        ELSE @]
    /\ UNCHANGED <<job, pool, mined>>

EndReversal ==
    /\ buffer.phase = "reversal" /\ buffer.at = NumLeafs
    /\ buffer' = [buffer EXCEPT !.phase = "nodes"]
    /\ UNCHANGED <<job, pool, mined>>

-----------------------------------------------------------------------------
(* The inner nodes, numbered from the root, which is 1.                    *)

\* The lowest level that is kept, straight from four leaves each.
LastLevel ==
    /\ buffer.phase = "nodes"
    /\ LET size == NumLeafs \div 2
           first == size \div 2
           Leaf(o, i) == buffer.leafs[(o - first) * 4 + i]
       IN  buffer' = [buffer EXCEPT !.phase = "levels", !.at = first,
              !.nodes = [o \in first..size - 1 |->
                  HashPair(HashPair(Leaf(o, 0), Leaf(o, 1)), HashPair(Leaf(o, 2), Leaf(o, 3)))]]
    /\ UNCHANGED <<job, pool, mined>>

\* The level above the one that was made last.
Level ==
    /\ buffer.phase = "levels" /\ buffer.at > 1
    /\ LET first == buffer.at \div 2
           Child(o, i) == buffer.nodes[2 * o + i]
       IN  buffer' = [buffer EXCEPT !.at = first,
              !.nodes = [o \in first..(NumLeafs \div 2) - 1 |->
                  IF o < buffer.at THEN HashPair(Child(o, 0), Child(o, 1)) ELSE @[o]]]
    /\ UNCHANGED <<job, pool, mined>>

EndLevels ==
    /\ buffer.phase = "levels" /\ buffer.at = 1
    /\ buffer' = [buffer EXCEPT !.phase = "built"]
    /\ UNCHANGED <<job, pool, mined>>

Root == buffer.nodes[1]

Sibling(i) == IF i % 2 = 0 THEN i + 1 ELSE i - 1

\* The sibling of the leaf, that of its parent, which is made here, and those
\* of the nodes above, from the buffer.
PathAtHeight(idx) ==
    LET Above(k) == Shifted(idx + NumLeafs, k)
        Leaf(i) == buffer.leafs[i]
        j == Sibling(Above(1)) - NumLeafs \div 2
    IN  [k \in 1..job.height |->
            IF k = 1 THEN Leaf(Sibling(idx))
            ELSE IF k = 2 THEN HashPair(Leaf(2 * j), Leaf(2 * j + 1))
            ELSE buffer.nodes[Sibling(Above(k - 1))]]

-----------------------------------------------------------------------------
(* The search.                                                             *)

\* The two leaves that a nonce has to prove.
Indices(nonce) == <<job.words[nonce][1] % NumLeafs, job.words[nonce][2] % NumLeafs>>

Pow(nonce) ==
    [root |-> Root, path_a |-> PathAtHeight(Indices(nonce)[1]),
     path_b |-> PathAtHeight(Indices(nonce)[2]), nonce |-> nonce]

\* checked_add of the range.
MineLegacyRange ==
    /\ buffer.phase = "built"
    /\ IF job.start + job.count > U64Max
       THEN /\ buffer' = [buffer EXCEPT !.phase = "panicked"]
            /\ UNCHANGED pool
       ELSE /\ buffer' = [buffer EXCEPT !.phase = "mining"]
            /\ pool' = PoolOver(Range0(job.start, job.count))
    /\ UNCHANGED <<job, mined>>

TakeAttempt(t) ==
    /\ buffer.phase = "mining"
    /\ Take(t)
    /\ UNCHANGED <<job, buffer, mined>>

\* The nonce is made of the attempt and of the thread that tries it.
TryAttempt(t) ==
    /\ buffer.phase = "mining"
    /\ pool.held[t] # {}
    /\ Try(t, <<Held(t), t>> \in job.wins)
    /\ UNCHANGED <<job, buffer, mined>>

EndMining ==
    /\ buffer.phase = "mining"
    /\ Returns
    /\ buffer' = [buffer EXCEPT !.phase = "mined"]
    /\ IF pool.found = {} THEN mined' = {}
       ELSE \E nonce \in pool.found : mined' = {Pow(nonce)}
    /\ UNCHANGED <<job, pool>>

BufferStep ==
    \/ Buds \/ Butterfly \/ EndRounds \/ SwapLeaf \/ EndReversal
    \/ LastLevel \/ Level \/ EndLevels
    \/ MineLegacyRange \/ EndMining
    \/ \E t \in Threads : TakeAttempt(t) \/ TryAttempt(t)

-----------------------------------------------------------------------------
(* The same tree, as a verifier has it.                                    *)

\* The root over 2^depth digests, layer by layer.
MerkleRoot(digests, depth) ==
    LET layer[d \in 0..depth] ==
            IF d = 0 THEN digests
            ELSE [i \in 1..Pow2[depth - d] |-> <<layer[d - 1][2 * i - 1], layer[d - 1][2 * i]>>]
    IN  layer[depth][1]

\* The bits of an index in the opposite order.
ReversedIndex(index) == Number([i \in 1..job.height |-> Shifted(index, i - 1) % 2], job.height)

\* The root over consecutive buds, round the end.
RootOverBuds(first, depth) ==
    MerkleRoot([i \in 1..Pow2[depth] |-> Bud((first + i - 1) % NumLeafs)], depth)

\* The leaf at an index is the root over as many buds as the rounds make.
NativeLeaf(index) ==
    RootOverBuds(IF job.reversed THEN ReversedIndex(index) ELSE index, NumBudLayers)

\* A path leads from a leaf to the root.
Authenticates(leaf, index, path, root) ==
    LET node[level \in 0..Len(path)] ==
            IF level = 0 THEN leaf
            ELSE IF Shifted(index, level - 1) % 2 = 0
            THEN <<node[level - 1], path[level]>>
            ELSE <<path[level], node[level - 1]>>
    IN  node[Len(path)] = root
===============================================================================
