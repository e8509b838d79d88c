------------------------------ MODULE MineCommand ------------------------------
(***************************************************************************)
(* The two searches of `mine` that MiningRange and MiningSession leave     *)
(* out: for a nonce of a program, and on the tree of the old Neptune rules *)
(* as one session has it between two templates (cli/mine.rs).              *)
(***************************************************************************)
EXTENDS GuesserBuffer, NonceGuess

CONSTANTS
  Legacy,   (* the jobs of the search on the tree                          *)
  Guesses   (* the questions for a nonce of a program                      *)

\* What leafs_at_height asserts of the height; the attempts of a range have two
\* words each.
ASSUME LegacyAssumption ==
    \A i \in DOMAIN Legacy :
        LET j == Legacy[i]
            nonces == Range0(j.start, j.count) \X Threads
        IN  /\ j.height \in NumBudLayers..HEIGHT /\ j.reversed \in BOOLEAN
            /\ j.start \in Nat /\ j.count \in Nat
            /\ j.words \in [nonces -> Nat \X Nat] /\ j.wins \subseteq nonces

\* The words of a question are given for whole batches up to its limit.
ASSUME GuessesAssumption ==
    \A i \in DOMAIN Guesses :
        LET q == Guesses[i]
        IN  /\ q.max \in Nat /\ q.difficulty \in Nat
            /\ q.words \in Seq(Nat) /\ Len(q.words) >= q.max /\ Len(q.words) % Batch = 0

vars == <<job, buffer, mined, asked, guess, result, lanes, history, pool>>

Off == [phase |-> "off", at |-> 0, leafs |-> <<>>, nodes |-> <<>>]

Init ==
    /\ pool = PoolOver({}) /\ mined = {}
    /\ result = NoResult /\ lanes = [g \in Lanes |-> "done"]
    /\ history = [tried |-> {}, lost |-> {}]
    /\ \E j \in DOMAIN Legacy, q \in DOMAIN Guesses : job = Legacy[j] /\ asked = Guesses[q]
    /\ \/ /\ buffer = [Off EXCEPT !.phase = "buds"]
          /\ guess = [pc |-> "off", at |-> 0, answer |-> {}]
          /\ asked = Guesses[1]
       \/ /\ buffer = Off
          /\ guess = [pc |-> "start", at |-> 0, answer |-> {}]
          /\ job = Legacy[1]

Ended ==
    \/ buffer.phase \in {"panicked", "mined"}
    \/ guess.pc \in {"refused", "found", "none"}

Next ==
    \/ BufferStep /\ UNCHANGED <<asked, guess, result, lanes, history>>
    \/ GuessStep /\ UNCHANGED <<job, buffer, mined>>
    \/ Ended /\ UNCHANGED vars

Spec == Init /\ [][Next]_vars

(***************************************************************************)
(* Properties                                                              *)
(***************************************************************************)
\* What legacy_layout_tests tells of one height and one prefix, for every
\* order and every leaf, at heights where the rounds go round the end and where
\* they do not: a leaf is the root over consecutive buds, first that of its
\* (bit-reversed) index, its path leads to the root, and that is the root of
\* the tree over all leaves.  And a proof of work that the search returns has
\* the root, the paths of both indices of its own nonce, and a hash within the
\* target; there is none only if every attempt was tried and none wins.
PathsAuthenticate ==
    /\ buffer.phase = "built" =>
          /\ Root = MerkleRoot([i \in 1..NumLeafs |-> buffer.leafs[i - 1]], job.height)
          /\ \A index \in 0..NumLeafs - 1 :
                /\ buffer.leafs[index] = NativeLeaf(index)
                /\ Authenticates(NativeLeaf(index), index, PathAtHeight(index), Root)
    /\ \A pow \in mined :
          LET leaf == Indices(pow.nonce)
          IN  /\ Authenticates(NativeLeaf(leaf[1]), leaf[1], pow.path_a, pow.root)
              /\ Authenticates(NativeLeaf(leaf[2]), leaf[2], pow.path_b, pow.root)
              /\ pow.root = Root /\ pow.nonce \in job.wins
    /\ buffer.phase = "mined" /\ mined = {} =>
          /\ {attempt[1] : attempt \in pool.tried} = Range0(job.start, job.count)
          /\ pool.tried \cap job.wins = {}

\* The nonces below the limit that win.
Winning == {nonce \in 0..asked.max - 1 : Word0(nonce) < asked.difficulty}

\* "nonce valid when hash[0] < difficulty" (cli/mine.rs): the digest reported is the one that the host computes for the
\* reported nonce, on whichever backend and however the threads race, and is
\* below the difficulty; and "no solution found within N attempts" means that
\* each of the N was tried and that none wins, except those that a weak
\* exchange of the kernel has turned away.  The attempts reported exceed the
\* limit by less than one batch, and on the host not at all.
GuessIsHonest ==
    /\ \A r \in guess.answer :
          /\ r.digest = HashVarlen(Message(r.nonce))
          /\ Word0(r.nonce) < asked.difficulty
          /\ r.nonce < r.attempts
          /\ r.attempts < asked.max + IF ~OnPool /\ asked.accelerator THEN Batch ELSE 1
    /\ guess.pc = "none" =>
          /\ 0..asked.max - 1 \subseteq history.tried \cup {attempt[1] : attempt \in pool.tried}
          /\ Winning \subseteq history.lost
===============================================================================
