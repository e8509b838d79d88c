------------------------------ MODULE NonceGuess ------------------------------
(***************************************************************************)
(* `mine` of a program: a nonce is wanted with which the program's hash    *)
(* hashes below the difficulty (cli/mine.rs).  The backend is one of       *)
(* three: the threads of a pool (rs/warrior.rs, honeycrisp/warrior.rs), a  *)
(* loop, or the GPU, which searches in batches, a thread for each nonce,   *)
(* that race for one result buffer (wgpu/warrior.rs, wgpu/accelerator.rs,  *)
(* wgpu/shaders/mine.wgsl).                                                *)
(*                                                                         *)
(* A digest is the chunks that the sponge absorbed, and its first word is  *)
(* given for each nonce by the job; words have two halves below Half       *)
(* instead of 2^32, a batch has Batch nonces instead of 256 * 1024, and    *)
(* the Montgomery form of numbers is left out.                             *)
(***************************************************************************)
EXTENDS ParallelFind, Sequences, TLC

CONSTANTS
  Batch,  (* batch_size                                                    *)
  Half,   (* of a word, 2^32                                               *)
  Rate    (* of the sponge, 10 field elements                              *)

ASSUME NonceGuessAssumption == Batch \in Nat \ {0} /\ Half \in Nat \ {0} /\ Rate \in Nat \ {0}

VARIABLES
  asked,   (* [backend, gpuBuild, gpu, accelerator, valid, difficulty,
              max, words]: gpuBuild is the feature trisha-wgpu, gpu what
              gpu_available says, accelerator whether one can be made,
              valid whether the bundle is, words the first word of each
              digest, from nonce 0                                         *)
  guess,   (* [pc, at, answer]: answer is {} or the GuessResult            *)
  result,  (* [found, nonce, digest] of the GPU                            *)
  lanes,   (* what each thread of the batch does next                      *)
  history  (* [tried, lost]: the nonces that were hashed on the GPU or in
              the loop, and the winners that an exchange turned away
              although none had been found                                 *)

Lanes == 0..Batch - 1

\* The message is the hash of the program, five words, and the nonce.
Base == <<"h0", "h1", "h2", "h3", "h4">>

\* hash_varlen: a one, and zeros until a chunk is full.
Padded(message) ==
    LET rest == Len(message) % Rate
    IN  message \o <<"one">> \o [i \in 1..Rate - rest - 1 |-> "zero"]

Chunk(message, n) == SubSeq(message, (n - 1) * Rate + 1, n * Rate)

HashVarlen(message) ==
    [n \in 1..(Len(message) \div Rate) + 1 |-> Chunk(Padded(message), n)]

Message(nonce) == Append(Base, ToString(nonce))
Word0(nonce) == asked.words[nonce + 1]

-----------------------------------------------------------------------------
(* The command and the choice of a backend.                                *)

UseHoneycrisp ==
    IF asked.gpuBuild THEN asked.backend = "honeycrisp" \/ (asked.backend = "auto" /\ ~asked.gpu)
    ELSE asked.backend # "cpu"

OnPool == asked.backend = "cpu" \/ UseHoneycrisp \/ ~asked.gpuBuild

Answered(found) ==
    guess' = [guess EXCEPT !.pc = IF found = {} THEN "none" ELSE "found", !.answer = found]

Refuse ==
    /\ guess.pc = "start" /\ ~asked.valid
    /\ guess' = [guess EXCEPT !.pc = "refused"]
    /\ UNCHANGED <<asked, pool, result, lanes, history>>

StartPool ==
    /\ guess.pc = "start" /\ asked.valid /\ OnPool
    /\ guess' = [guess EXCEPT !.pc = "pool"]
    /\ pool' = PoolOver(Range0(0, asked.max))
    /\ UNCHANGED <<asked, result, lanes, history>>

\* The accelerator is made for the search; without one a loop does it.
StartAlone ==
    /\ guess.pc = "start" /\ asked.valid /\ ~OnPool
    /\ guess' = [guess EXCEPT !.pc = IF asked.accelerator THEN "batch" ELSE "loop"]
    /\ UNCHANGED <<asked, pool, result, lanes, history>>

-----------------------------------------------------------------------------
(* The pool and the loop.                                                  *)

GuessResult(nonce) == [nonce |-> nonce, digest |-> HashVarlen(Message(nonce)),
                       attempts |-> nonce + 1]

TakeNonce(t) ==
    /\ guess.pc = "pool"
    /\ Take(t)
    /\ UNCHANGED <<asked, guess, result, lanes, history>>

TryNonce(t) ==
    /\ guess.pc = "pool"
    /\ pool.held[t] # {}
    /\ Try(t, Word0(Held(t)) < asked.difficulty)
    /\ UNCHANGED <<asked, guess, result, lanes, history>>

EndPool ==
    /\ guess.pc = "pool"
    /\ Returns
    /\ IF pool.found = {} THEN Answered({})
       ELSE \E win \in pool.found : Answered({GuessResult(win[1])})
    /\ UNCHANGED <<asked, pool, result, lanes, history>>

LoopTry ==
    /\ guess.pc = "loop" /\ guess.at < asked.max
    /\ history' = [history EXCEPT !.tried = @ \cup {guess.at}]
    /\ IF Word0(guess.at) < asked.difficulty THEN Answered({GuessResult(guess.at)})
       ELSE guess' = [guess EXCEPT !.at = @ + 1]
    /\ UNCHANGED <<asked, pool, result, lanes>>

LoopEnd ==
    /\ guess.pc = "loop" /\ guess.at >= asked.max
    /\ Answered({})
    /\ UNCHANGED <<asked, pool, result, lanes, history>>

-----------------------------------------------------------------------------
(* A batch on the GPU.                                                     *)

NoResult == [found |-> FALSE, nonce |-> 0, digest |-> <<>>]

\* The buffer is cleared and the batch dispatched from the nonce reached.
Dispatch ==
    /\ guess.pc = "batch" /\ guess.at < asked.max
    /\ result' = NoResult
    /\ lanes' = [g \in Lanes |-> "start"]
    /\ guess' = [guess EXCEPT !.pc = "kernel"]
    /\ UNCHANGED <<asked, pool, history>>

\* The loop over the batches ends without a winner.
GiveUp ==
    /\ guess.pc = "batch" /\ guess.at >= asked.max
    /\ Answered({})
    /\ UNCHANGED <<asked, pool, result, lanes, history>>

NonceOf(g) == guess.at + g

\* The kernel's own padding, chunk by chunk.
Absorbed(message) ==
    LET full == Len(message) \div Rate
        At(i) == IF i <= Len(message) THEN message[i]
                 ELSE IF i = Len(message) + 1 THEN "one" ELSE "zero"
    IN  [n \in 1..full + 1 |-> [i \in 1..Rate |-> At((n - 1) * Rate + i)]]

\* The comparison by halves.
BelowTarget(word) ==
    \/ word \div Half < asked.difficulty \div Half
    \/ /\ word \div Half = asked.difficulty \div Half
       /\ word % Half < asked.difficulty % Half

\* A thread that comes late sees the flag and leaves; the others hash.
LaneStart(g) ==
    /\ guess.pc = "kernel" /\ lanes[g] = "start"
    /\ IF result.found
       THEN /\ lanes' = [lanes EXCEPT ![g] = "done"]
            /\ UNCHANGED history
       ELSE /\ lanes' = [lanes EXCEPT ![g] = IF BelowTarget(Word0(NonceOf(g))) THEN "hit" ELSE "done"]
            /\ history' = [history EXCEPT !.tried = @ \cup {NonceOf(g)}]
    /\ UNCHANGED <<asked, pool, guess, result>>

\* Variant of Exchanged: a plain store, that does not look.
ExchangedAlways(won) == won

\* A weak exchange may fail although the flag is down.
Exchanged(won) == won /\ ~result.found

LaneExchange(g) ==
    /\ guess.pc = "kernel" /\ lanes[g] = "hit"
    /\ \E won \in BOOLEAN :
          /\ result' = [result EXCEPT !.found = @ \/ Exchanged(won)]
          /\ lanes' = [lanes EXCEPT ![g] = IF Exchanged(won) THEN "nonce" ELSE "done"]
          /\ history' = [history EXCEPT !.lost =
                IF result.found \/ won THEN @ ELSE @ \cup {NonceOf(g)}]
    /\ UNCHANGED <<asked, pool, guess>>

\* The winner writes its nonce, then its digest.
LaneNonce(g) ==
    /\ guess.pc = "kernel" /\ lanes[g] = "nonce"
    /\ result' = [result EXCEPT !.nonce = NonceOf(g)]
    /\ lanes' = [lanes EXCEPT ![g] = "digest"]
    /\ UNCHANGED <<asked, pool, guess, history>>

LaneDigest(g) ==
    /\ guess.pc = "kernel" /\ lanes[g] = "digest"
    /\ result' = [result EXCEPT !.digest = Absorbed(Message(NonceOf(g)))]
    /\ lanes' = [lanes EXCEPT ![g] = "done"]
    /\ UNCHANGED <<asked, pool, guess, history>>

\* The host reads the buffer when the whole batch has ended.
Readback ==
    /\ guess.pc = "kernel" /\ \A g \in Lanes : lanes[g] = "done"
    /\ IF result.found
       THEN Answered({[nonce |-> result.nonce, digest |-> result.digest,
                       attempts |-> guess.at + Batch]})
       ELSE guess' = [guess EXCEPT !.pc = "batch", !.at = @ + Batch]
    /\ UNCHANGED <<asked, pool, result, lanes, history>>

GuessStep ==
    \/ Refuse \/ StartPool \/ StartAlone \/ EndPool \/ LoopTry \/ LoopEnd
    \/ Dispatch \/ GiveUp \/ Readback
    \/ \E t \in Threads : TakeNonce(t) \/ TryNonce(t)
    \/ \E g \in Lanes : LaneStart(g) \/ LaneExchange(g) \/ LaneNonce(g) \/ LaneDigest(g)
===============================================================================
