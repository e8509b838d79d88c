----------------------------- MODULE ParallelFind -----------------------------
(***************************************************************************)
(* What the searches of `mine` take from rayon: into_par_iter over a range *)
(* and find_any or find_map_any.  The threads of the pool share out the    *)
(* range in any order; each tries what it holds; when one has found an     *)
(* item the others may leave the rest untried; and the call returns, when  *)
(* no thread is at work, one of the items that were found.                 *)
(***************************************************************************)
EXTENDS Naturals

CONSTANT Threads  (* of the pool, from 0                                   *)

VARIABLE pool     (* [pending, held, found, tried]: found and tried are    *)
                  (* sets of <<item, thread>>                              *)

Range0(start, count) == start..start + count - 1

PoolOver(items) ==
    [pending |-> items, held |-> [t \in Threads |-> {}], found |-> {}, tried |-> {}]

Take(t) ==
    /\ pool.held[t] = {}
    /\ \E item \in pool.pending :
          pool' = [pool EXCEPT !.pending = @ \ {item}, !.held = [@ EXCEPT ![t] = {item}]]

\* The item in this thread's hands.
Held(t) == CHOOSE item \in pool.held[t] : TRUE

Try(t, wins) ==
    /\ pool.held[t] # {}
    /\ LET attempt == <<Held(t), t>>
       IN  pool' = [pool EXCEPT !.held = [@ EXCEPT ![t] = {}], !.tried = @ \cup {attempt},
                                !.found = IF wins THEN @ \cup {attempt} ELSE @]

\* The call can return: with any of the found, or with none if there is none.
Returns ==
    /\ \A t \in Threads : pool.held[t] = {}
    /\ pool.pending = {} \/ pool.found # {}
===============================================================================
