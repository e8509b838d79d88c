---------------------------- MODULE RangeSearch ----------------------------
(***************************************************************************)
(* What a bounded nonce search promises its caller: every attempt of the   *)
(* half-open range first .. last-1 is handed out at most once, the winner  *)
(* is one of the attempts handed out and is never replaced, and the search *)
(* may answer "none" only when nothing is left to hand out.  Whether the   *)
(* attempts are hashed by host threads, by a GPU or by both is not visible *)
(* here.  A search may also panic (the code does so when the range does    *)
(* not fit in 64 bits or when the GPU returns a nonce that does not win).  *)
(***************************************************************************)
EXTENDS Integers

CONSTANTS Finders,   (* who can find a winner                              *)
          MaxU64     (* the largest attempt number                         *)

VARIABLES range,     (* the attempts of this search                        *)
          untried,   (* the attempts not yet handed out                    *)
          winner,    (* {} or {<<finder, attempt>>}                        *)
          ret        (* "pending", then "found", "none" or "panic"         *)

searchVars == <<range, untried, winner, ret>>

SearchInit ==
    /\ range \in SUBSET (0 .. MaxU64)
    /\ untried = range
    /\ winner = {}
    /\ ret \in {"pending", "panic"}

HandOut ==
    /\ \E S \in SUBSET untried : S # {} /\ untried' = untried \ S
    /\ UNCHANGED <<range, winner, ret>>

Win ==
    /\ winner = {}
    /\ \E f \in Finders, a \in range \ untried : winner' = {<<f, a>>}
    /\ UNCHANGED <<range, untried, ret>>

Answer ==
    /\ ret = "pending"
    /\ \/ winner # {} /\ ret' = "found"
       \/ winner = {} /\ untried = {} /\ ret' = "none"
       \/ ret' = "panic"
    /\ UNCHANGED <<range, untried, winner>>

SearchNext == HandOut \/ Win \/ Answer

SearchSpec == SearchInit /\ [][SearchNext]_searchVars

=============================================================================
