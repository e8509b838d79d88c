-------------------------- MODULE MCMiningSession --------------------------
(***************************************************************************)
(* Three tips on both sides of a fork: two below it and one above, at the  *)
(* heights of the real schedule.  Budgets of no batch, of a partial one,   *)
(* of two whole ones and of two and a partial one, up to the largest       *)
(* number.                                                                 *)
(***************************************************************************)
EXTENDS MiningSession, TLC

CONSTANTS t1, t2, t3

Heights(low, high) == t1 :> low @@ t2 :> low @@ t3 :> high

MCTips == {t1, t2, t3}

MCChains == {<<"main", Heights(14999, 15000)>>,
             <<"testnet-0", Heights(3668, 3669)>>,
             <<"regtest", Heights(0, 1)>>,
             <<"testnet-256", Heights(0, 1)>>}

MCLimits == {0, 1, 4, 5}

=============================================================================
