--------------------------- MODULE MCMiningRange ---------------------------
(***************************************************************************)
(* Two host workers, one GPU of four-lane launches in groups of two, and   *)
(* 64-bit numbers scaled to 0 .. 6.  The calls cover an empty range, one   *)
(* attempt, ranges that are and are not a multiple of the launch, the      *)
(* range that ends at the largest number and one that overflows.           *)
(***************************************************************************)
EXTENDS MiningRange

MCCalls == {<<0, 0>>, <<0, 1>>, <<2, 4>>, <<3, 3>>, <<6, 0>>, <<5, 3>>}

=============================================================================
