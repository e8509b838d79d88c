---------------------------- MODULE MCProveBatch ----------------------------
(***************************************************************************)
(* Four programs in windows of none, one, two and three threads: all names *)
(* different, and two names that collide.                                  *)
(***************************************************************************)
EXTENDS ProveBatch

MCInputs == {<<"a", "b", "c", "d">>, <<"a", "b", "a", "d">>}

=============================================================================
