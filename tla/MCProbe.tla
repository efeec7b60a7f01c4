------------------------------ MODULE MCProbe ------------------------------
(***************************************************************************)
(* An instance of Probe for TLC: both gc loops, in one block, and a block  *)
(* for each of the kinds "modules" and "sync".  The kind "hooks" does no   *)
(* more than one of "modules" that returns before its first await.         *)
(***************************************************************************)
EXTENDS Probe

MCKinds == <<"gc", "gc", "modules", "sync">>
MCHeads == {1, 3, 4}
=============================================================================
