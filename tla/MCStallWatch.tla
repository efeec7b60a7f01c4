---------------------------- MODULE MCStallWatch ----------------------------
(***************************************************************************)
(* An instance of StallWatch for TLC: two lanes, every tail, and the       *)
(* smallest window that is right for all of them.                          *)
(***************************************************************************)
EXTENDS StallWatch

AllTails == {"clean", "junk", "whole"}
=============================================================================
