---------------------------- MODULE MCIntrospect ----------------------------
(***************************************************************************)
(* An instance of Introspect for TLC: two runs of the matrix and two tests *)
(* have a first, an inner and a last run each; the second launch finds the *)
(* file of the first one.                                                  *)
(***************************************************************************)
EXTENDS Introspect
=============================================================================
