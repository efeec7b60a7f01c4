------------------------------ MODULE MCRunOne ------------------------------
(***************************************************************************)
(* An instance of RunOne for TLC; the constants are given in the cfgs.     *)
(* Grace < Reap < Timeout, as 250 < 3000 < 30000; the clock runs past      *)
(* every timer.                                                            *)
(***************************************************************************)
EXTENDS RunOne
=============================================================================
