------------------------------ MODULE MCReport ------------------------------
(***************************************************************************)
(* An instance of Report for TLC: three tests, two of them of one module,  *)
(* beside a file that is not a test.                                       *)
(***************************************************************************)
EXTENDS Report

MCWords == <<<<"fs", "open">>, <<"fs", "promises", "read">>, <<"fs", "promises">>>>

Test(s) == [stem |-> s, prefix |-> TRUE, suffix |-> TRUE]
Module(s) == [stem |-> s, prefix |-> TRUE, suffix |-> FALSE]
MCDirs == {{Test(1), Test(2), Test(3)}, {Module(1), Test(2), Test(3)}}

\* A manifest that spells and repeats tests in any way, one of which may not
\* exist, and two filters with a LIMIT.
Bare(s) == [stem |-> s, prefix |-> FALSE, suffix |-> FALSE]
Comment == Bare(0)
MCManifest == <<Bare(3), Comment, Test(1), Test(3), Module(2), Module(3)>>
MCCommands ==
    {[listFile |-> TRUE, manifest |-> MCManifest, filters |-> {{2}}, limit |-> 1],
     [listFile |-> FALSE, manifest |-> <<>>, filters |-> {{2}, {3}}, limit |-> 1]}
=============================================================================
