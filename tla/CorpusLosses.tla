---------------------------- MODULE CorpusLosses ----------------------------
(***************************************************************************)
(* Corpus with two history variables, so that what torn lines cost over a  *)
(* whole behaviour can be stated: a record that is appended behind a torn  *)
(* one is lost as it is written, and never shows in the ledger.            *)
(***************************************************************************)
EXTENDS Corpus

VARIABLES written,  \* the tests whose append has returned
          tears     \* the appends that were cut short and show in the file

lossVars == <<vars, written, tears>>

\* --fresh begins with an empty file.
Wiped == launches' # launches /\ sup' = "wipe"
Torn == tail' \notin {tail, Clean}

CountsLosses ==
    /\ written' = IF Wiped THEN {} ELSE written \cup Appended
    /\ tears' = IF Wiped THEN 0 ELSE IF Torn THEN tears + 1 ELSE tears

LossesInit == Init /\ written = {} /\ tears = 0
LossesNext == Next /\ CountsLosses
LossesSpec == LossesInit /\ [][LossesNext]_lossVars

(***************************************************************************)
(* Each write cut short costs, besides its own record, at most one that    *)
(* was written: as many finished tests and crash marks are missing from    *)
(* the ledger as appends were torn (corpus-lib.mjs:45-50), over any number *)
(* of restarts.                                                            *)
(***************************************************************************)
TearsCostOneMore == Cardinality(written \ Recorded) <= tears

\* Why: a line that is torn and not yet closed has its loss still to come.
LossesCounted ==
    /\ written \subseteq Tests
    /\ tears \in Nat
    /\ Cardinality({t \in written : ledger[t] = "none"})
         + (IF tail = Clean THEN 0 ELSE 1) <= tears
=============================================================================
