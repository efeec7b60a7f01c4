---------------------------- MODULE ProgressFile ----------------------------
(***************************************************************************)
(* progress.jsonl, the resume ledger of the corpus sweep: one JSON line    *)
(* per finished test, appended by the worker and by the supervisor and     *)
(* read back by both (corpus-lib.mjs, readLedger).                         *)
(*                                                                         *)
(* A test is its position in the sorted test list.  The lines that end in  *)
(* a newline are summed up by what readLedger makes of them: the last      *)
(* status of each test.  What follows the last newline is kept apart in    *)
(* tail, because the next append lands on the same line: JSON.parse then   *)
(* sees two records in one line, or half a record and a whole one, and     *)
(* drops the line.                                                         *)
(***************************************************************************)
EXTENDS Naturals, FiniteSets

CONSTANT Tests      \* the tests of test/parallel, by position in sort order

ASSUME TestsAssumption == Tests \subseteq Nat \ {0} /\ IsFiniteSet(Tests)

VARIABLES ledger,   \* last status of each test among the complete lines
          tail      \* the unterminated last line

fileVars == <<ledger, tail>>

\* How a test ends in the ledger: its process ended by itself (pass, fail,
\* skip), it was killed at the per-test cap (timeout), or the supervisor
\* marked it.
Outcomes == {"ran", "killed", "crash"}
Statuses == Outcomes \cup {"none"}

Clean == [test |-> 0, status |-> "none"]    \* the file ends in a newline
Junk  == [test |-> 0, status |-> "junk"]    \* it ends in something JSON.parse rejects
Tails == {Clean, Junk} \cup [test : Tests, status : Outcomes]

FileTypeOK == /\ ledger \in [Tests -> Statuses]
              /\ tail \in Tails

NoRecords == [t \in Tests |-> "none"]

EmptyFile == ledger = NoRecords /\ tail = Clean

\* The Map the program works with: a whole record without its newline parses.
readLedger == [t \in Tests |-> IF t = tail.test THEN tail.status ELSE ledger[t]]

Recorded == {t \in Tests : readLedger[t] # "none"}

\* appendFileSync(progressPath, JSON.stringify(rec) + "\n"), completed.
\* (Unended: without the newline.)
appendLineUnended(t, s) ==
    /\ tail' = IF tail = Clean THEN [test |-> t, status |-> s] ELSE Junk
    /\ UNCHANGED ledger
appendLine(t, s) ==
    /\ tail' = Clean
    /\ ledger' = IF tail = Clean THEN [ledger EXCEPT ![t] = s] ELSE ledger

\* The same append, cut off by the death of the process: part of the record,
\* or all of it but the newline.
tearLine(t, s) ==
    /\ tail' \in {Junk} \cup IF tail = Clean THEN {[test |-> t, status |-> s]} ELSE {}
    /\ UNCHANGED ledger

\* rmSync(progressPath), the effect of --fresh.
wipeFile == ledger' = NoRecords /\ tail' = Clean
=============================================================================
