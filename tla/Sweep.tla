------------------------------- MODULE Sweep --------------------------------
(***************************************************************************)
(* What a corpus sweep promises, without processes or files: while a sweep *)
(* is running, tests get results, each test at most one; the sweep ends    *)
(* with a report of the results of the tests it was asked for, all of them *)
(* unless it was aborted; it may die at any time, and the next start goes  *)
(* on from the results that are there, or wipes them when it is told to.   *)
(***************************************************************************)
CONSTANT Tests

VARIABLES results,  \* the result of each test, "none" before it has one
          asked,    \* the tests the last sweep was started for
          phase,    \* "idle", "running", "finished" or "aborted"
          report    \* what the last sweep that ended reported

vars == <<results, asked, phase, report>>

Outcomes == {"ran", "killed", "crash"}
Nothing == [t \in Tests |-> "none"]

Init == results = Nothing /\ asked = {} /\ phase = "idle" /\ report = Nothing

Start == /\ phase # "running"
         /\ phase' = "running"
         /\ asked' \in SUBSET Tests
         /\ results' \in {results, Nothing}
         /\ UNCHANGED report

\* Results are written once, and only by a running sweep.
Record(t, s) == /\ phase = "running"
                /\ results[t] = "none"
                /\ results' = [results EXCEPT ![t] = s]
                /\ UNCHANGED <<asked, phase, report>>

End == /\ phase = "running"
       /\ phase' \in {"finished", "aborted"}
       /\ phase' = "finished" => \A t \in asked : results[t] # "none"
       /\ report' = [t \in Tests |-> IF t \in asked THEN results[t] ELSE "none"]
       /\ UNCHANGED <<results, asked>>

Die == /\ phase = "running"
       /\ phase' = "idle"
       /\ UNCHANGED <<results, asked, report>>

Next == \/ Start
        \/ \E t \in Tests, s \in Outcomes : Record(t, s)
        \/ End
        \/ Die

Spec == Init /\ [][Next]_vars

-----------------------------------------------------------------------------
(***************************************************************************)
(* A sweep that has ended reports the results of the tests it was asked    *)
(* for, as they still stand, and of no others; one that has finished has a *)
(* result for each of them (run-corpus.mjs writeOutputs and the loop's     *)
(* condition remaining.length === 0).                                      *)
(***************************************************************************)
ReportIsFinal ==
    /\ phase \in {"finished", "aborted"} =>
          report = [t \in Tests |-> IF t \in asked THEN results[t] ELSE "none"]
    /\ phase = "finished" => \A t \in asked : report[t] # "none"
=============================================================================
