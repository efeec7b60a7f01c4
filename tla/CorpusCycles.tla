---------------------------- MODULE CorpusCycles ----------------------------
(***************************************************************************)
(* Corpus with a history variable that counts the workers the supervisor   *)
(* has launched since it was started, so that the bound that the loop of   *)
(* main obeys can be stated.                                               *)
(***************************************************************************)
EXTENDS Corpus

VARIABLE cycles

CountsCycles == cycles' = IF launches' # launches THEN 0
                          ELSE IF sup = "loop" /\ sup' = "watch" THEN cycles + 1
                          ELSE cycles

CyclesInit == Init /\ cycles = 0
CyclesNext == Next /\ CountsCycles
CyclesSpec == CyclesInit /\ [][CyclesNext]_<<vars, cycles>>

(***************************************************************************)
(* A start of run-corpus.mjs launches at most MAX_NOPROGRESS workers for   *)
(* each test, and MAX_NOPROGRESS more, whatever becomes of them: main's    *)
(* loop (lines 175-205) neither spins on a worker that dies at once nor on *)
(* a test that takes its worker down each time.                            *)
(***************************************************************************)
MaxCycles == (Cardinality(Tests) + 1) * MaxNoProgress
CyclesAreBounded == cycles <= MaxCycles

\* Why: what is left of the budget covers the workers still to come.
Spent ==
    /\ cycles \in Nat /\ cycles <= MaxCycles
    /\ sup = "wipe" \/ (sup \in {"harvest", "mark", "judge"} /\ result = "none")
         => cycles = 0
    /\ sup \in {"watch", "harvest", "mark", "judge"}
         => cycles + Budget(before, noProgress) <= MaxCycles + 1
    /\ sup = "loop"
         => all \subseteq Recorded
            \/ cycles + Budget(Cardinality(Recorded), noProgress) <= MaxCycles
=============================================================================
