-------------------------- MODULE RefinementProofs --------------------------
(***************************************************************************)
(* Proofs about what the ledger of Corpus goes through.  First that the    *)
(* supervisor, the workers and the files implement Sweep, whatever stalls, *)
(* dies, restarts or fails to spawn: as long as nobody stops the           *)
(* supervisor under a running worker (the run ctrl_c shows what goes wrong *)
(* then), and no append to the ledger is torn.  Then what is left where    *)
(* appends are torn, and that a harvest steps over poison tests.           *)
(***************************************************************************)
EXTENDS CorpusProofs, CorpusCycles, CorpusLosses, ProgressLines

USE TestsAssumption, CorpusAssumption

\* What has been chosen to be marked has no record yet, and is marked before
\* the supervisor goes on.
TargetsAreNew == /\ targets \cap Recorded = {}
                 /\ sup # "mark" => targets = {}

\* On top of OneWriter.
Untorn == tail = Clean /\ TargetsAreNew

\* A clean file reads as what its complete lines say.
LEMMA CleanReads ==
    /\ FileTypeOK /\ tail = Clean => readLedger = ledger
    /\ FileTypeOK' /\ tail' = Clean => readLedger' = ledger'
<1>1. \A t \in Tests : t # 0
  BY DEF TestsAssumption
<1>2. ASSUME FileTypeOK, tail = Clean PROVE readLedger = ledger
  <2>1. ledger \in [Tests -> Statuses] /\ tail.test = 0
    BY <1>2 DEF FileTypeOK, Clean
  <2>2. readLedger = [t \in Tests |-> ledger[t]]
    BY <1>1, <2>1 DEF readLedger
  <2> QED
    BY <2>1, <2>2
<1>3. ASSUME FileTypeOK', tail' = Clean PROVE readLedger' = ledger'
  <2>1. ledger' \in [Tests -> Statuses] /\ tail'.test = 0
    BY <1>3 DEF FileTypeOK, Clean
  <2>2. readLedger' = [t \in Tests |-> ledger'[t]]
    BY <1>1, <2>1 DEF readLedger
  <2> QED
    BY <2>1, <2>2
<1> QED
  BY <1>2, <1>3

\* A file that is not written reads as before.
LEMMA UnchangedReads == UNCHANGED fileVars => readLedger' = readLedger
BY DEF fileVars, readLedger

\* An append to a clean file is read back, and so is what was there.
LEMMA AppendIsRead ==
    ASSUME FileTypeOK, tail = Clean, NEW t \in Tests, NEW s \in Outcomes, appendLine(t, s)
    PROVE  Recorded \cup {t} \subseteq Recorded'
<1>1. 0 \notin Tests
  BY DEF TestsAssumption
<1>2. tail' = Clean /\ ledger' = [ledger EXCEPT ![t] = s]
  BY DEF appendLine
<1> QED
  BY <1>1, <1>2 DEF Recorded, readLedger, Clean, FileTypeOK, Outcomes

\* Without torn writes a death leaves the ledger as it is.
LEMMA NothingCut ==
    ASSUME "tear" \notin Faults, NEW W, NEW s, CutWrites(W, s)
    PROVE  UNCHANGED fileVars
BY DEF CutWrites

\* The invariant holds at the start.
LEMMA InitUntorn == Init => Untorn
BY DEF Init, EmptyFile, Untorn, TargetsAreNew

\* A worker takes a step only while it lives, and then nothing is to be marked.
LEMMA NothingToMark ==
    ASSUME OneWriter, TargetsAreNew, NEW w \in Workers, WorkerStep(w) \/ WorkerDies(w)
    PROVE  sup = "watch" /\ child = w /\ Alive(w) /\ targets = {} /\ UNCHANGED supVars
<1>1. Alive(w)
  BY DEF WorkerStep, Alive, Boot, Take, Exit, NoMoreWork, Idle, SpawnTest, SpawnTestFails,
         NotePid, Settle, SettleKilled, AppendRecord, ClearEntry, WorkerDies
<1>2. sup = "watch" /\ child = w
  BY <1>1 DEF OneWriter, Alone
<1>3. UNCHANGED supVars
  BY DEF WorkerStep, Boot, Take, Exit, SpawnTest, SpawnTestFails, NotePid, Settle,
         SettleKilled, AppendRecord, ClearEntry, WorkerDies
<1> QED
  BY <1>1, <1>2, <1>3 DEF TargetsAreNew

\* The worker leaves the supervisor where it is, the environment may stop it.
LEMMA OthersKeepSup ==
    /\ \A w \in Workers : WorkerStep(w) => sup' = sup
    /\ Environment => sup' \in {sup, "off"}
<1>1. ASSUME NEW w \in Workers, WorkerStep(w) PROVE sup' = sup
  BY <1>1 DEF WorkerStep, Boot, Take, Exit, SpawnTest, SpawnTestFails, NotePid, Settle,
              SettleKilled, AppendRecord, ClearEntry, supVars
<1>2. CtrlC \/ spawnWorkerFails \/ Restart => sup' = "off"
  BY DEF CtrlC, spawnWorkerFails, Restart, SupGone
<1>3. \A w \in Workers : Wedge(w) \/ WorkerDies(w) => sup' = sup
  BY DEF Wedge, WorkerDies, supVars
<1>4. (\E p \in Pids : OrphanEnds(p)) \/ (\E t \in Tests : Vanish(t)) => sup' = sup
  BY DEF OrphanEnds, Vanish, supVars
<1> QED
  BY <1>1, <1>2, <1>3, <1>4 DEF Environment

\* And every step keeps it, torn writes included: one step per action, or per
\* kind of action.
LEMMA NextTargets ==
    ASSUME "ctrlC" \notin Faults
    PROVE  TypeOK /\ OneWriter /\ TargetsAreNew /\ [Next]_vars => TargetsAreNew'
<1> SUFFICES ASSUME TypeOK, OneWriter, TargetsAreNew, [Next]_vars PROVE TargetsAreNew'
  OBVIOUS
<1>0. ASSUME targets' = {} PROVE TargetsAreNew'
  BY <1>0 DEF TargetsAreNew
<1>1. CASE UNCHANGED vars
  BY <1>1 DEF vars, TargetsAreNew, Recorded, readLedger
<1>2. CASE Start
  BY <1>0, <1>2 DEF Start, Launch, TargetsAreNew
<1>3. ASSUME NEW w \in Workers, WorkerStep(w) \/ WorkerDies(w) PROVE TargetsAreNew'
  BY <1>0, <1>3, NothingToMark DEF supVars
<1>4. CASE harvestInflight
  <2>1. UNCHANGED fileVars /\ sup' = "mark" /\ targets' = Blamed(Unfinished)
    BY <1>4 DEF harvestInflight
  <2>2. Unfinished \subseteq Tests \ Recorded
    BY DEF Unfinished, TypeOK
  <2>3. Blamed(Unfinished) \subseteq Unfinished
    <3>1. Unfinished # {} => Min(Unfinished) \in Unfinished
      BY <2>2, MinIsAMember
    <3> QED
      BY <3>1 DEF Blamed
  <2>4. Recorded' = Recorded
    BY <2>1, UnchangedRecords
  <2> QED
    BY <2>1, <2>2, <2>3, <2>4 DEF TargetsAreNew
<1>5. CASE MarkCrash
  <2>1. /\ appendLine(Min(targets), "crash") /\ sup = "mark" /\ sup' = sup
        /\ targets' = targets \ {Min(targets)}
    BY <1>5 DEF MarkCrash
  <2>2. Min(targets) \in Tests
    BY <1>5, MinIsAMember DEF MarkCrash, TypeOK
  <2>3. Recorded' \subseteq Recorded \cup {Min(targets)}
    BY <2>1, <2>2, AppendAddsOne DEF TypeOK, Outcomes
  <2> QED
    BY <2>1, <2>3 DEF TargetsAreNew
<1>6. CASE \/ WipeInflight \/ clearInflight \/ Continue \/ GiveUp \/ Finish \/ Stall
           \/ ChildExit \/ \E w \in Workers : spawnWorker(w)
  <2>1. UNCHANGED targets /\ (sup # "mark" \/ targets = {})
    BY <1>6 DEF WipeInflight, clearInflight, Continue, GiveUp, Finish, Stall, ChildExit,
                Returned, spawnWorker
  <2> QED
    BY <1>0, <2>1 DEF TargetsAreNew
<1>7. CASE Environment /\ ~\E w \in Workers : WorkerDies(w)
  <2>1. CASE spawnWorkerFails \/ Restart
    BY <1>0, <2>1 DEF spawnWorkerFails, Restart, SupGone
  <2>2. ASSUME UNCHANGED <<fileVars, supVars>> PROVE TargetsAreNew'
    BY <2>2, UnchangedRecords DEF TargetsAreNew, supVars
  <2> QED
    BY <1>7, <2>1, <2>2 DEF Environment, CtrlC, Wedge, OrphanEnds, Vanish
<1> QED
  BY <1>1, <1>2, <1>3, <1>4, <1>5, <1>6, <1>7 DEF Next, SupStep, Environment

\* Where no write is torn, the file ends in a newline.
LEMMA NextClean ==
    ASSUME "tear" \notin Faults
    PROVE  tail = Clean /\ [Next]_vars => tail' = Clean
<1> SUFFICES ASSUME tail = Clean, [Next]_vars PROVE tail' = Clean
  OBVIOUS
<1>1. CASE UNCHANGED fileVars \/ wipeFile \/ \E t, s : appendLine(t, s)
  BY <1>1 DEF fileVars, wipeFile, appendLine
<1>2. CASE \E W, s : CutWrites(W, s)
  BY <1>1, <1>2, NothingCut
<1>3. CASE UNCHANGED vars
  BY <1>3 DEF vars
<1>4. CASE Start \/ SupStep
  BY <1>1, <1>2, <1>4
     DEF Start, Launch, SupStep, WipeInflight, harvestInflight, MarkCrash, clearInflight,
         Continue, GiveUp, Finish, Stall, ChildExit, spawnWorker
<1>5. CASE \E w \in Workers : WorkerStep(w)
  BY <1>1, <1>5
     DEF WorkerStep, Boot, Take, Exit, SpawnTest, SpawnTestFails, NotePid, Settle,
         SettleKilled, AppendRecord, ClearEntry
<1>6. CASE Environment
  BY <1>1, <1>2, <1>6
     DEF Environment, CtrlC, spawnWorkerFails, Restart, Wedge, WorkerDies, OrphanEnds, Vanish
<1> QED
  BY <1>3, <1>4, <1>5, <1>6 DEF Next

LEMMA NextUntorn ==
    ASSUME "ctrlC" \notin Faults, "tear" \notin Faults
    PROVE  TypeOK /\ OneWriter /\ Untorn /\ [Next]_vars => Untorn'
BY NextTargets, NextClean DEF Untorn

(***************************************************************************)
(* Where the test chosen by the writer has no record, an append is the     *)
(* abstract Record.                                                        *)
(***************************************************************************)
LEMMA AppendRecords ==
    ASSUME TypeOK, FileTypeOK', Untorn, NEW t \in Tests, t \notin Recorded, NEW s \in Outcomes,
           appendLine(t, s), Phase = "running", UNCHANGED <<all, sup, report>>
    PROVE  Abstract!Next
<1>1. readLedger = ledger /\ readLedger' = ledger'
  BY CleanReads DEF TypeOK, Untorn, appendLine
<1>2. readLedger[t] = "none"
  BY DEF Recorded
<1>3. readLedger' = [readLedger EXCEPT ![t] = s]
  BY <1>1 DEF appendLine, Untorn
<1>4. Phase' = Phase
  BY DEF Phase
<1>5. Abstract!Record(t, s)
  BY <1>2, <1>3, <1>4 DEF Abstract!Record
<1>6. s \in Abstract!Outcomes
  BY DEF Abstract!Outcomes, Outcomes
<1> QED
  BY <1>5, <1>6 DEF Abstract!Next

\* The initial state is one of the abstract sweep.
LEMMA InitImplements == Init => Abstract!Init
<1> SUFFICES ASSUME Init PROVE Abstract!Init
  OBVIOUS
<1>1. readLedger = NoRecords
  <2>1. \A t \in Tests : t # 0
    BY DEF TestsAssumption
  <2> QED
    BY <2>1 DEF Init, EmptyFile, NoRecords, Clean, readLedger
<1> QED
  BY <1>1 DEF Init, Abstract!Init, Abstract!Nothing, NoRecords, Phase

\* What the abstract sweep does not see.
LEMMA Stutters ==
    ASSUME UNCHANGED <<fileVars, all, report>>, Phase' = Phase
    PROVE  UNCHANGED Abstract!vars
BY UnchangedReads DEF Abstract!vars

\* The start of the supervisor is the abstract Start.
LEMMA StartImplements == TypeOK /\ Start => Abstract!Next
<1> SUFFICES ASSUME TypeOK, Start PROVE Abstract!Start
  BY DEF Abstract!Next
<1>1. PICK selection \in Selections, fresh \in BOOLEAN : Launch(selection, fresh)
  BY DEF Start
<1>2. Phase # "running" /\ Phase' = "running"
  BY <1>1 DEF Launch, Phase
<1>3. all' \in SUBSET Tests
  BY <1>1 DEF Launch, resolveTestSet, TypeOK
<1>4. readLedger' \in {readLedger, Abstract!Nothing}
  <2>1. CASE fresh
    <3>1. \A t \in Tests : t # 0
      BY DEF TestsAssumption
    <3>2. readLedger' = NoRecords
      BY <1>1, <2>1, <3>1 DEF Launch, wipeFile, NoRecords, Clean, readLedger
    <3> QED
      BY <3>2 DEF NoRecords, Abstract!Nothing
  <2>2. CASE ~fresh
    BY <1>1, <2>2, UnchangedReads DEF Launch
  <2> QED
    BY <2>1, <2>2
<1> QED
  BY <1>1, <1>2, <1>3, <1>4 DEF Launch, Abstract!Start

\* Of the steps of a worker only the append is one of the abstract sweep.
LEMMA WorkerImplements ==
    ASSUME TypeOK, FileTypeOK', OneWriter, Untorn, NEW w \in Workers, WorkerStep(w)
    PROVE  [Abstract!Next]_(Abstract!vars)
<1>1. Alive(w)
  BY DEF WorkerStep, Alive, Boot, Take, Exit, NoMoreWork, Idle, SpawnTest,
         SpawnTestFails, NotePid, Settle, SettleKilled, AppendRecord, ClearEntry
<1>2. sup = "watch" /\ UNCHANGED supVars
  BY <1>1 DEF OneWriter, Alone, WorkerStep, Boot, Take, Exit, SpawnTest, SpawnTestFails,
              NotePid, Settle, SettleKilled, AppendRecord, ClearEntry
<1>3. Phase = "running" /\ Phase' = Phase /\ UNCHANGED <<all, sup, report>>
  BY <1>2 DEF Phase, supVars
<1>4. ASSUME NEW t \in Tests, AppendRecord(w, t) PROVE Abstract!Next
  <2>1. stage[w][t] \in Outcomes /\ t \notin Recorded /\ appendLine(t, stage[w][t])
    BY <1>4 DEF AppendRecord, Outcomes, OneWriter, NotYetRecorded, Begun
  <2> QED
    BY <1>3, <2>1, AppendRecords
<1>5. CASE UNCHANGED fileVars
  BY <1>3, <1>5, Stutters
<1> QED
  BY <1>4, <1>5 DEF WorkerStep, Boot, Take, Exit, SpawnTest, SpawnTestFails, NotePid,
                    Settle, SettleKilled, ClearEntry

\* Of those of the supervisor, the crash marks and the end.
LEMMA SupImplements ==
    ASSUME "tear" \notin Faults, TypeOK, FileTypeOK', Untorn, SupStep
    PROVE  [Abstract!Next]_(Abstract!vars)
<1>1. CASE MarkCrash
  <2>1. Min(targets) \in Tests /\ Min(targets) \in targets
    BY <1>1, MinIsAMember DEF MarkCrash, TypeOK
  <2>2. Min(targets) \notin Recorded
    BY <2>1 DEF Untorn, TargetsAreNew
  <2>3. Phase = "running" /\ UNCHANGED <<all, sup, report>>
    BY <1>1 DEF MarkCrash, Phase
  <2>4. appendLine(Min(targets), "crash") /\ "crash" \in Outcomes
    BY <1>1 DEF MarkCrash, Outcomes
  <2> QED
    BY <2>1, <2>2, <2>3, <2>4, AppendRecords
<1>2. CASE GiveUp \/ Finish
  <2>1. Phase = "running" /\ Phase' \in {"finished", "aborted"}
    BY <1>2 DEF GiveUp, Finish, Phase
  <2>2. UNCHANGED <<fileVars, all>> /\ writeOutputs
    BY <1>2 DEF GiveUp, Finish
  <2>3. Phase' = "finished" => \A t \in all : readLedger[t] # "none"
    BY <1>2 DEF GiveUp, Finish, Phase, Recorded
  <2>4. readLedger' = readLedger
    BY <2>2, UnchangedReads
  <2>5. Abstract!End
    BY <2>1, <2>2, <2>3, <2>4 DEF Abstract!End, writeOutputs
  <2> QED
    BY <2>5 DEF Abstract!Next
<1>3. CASE \/ WipeInflight \/ harvestInflight \/ clearInflight \/ Continue \/ ChildExit
           \/ \E w \in Workers : spawnWorker(w)
  <2>1. Phase = "running" /\ Phase' = "running"
    BY <1>3 DEF WipeInflight, harvestInflight, clearInflight, Continue, ChildExit,
                spawnWorker, Phase
  <2>2. UNCHANGED <<fileVars, all, report>>
    BY <1>3 DEF WipeInflight, harvestInflight, clearInflight, Continue, ChildExit,
                spawnWorker, Returned
  <2> QED
    BY <2>1, <2>2, Stutters
<1>4. CASE Stall
  <2>1. UNCHANGED <<fileVars, all, report>> /\ Phase = "running" /\ Phase' = "running"
    BY <1>4, NothingCut DEF Stall, Returned, Phase
  <2> QED
    BY <2>1, Stutters
<1> QED
  BY <1>1, <1>2, <1>3, <1>4 DEF SupStep

\* A container restart and a failed spawn of a worker are the abstract Die.
LEMMA EnvironmentImplements ==
    ASSUME "ctrlC" \notin Faults, "tear" \notin Faults, TypeOK, OneWriter, Environment
    PROVE  [Abstract!Next]_(Abstract!vars)
<1>1. CASE spawnWorkerFails \/ Restart
  <2>1. SupRuns
    BY <1>1 DEF spawnWorkerFails, Restart, SupRuns, OneWriter, Alone
  <2>2. Phase = "running" /\ Phase' = "idle"
    BY <1>1, <2>1 DEF SupRuns, Phase, spawnWorkerFails, Restart, SupGone
  <2>3. UNCHANGED <<fileVars, all, report>>
    BY <1>1, NothingCut DEF spawnWorkerFails, Restart, SupGone
  <2>4. Abstract!Die
    BY <2>2, <2>3, UnchangedReads DEF Abstract!Die
  <2> QED
    BY <2>4 DEF Abstract!Next
<1>2. ASSUME UNCHANGED <<fileVars, supVars>> PROVE [Abstract!Next]_(Abstract!vars)
  <2>1. UNCHANGED <<fileVars, all, report>> /\ Phase' = Phase
    BY <1>2 DEF supVars, Phase
  <2> QED
    BY <2>1, Stutters
<1>3. ASSUME NEW w \in Workers, WorkerDies(w) PROVE UNCHANGED <<fileVars, supVars>>
  BY <1>3, NothingCut DEF WorkerDies
<1> QED
  BY <1>1, <1>2, <1>3 DEF Environment, CtrlC, Wedge, OrphanEnds, Vanish

(***************************************************************************)
(* The detailed system implements the abstract one: results are written    *)
(* once and by a running sweep only, a sweep that finishes has a result    *)
(* for every test it was asked for, and its report is the ledger's, with   *)
(* containers that restart, workers that die or wedge, spawns and kills    *)
(* that fail and files that vanish.                                        *)
(***************************************************************************)
THEOREM SystemImplementsSweep ==
    ASSUME "ctrlC" \notin Faults, "tear" \notin Faults
    PROVE  Spec => ImplementsSweep
<1>1. Init => Untorn /\ Abstract!Init
  BY InitUntorn, InitImplements
<1>2. TypeOK /\ OneWriter /\ Untorn /\ [Next]_vars => Untorn'
  BY NextUntorn
<1>3. TypeOK /\ TypeOK' /\ OneWriter /\ Untorn /\ [Next]_vars
        => [Abstract!Next]_(Abstract!vars)
  <2> SUFFICES ASSUME TypeOK, TypeOK', OneWriter, Untorn, [Next]_vars
               PROVE  [Abstract!Next]_(Abstract!vars)
    OBVIOUS
  <2>1. CASE UNCHANGED vars
    <3>1. UNCHANGED <<fileVars, all, report>> /\ Phase' = Phase
      BY <2>1 DEF vars, fileVars, Phase
    <3> QED
      BY <3>1, Stutters
  <2>2. FileTypeOK'
    BY DEF TypeOK
  <2> QED
    BY <2>1, <2>2, StartImplements, WorkerImplements, SupImplements, EnvironmentImplements
       DEF Next
<1> QED
  BY <1>1, <1>2, <1>3, SingleWriter, TypeCorrect, PTL DEF Spec, ImplementsSweep, Abstract!Spec

(***************************************************************************)
(* What the abstract sweep promises of its report holds of the detailed    *)
(* system: the report of a sweep that has ended is what the ledger still   *)
(* says of the tests in ALL, and a finished one leaves none of them out.   *)
(***************************************************************************)
THEOREM FinishedReportIsComplete ==
    ASSUME "ctrlC" \notin Faults, "tear" \notin Faults
    PROVE  Spec => []Abstract!ReportIsFinal
<1>1. Abstract!Init => Abstract!ReportIsFinal
  BY DEF Abstract!Init, Abstract!ReportIsFinal
<1>2. TypeOK /\ Abstract!ReportIsFinal /\ [Abstract!Next]_(Abstract!vars)
        => Abstract!ReportIsFinal'
  <2> SUFFICES ASSUME TypeOK, Abstract!ReportIsFinal, [Abstract!Next]_(Abstract!vars)
               PROVE  Abstract!ReportIsFinal'
    OBVIOUS
  <2>1. CASE Abstract!End
    <3>1. all \subseteq Tests
      BY DEF TypeOK
    <3>2. /\ report' = [t \in Tests |-> IF t \in all THEN readLedger[t] ELSE "none"]
          /\ readLedger' = readLedger /\ all' = all
          /\ Phase' = "finished" => \A t \in all : readLedger[t] # "none"
      BY <2>1 DEF Abstract!End
    <3> QED
      BY <3>1, <3>2 DEF Abstract!ReportIsFinal
  <2>2. CASE Abstract!Start \/ Abstract!Die \/ \E t \in Tests, s \in Abstract!Outcomes : Abstract!Record(t, s)
    BY <2>2 DEF Abstract!Start, Abstract!Die, Abstract!Record, Abstract!ReportIsFinal
  <2>3. CASE UNCHANGED Abstract!vars
    BY <2>3 DEF Abstract!vars, Abstract!ReportIsFinal
  <2> QED
    BY <2>1, <2>2, <2>3 DEF Abstract!Next
<1>3. Spec => Abstract!Init /\ [][Abstract!Next]_(Abstract!vars)
  BY SystemImplementsSweep DEF ImplementsSweep, Abstract!Spec
<1> QED
  BY <1>1, <1>2, <1>3, TypeCorrect, PTL

-----------------------------------------------------------------------------
(* What a torn line costs.  A step does one thing to the ledger at most.   *)

Appends == \E t \in Tests, s \in Outcomes : appendLine(t, s)
Tears == \E t \in Tests, s \in Outcomes : tearLine(t, s)

LEMMA CutTears ==
    ASSUME TypeOK, NEW W, NEW s, CutWrites(W, s)
    PROVE  UNCHANGED fileVars \/ Tears
<1>1. \A w \in W : \A t \in At(w, {"ran", "killed"}) : t \in Tests /\ stage[w][t] \in Outcomes
  BY DEF At, Outcomes
<1>2. targets # {} => Min(targets) \in Tests
  BY MinIsAMember DEF TypeOK
<1>3. CASE \E w \in W : \E t \in At(w, {"ran", "killed"}) : tearLine(t, stage[w][t])
  BY <1>1, <1>3 DEF Tears
<1>4. CASE targets # {} /\ tearLine(Min(targets), "crash")
  BY <1>2, <1>4 DEF Tears, Outcomes
<1> QED
  BY <1>3, <1>4 DEF CutWrites

LEMMA OneWrite ==
    ASSUME TypeOK, [Next]_vars
    PROVE  \/ UNCHANGED fileVars \/ Appends \/ Tears
           \/ wipeFile /\ launches' # launches
<1>1. CASE UNCHANGED vars
  BY <1>1 DEF vars, fileVars
<1>2. CASE Start
  <2>1. launches' = launches + 1 /\ launches \in Nat
    BY <1>2 DEF Start, Launch, TypeOK
  <2> QED
    BY <1>2, <2>1 DEF Start, Launch
<1>3. CASE MarkCrash
  <2>1. Min(targets) \in Tests
    BY <1>3, MinIsAMember DEF MarkCrash, TypeOK
  <2> QED
    BY <1>3, <2>1 DEF MarkCrash, Appends, Outcomes
<1>4. CASE SupStep /\ ~MarkCrash
  BY <1>4, CutTears
     DEF SupStep, WipeInflight, harvestInflight, clearInflight, Continue, GiveUp, Finish,
         Stall, ChildExit, spawnWorker
<1>5. CASE \E w \in Workers : WorkerStep(w)
  BY <1>5
     DEF WorkerStep, Boot, Take, Exit, SpawnTest, SpawnTestFails, NotePid, Settle,
         SettleKilled, AppendRecord, ClearEntry, Appends, Outcomes
<1>6. CASE Environment
  BY <1>6, CutTears
     DEF Environment, CtrlC, spawnWorkerFails, Restart, Wedge, WorkerDies, OrphanEnds, Vanish
<1> QED
  BY <1>1, <1>2, <1>3, <1>4, <1>5, <1>6 DEF Next

\* A step that is not a start loses the record without its newline at most.
LEMMA LosesOneAtMost ==
    ASSUME TypeOK, [Next]_vars, launches' = launches
    PROVE  Recorded \ Recorded' \subseteq {tail.test}
<1> SUFFICES ASSUME NEW u \in Recorded, u \notin Recorded', u # tail.test
             PROVE  FALSE
  OBVIOUS
<1>1. u \in Tests /\ ledger[u] # "none" /\ u # 0
  BY DEF Recorded, readLedger, TestsAssumption
<1>2. CASE UNCHANGED fileVars
  BY <1>2, UnchangedRecords
<1>3. CASE Appends
  <2>1. PICK t \in Tests, s \in Outcomes : appendLine(t, s)
    BY <1>3 DEF Appends
  <2>2. tail'.test = 0 /\ ledger'[u] # "none"
    BY <1>1, <2>1 DEF appendLine, Clean, Outcomes, TypeOK, FileTypeOK
  <2> QED
    BY <1>1, <2>2 DEF Recorded, readLedger
<1>4. CASE Tears
  <2>1. PICK t \in Tests, s \in Outcomes : tearLine(t, s)
    BY <1>4 DEF Tears
  <2>2. ledger' = ledger /\ (tail'.test = 0 \/ (tail'.test = t /\ tail'.status = s))
    BY <2>1 DEF tearLine, Junk
  <2> QED
    BY <1>1, <2>2 DEF Recorded, readLedger, Outcomes
<1> QED
  BY <1>2, <1>3, <1>4, OneWrite

\* What has been appended when a step is over was written to the file in it.
LEMMA OneAppend ==
    ASSUME TypeOK, [Next]_vars
    PROVE  \/ Appended = {}
           \/ /\ \E t \in Tests, s \in Outcomes : appendLine(t, s) /\ Appended \subseteq {t}
              /\ launches' = launches
<1>1. CASE UNCHANGED vars
  BY <1>1 DEF vars, Appended
<1>2. CASE Start
  BY <1>2 DEF Start, Launch, workerVars, Appended
<1>3. CASE MarkCrash
  <2>1. Min(targets) \in Tests
    BY <1>3, MinIsAMember DEF MarkCrash, TypeOK
  <2>2. Appended \subseteq {Min(targets)}
    BY <1>3 DEF MarkCrash, workerVars, Appended
  <2> QED
    BY <1>3, <2>1, <2>2 DEF MarkCrash, Outcomes, envVars
<1>4. CASE \E w \in Workers, t \in Tests : AppendRecord(w, t)
  <2>1. PICK w \in Workers, t \in Tests : AppendRecord(w, t)
    BY <1>4
  <2>2. Appended \subseteq {t}
    BY <2>1 DEF AppendRecord, supVars, Appended, TypeOK
  <2>3. stage[w][t] \in Outcomes
    BY <2>1 DEF AppendRecord, Outcomes
  <2> QED
    BY <2>1, <2>2, <2>3 DEF AppendRecord, envVars
<1>5. CASE SupStep /\ ~MarkCrash
  <2>1. \A v \in Workers, t \in Tests : stage'[v][t] # stage[v][t] => stage'[v][t] \in {"todo", "out"}
    <3>1. CASE \E w \in Workers : spawnWorker(w)
      BY <3>1 DEF spawnWorker, TypeOK
    <3>2. CASE Stall
      BY <3>2 DEF Stall, Bury, TypeOK
    <3>3. UNCHANGED stage \/ Stall \/ \E w \in Workers : spawnWorker(w)
      BY <1>5
         DEF SupStep, WipeInflight, harvestInflight, clearInflight, Continue, GiveUp, Finish,
             ChildExit, workerVars
    <3> QED
      BY <3>1, <3>2, <3>3
  <2>2. sup = "mark" => sup' # "mark"
    BY <1>5
       DEF SupStep, WipeInflight, harvestInflight, clearInflight, Continue, GiveUp, Finish,
           Stall, ChildExit, spawnWorker
  <2> QED
    BY <2>1, <2>2 DEF Appended
<1>6. CASE \E w \in Workers :
             \/ Boot(w) \/ Take(w) \/ Exit(w)
             \/ \E t \in Tests : \/ SpawnTest(w, t) \/ SpawnTestFails(w, t) \/ NotePid(w, t)
                                 \/ Settle(w, t) \/ SettleKilled(w, t) \/ ClearEntry(w, t)
  <2>1. PICK w \in Workers :
             \/ Boot(w) \/ Take(w) \/ Exit(w)
             \/ \E t \in Tests : \/ SpawnTest(w, t) \/ SpawnTestFails(w, t) \/ NotePid(w, t)
                                 \/ Settle(w, t) \/ SettleKilled(w, t) \/ ClearEntry(w, t)
    BY <1>6
  <2>2. \A v \in Workers, t \in Tests : stage'[v][t] # stage[v][t] => stage'[v][t] # "appended"
    <3>1. CASE Boot(w) \/ Take(w) \/ Exit(w)
      BY <3>1 DEF Boot, Take, Exit, TypeOK
    <3>2. CASE \E t \in Tests : \/ SpawnTest(w, t) \/ SpawnTestFails(w, t) \/ NotePid(w, t)
                                \/ Settle(w, t) \/ SettleKilled(w, t) \/ ClearEntry(w, t)
      BY <3>2
         DEF SpawnTest, SpawnTestFails, NotePid, Settle, SettleKilled, ClearEntry, TypeOK
    <3> QED
      BY <2>1, <3>1, <3>2
  <2>3. UNCHANGED <<sup, targets>>
    BY <2>1
       DEF Boot, Take, Exit, SpawnTest, SpawnTestFails, NotePid, Settle, SettleKilled,
           ClearEntry, supVars
  <2> QED
    BY <2>2, <2>3 DEF Appended
<1>7. CASE Environment
  <2>1. \A v \in Workers, t \in Tests : stage'[v][t] # stage[v][t] => stage'[v][t] = "out"
    <3>1. CASE Restart
      BY <3>1 DEF Restart, Bury, TypeOK
    <3>2. CASE \E w \in Workers : WorkerDies(w)
      BY <3>2 DEF WorkerDies, Bury, TypeOK
    <3>3. UNCHANGED stage \/ Restart \/ \E w \in Workers : WorkerDies(w)
      BY <1>7
         DEF Environment, CtrlC, spawnWorkerFails, Wedge, OrphanEnds, Vanish, workerVars
    <3> QED
      BY <3>1, <3>2, <3>3
  <2>2. sup' = "mark" => UNCHANGED targets
    BY <1>7
       DEF Environment, CtrlC, spawnWorkerFails, Restart, Wedge, WorkerDies, OrphanEnds,
           Vanish, SupGone, supVars
  <2> QED
    BY <2>1, <2>2 DEF Appended
<1> QED
  BY <1>1, <1>2, <1>3, <1>4, <1>5, <1>6, <1>7 DEF Next, WorkerStep

\* An append that is lost was written behind a torn line, which it ends.
LEMMA LostBehindTornLine ==
    ASSUME TypeOK, NEW t \in Tests, NEW s \in Outcomes, appendLine(t, s), t \notin Recorded'
    PROVE  tail # Clean /\ tail' = Clean
<1>1. CASE tail = Clean
  BY <1>1, AppendIsRead DEF TypeOK
<1> QED
  BY <1>1 DEF appendLine

(***************************************************************************)
(* A torn line costs two records at most, the torn one and the next one to *)
(* be appended, under all faults, Ctrl-C and two supervisors' workers      *)
(* included.                                                               *)
(***************************************************************************)
THEOREM TornLinesCostTwo == Spec => TornLineCostsTwo
<1> DEFINE lost == (Recorded \cup Appended) \ Recorded'
<1>1. ASSUME TypeOK, [Next]_vars, launches' = launches
      PROVE  /\ lost \subseteq {tail.test} \cup Appended
             /\ lost \cap Appended # {} => tail # Clean /\ tail' = Clean
  <2>1. lost \subseteq {tail.test} \cup Appended
    BY <1>1, LosesOneAtMost
  <2>2. lost \cap Appended # {} => tail # Clean /\ tail' = Clean
    BY <1>1, OneAppend, LostBehindTornLine
  <2> QED
    BY <2>1, <2>2
<1> QED
  BY <1>1, TypeCorrect, PTL DEF Spec, TornLineCostsTwo

\* A start removes the file or leaves it alone.
LEMMA StartsWithFile ==
    ASSUME TypeOK, [Next]_vars, launches' # launches
    PROVE  IF Wiped THEN wipeFile ELSE UNCHANGED fileVars
<1>1. ~SupStep
  BY DEF SupStep, WipeInflight, harvestInflight, MarkCrash, clearInflight, Continue, GiveUp,
         Finish, Stall, ChildExit, spawnWorker, envVars
<1>2. ~\E w \in Workers : WorkerStep(w)
  BY DEF WorkerStep, Boot, Take, Exit, SpawnTest, SpawnTestFails, NotePid, Settle,
         SettleKilled, AppendRecord, ClearEntry, envVars
<1>3. ~Environment
  BY DEF Environment, CtrlC, spawnWorkerFails, Restart, Wedge, WorkerDies, OrphanEnds,
         Vanish, envVars
<1>4. Start
  BY <1>1, <1>2, <1>3 DEF Next, vars
<1> QED
  BY <1>4 DEF Start, Launch, Wiped

\* Every step keeps the account of what torn lines have cost and will cost.
LEMMA NextLosses ==
    ASSUME TypeOK, TypeOK', LossesCounted, [LossesNext]_lossVars
    PROVE  LossesCounted'
<1> DEFINE K == {t \in written : ledger[t] = "none"}
           Open == IF tail = Clean THEN 0 ELSE 1
<1>1. CASE UNCHANGED lossVars
  <2>1. UNCHANGED <<written, tears, ledger, tail>>
    BY <1>1 DEF lossVars, vars
  <2> QED
    BY <2>1 DEF LossesCounted
<1>2. CASE LossesNext
  <2>1. Next /\ CountsLosses
    BY <1>2 DEF LossesNext
  <2>2. IsFiniteSet(K) /\ Cardinality(K) \in Nat /\ Cardinality(K) + Open <= tears
        /\ tears \in Nat /\ written \subseteq Tests
    BY FS_Subset, FS_CardinalityType DEF LossesCounted
  <2>3. CASE Wiped
    <3>1. written' = {} /\ tears' = 0 /\ tail' = Clean
      BY <2>1, <2>3, StartsWithFile DEF CountsLosses, wipeFile, Wiped
    <3>2. {t \in written' : ledger'[t] = "none"} = {}
      BY <3>1
    <3> QED
      BY <3>1, <3>2, FS_EmptySet DEF LossesCounted
  <2>4. CASE ~Wiped /\ Appended = {}
    <3>1. written' = written /\ tears' = IF Torn THEN tears + 1 ELSE tears
      BY <2>1, <2>4 DEF CountsLosses
    <3>2. UNCHANGED fileVars \/ Appends \/ Tears
      BY <2>1, <2>4, OneWrite, StartsWithFile
    <3>3. \A t \in Tests : ledger[t] # "none" => ledger'[t] # "none"
      <4>1. CASE Appends
        <5>1. PICK t \in Tests, s \in Outcomes : appendLine(t, s)
          BY <4>1 DEF Appends
        <5>2. ledger' = ledger \/ ledger' = [ledger EXCEPT ![t] = s]
          BY <5>1 DEF appendLine
        <5> QED
          BY <5>2 DEF Outcomes, TypeOK, FileTypeOK
      <4> QED
        BY <3>2, <4>1 DEF fileVars, Tears, tearLine
    <3>4. K' \subseteq K
      BY <2>2, <3>1, <3>3
    <3>5. Cardinality(K') \in Nat /\ Cardinality(K') <= Cardinality(K)
      BY <2>2, <3>4, FS_Subset, FS_CardinalityType
    <3>6. tail' = tail \/ tail' = Clean \/ (Torn /\ tail' # Clean)
      BY DEF Torn
    <3>7. Cardinality(K') + Open' <= tears'
      BY <2>2, <3>1, <3>5, <3>6 DEF Torn
    <3> QED
      BY <2>2, <3>1, <3>7 DEF LossesCounted
  <2>5. CASE ~Wiped /\ Appended # {}
    <3>1. PICK t \in Tests, s \in Outcomes : appendLine(t, s) /\ Appended \subseteq {t}
      BY <2>1, <2>5, OneAppend
    <3>2. tail' = Clean /\ written' \subseteq written \cup {t} /\ tears' = tears
      BY <2>1, <2>5, <3>1 DEF CountsLosses, appendLine, Torn
    <3>3. CASE tail = Clean
      <4>1. K' \subseteq K
        <5>1. ledger' = [ledger EXCEPT ![t] = s] /\ s # "none" /\ ledger \in [Tests -> Statuses]
          BY <3>1, <3>3 DEF appendLine, Outcomes, TypeOK, FileTypeOK
        <5>2. ledger'[t] # "none" /\ \A u \in Tests : u # t => ledger'[u] = ledger[u]
          BY <5>1
        <5> QED
          BY <2>2, <3>2, <5>2
      <4>2. Cardinality(K') \in Nat /\ Cardinality(K') <= Cardinality(K)
        BY <2>2, <4>1, FS_Subset, FS_CardinalityType
      <4> QED
        BY <2>2, <3>1, <3>2, <3>3, <4>2 DEF LossesCounted
    <3>4. CASE tail # Clean
      <4>1. K' \subseteq K \cup {t}
        BY <2>2, <3>1, <3>2, <3>4 DEF appendLine
      <4>2. IsFiniteSet(K \cup {t}) /\ Cardinality(K \cup {t}) \in Nat
            /\ Cardinality(K \cup {t}) <= Cardinality(K) + 1
        <5>1. IsFiniteSet(K \cup {t})
              /\ Cardinality(K \cup {t}) = IF t \in K THEN Cardinality(K) ELSE Cardinality(K) + 1
          BY <2>2, FS_AddElement
        <5> QED
          BY <2>2, <5>1
      <4>3. Cardinality(K') \in Nat /\ Cardinality(K') <= Cardinality(K \cup {t})
        BY <4>1, <4>2, FS_Subset, FS_CardinalityType
      <4> QED
        BY <2>2, <3>1, <3>2, <3>4, <4>2, <4>3 DEF LossesCounted
    <3> QED
      BY <3>3, <3>4
  <2> QED
    BY <2>3, <2>4, <2>5
<1> QED
  BY <1>1, <1>2

(***************************************************************************)
(* Over a whole behaviour, however often appends are torn and whoever dies *)
(* or is started: no more of the records that were written are missing     *)
(* from the ledger than appends were torn, the torn records apart.         *)
(***************************************************************************)
THEOREM LossesAreBounded == LossesSpec => []TearsCostOneMore
<1>1. LossesSpec => Spec
  <2>1. LossesInit => Init
    BY DEF LossesInit
  <2>2. [LossesNext]_lossVars => [Next]_vars
    BY DEF LossesNext, lossVars
  <2> QED
    BY <2>1, <2>2, PTL DEF LossesSpec, Spec
<1>2. LossesInit => LossesCounted
  <2> SUFFICES ASSUME LossesInit PROVE LossesCounted
    OBVIOUS
  <2>1. {t \in written : ledger[t] = "none"} = {}
    BY DEF LossesInit
  <2> QED
    BY <2>1, FS_EmptySet DEF LossesInit, Init, EmptyFile, LossesCounted
<1>3. TypeOK /\ TypeOK' /\ LossesCounted /\ [LossesNext]_lossVars => LossesCounted'
  BY NextLosses
<1>4. TypeOK /\ LossesCounted => TearsCostOneMore
  <2> SUFFICES ASSUME TypeOK, LossesCounted PROVE TearsCostOneMore
    OBVIOUS
  <2> DEFINE K == {t \in written : ledger[t] = "none"}
  <2>1. written \ Recorded \subseteq K
    <3>1. \A t \in Tests : t = tail.test => tail.status # "none"
      BY DEF TypeOK, FileTypeOK, Tails, Clean, Junk, Outcomes
    <3>2. \A t \in Tests \ Recorded : ledger[t] = "none"
      BY <3>1 DEF Recorded, readLedger
    <3> QED
      BY <3>2 DEF LossesCounted
  <2>2. IsFiniteSet(K) /\ Cardinality(K) \in Nat /\ Cardinality(K) <= tears /\ tears \in Nat
    <3>1. K \subseteq Tests
      BY DEF LossesCounted
    <3>2. IsFiniteSet(K) /\ Cardinality(K) \in Nat
      BY <3>1, FS_Subset, FS_CardinalityType
    <3> QED
      BY <3>2 DEF LossesCounted
  <2>3. Cardinality(written \ Recorded) \in Nat
        /\ Cardinality(written \ Recorded) <= Cardinality(K)
    BY <2>1, <2>2, FS_Subset, FS_CardinalityType
  <2> QED
    BY <2>2, <2>3 DEF TearsCostOneMore
<1> QED
  BY <1>1, <1>2, <1>3, <1>4, TypeCorrect, PTL DEF LossesSpec

\* A record that lacks only its newline is the first of its test.
TailIsNew == \A t \in Tests : tail.test = t => ledger[t] = "none"

\* Whoever appends a record, or dies doing it, does so for a test without one,
\* and only the harvest writes crash.
LEMMA NewRecords ==
    ASSUME "ctrlC" \notin Faults, TypeOK, OneWriter, TargetsAreNew, [Next]_vars
    PROVE  \/ UNCHANGED fileVars \/ wipeFile
           \/ \E t \in Tests \ Recorded, s \in Outcomes :
                 /\ appendLine(t, s) \/ tearLine(t, s)
                 /\ s = "crash" => t \in targets
<1> DEFINE Writes == \E t \in Tests \ Recorded, s \in Outcomes :
                       /\ appendLine(t, s) \/ tearLine(t, s)
                       /\ s = "crash" => t \in targets
<1>0. ASSUME NEW W \in SUBSET Workers, NEW s, CutWrites(W, s) PROVE UNCHANGED fileVars \/ Writes
  <2>1. \A w \in W : \A t \in At(w, {"ran", "killed"}) :
          t \in Tests \ Recorded /\ stage[w][t] \in Outcomes \ {"crash"}
    BY DEF At, Outcomes, OneWriter, NotYetRecorded, Begun
  <2>2. targets # {} => Min(targets) \in (Tests \ Recorded) \cap targets
    BY MinIsAMember DEF TypeOK, TargetsAreNew
  <2>3. ASSUME NEW w \in W, NEW t \in At(w, {"ran", "killed"}), tearLine(t, stage[w][t])
        PROVE  Writes
    BY <2>1, <2>3
  <2>4. ASSUME targets # {}, tearLine(Min(targets), "crash") PROVE Writes
    BY <2>2, <2>4 DEF Outcomes
  <2> QED
    BY <1>0, <2>3, <2>4 DEF CutWrites
<1>1. CASE UNCHANGED vars \/ Start
  BY <1>1 DEF vars, fileVars, Start, Launch
<1>2. CASE MarkCrash
  <2>1. Min(targets) \in (Tests \ Recorded) \cap targets
    BY <1>2, MinIsAMember DEF MarkCrash, TypeOK, TargetsAreNew
  <2> QED
    BY <1>2, <2>1 DEF MarkCrash, Outcomes
<1>3. CASE Stall
  <2>1. {child} \in SUBSET Workers /\ CutWrites({child}, FALSE)
    BY <1>3 DEF Stall, TypeOK
  <2> QED
    BY <1>0, <2>1
<1>4. CASE SupStep /\ ~MarkCrash /\ ~Stall
  BY <1>4
     DEF SupStep, WipeInflight, harvestInflight, clearInflight, Continue, GiveUp, Finish,
         ChildExit, spawnWorker
<1>5. ASSUME NEW w \in Workers, NEW t \in Tests, AppendRecord(w, t) PROVE Writes
  <2>1. t \notin Recorded /\ stage[w][t] \in Outcomes \ {"crash"}
    BY <1>5 DEF AppendRecord, OneWriter, NotYetRecorded, Begun, Outcomes
  <2> QED
    BY <1>5, <2>1 DEF AppendRecord
<1>6. CASE \E w \in Workers : WorkerStep(w)
  BY <1>5, <1>6
     DEF WorkerStep, Boot, Take, Exit, SpawnTest, SpawnTestFails, NotePid, Settle,
         SettleKilled, ClearEntry
<1>7. CASE Environment
  <2>1. CASE Restart
    <3>1. {w \in Workers : Alive(w)} \in SUBSET Workers
      OBVIOUS
    <3> QED
      BY <1>0, <2>1, <3>1 DEF Restart
  <2>2. ASSUME NEW w \in Workers, WorkerDies(w) PROVE UNCHANGED fileVars \/ Writes
    BY <1>0, <2>2 DEF WorkerDies
  <2> QED
    BY <1>7, <2>1, <2>2
       DEF Environment, CtrlC, spawnWorkerFails, Wedge, OrphanEnds, Vanish
<1> QED
  BY <1>1, <1>2, <1>3, <1>4, <1>6, <1>7 DEF Next, SupStep

LEMMA NextTailIsNew ==
    ASSUME "ctrlC" \notin Faults
    PROVE  TypeOK /\ OneWriter /\ TargetsAreNew /\ TailIsNew /\ [Next]_vars => TailIsNew'
<1> SUFFICES ASSUME TypeOK, OneWriter, TargetsAreNew, TailIsNew, [Next]_vars
             PROVE  TailIsNew'
  OBVIOUS
<1>1. 0 \notin Tests
  BY DEF TestsAssumption
<1>2. CASE UNCHANGED fileVars
  BY <1>2 DEF fileVars, TailIsNew
<1>3. CASE wipeFile \/ Appends
  BY <1>1, <1>3 DEF wipeFile, Appends, appendLine, Clean, TailIsNew
<1>4. ASSUME NEW t \in Tests \ Recorded, NEW s \in Outcomes, tearLine(t, s) PROVE TailIsNew'
  <2>1. ledger' = ledger /\ (tail'.test = 0 \/ (tail = Clean /\ tail'.test = t))
    BY <1>4 DEF tearLine, Junk
  <2>2. tail = Clean => ledger[t] = "none"
    BY <1>1, <1>4 DEF Recorded, readLedger, Clean
  <2> QED
    BY <1>1, <2>1, <2>2 DEF TailIsNew
<1> QED
  BY <1>2, <1>3, <1>4, NewRecords DEF Appends

(***************************************************************************)
(* A result is never replaced by another one, torn lines included, as long *)
(* as nobody stops the supervisor under a running worker.                  *)
(***************************************************************************)
THEOREM NothingIsOverwritten ==
    ASSUME "ctrlC" \notin Faults
    PROVE  Spec => NoOverwrite
<1>1. Init => TargetsAreNew /\ TailIsNew
  BY InitUntorn DEF Init, EmptyFile, NoRecords, TailIsNew, Untorn
<1>2. TypeOK /\ OneWriter /\ TargetsAreNew /\ [Next]_vars => TargetsAreNew'
  BY NextTargets
<1>3. TypeOK /\ OneWriter /\ TargetsAreNew /\ TailIsNew /\ [Next]_vars => TailIsNew'
  BY NextTailIsNew
<1>4. TypeOK /\ OneWriter /\ TargetsAreNew /\ TailIsNew /\ [Next]_vars
        => [\A t \in Recorded : readLedger[t] # readLedger'[t] => t \notin Recorded']_vars
  <2> SUFFICES ASSUME TypeOK, OneWriter, TargetsAreNew, TailIsNew, [Next]_vars,
                      NEW u \in Recorded, readLedger[u] # readLedger'[u]
               PROVE  u \notin Recorded'
    OBVIOUS
  <2>1. u \in Tests /\ u # 0 /\ 0 \notin Tests /\ readLedger[u] # "none"
    BY DEF Recorded, TestsAssumption
  <2>2. CASE UNCHANGED fileVars
    BY <2>2, UnchangedReads
  <2>3. CASE wipeFile
    BY <2>1, <2>3 DEF wipeFile, NoRecords, Clean, Recorded, readLedger
  <2>4. ASSUME NEW t \in Tests \ Recorded, NEW s \in Outcomes, appendLine(t, s)
        PROVE  u \notin Recorded'
    <3>1. u # t /\ tail'.test = 0 /\ ledger'[u] = ledger[u]
      BY <2>1, <2>4 DEF appendLine, Clean, TypeOK, FileTypeOK
    <3>2. readLedger'[u] = ledger[u]
      BY <2>1, <3>1 DEF readLedger
    <3>3. tail.test = u
      BY <2>1, <3>2 DEF readLedger
    <3> QED
      BY <2>1, <3>2, <3>3 DEF TailIsNew, Recorded
  <2>5. ASSUME NEW t \in Tests \ Recorded, NEW s \in Outcomes, tearLine(t, s)
        PROVE  u \notin Recorded'
    <3>1. u # t /\ ledger'[u] = ledger[u] /\ tail'.test # u
      BY <2>1, <2>5 DEF tearLine, Junk
    <3>2. readLedger'[u] = ledger[u]
      BY <2>1, <3>1 DEF readLedger
    <3>3. tail.test = u
      BY <2>1, <3>2 DEF readLedger
    <3> QED
      BY <2>1, <3>2, <3>3 DEF TailIsNew, Recorded
  <2> QED
    BY <2>2, <2>3, <2>4, <2>5, NewRecords
<1> QED
  BY <1>1, <1>2, <1>3, <1>4, SingleWriter, TypeCorrect, PTL DEF Spec, NoOverwrite

-----------------------------------------------------------------------------
(* Blame.  What inflight.json lists is in flight, or was when its worker   *)
(* died; and nothing is in flight while the supervisor harvests.           *)

Suspected ==
    /\ \A t \in ListedTests : t \in suspects \/ \E w \in Workers : stage[w][t] \in InFlight
    /\ targets \subseteq suspects

LEMMA InitSuspected == Init => Suspected
BY DEF Init, Suspected, ListedTests

\* Suspected, when what is listed, suspected and in flight only moves from in
\* flight to suspected.
LEMMA StillSuspected ==
    ASSUME Suspected, inflight' \subseteq inflight, suspects \subseteq suspects',
           targets' \subseteq targets,
           \A w \in Workers, t \in Tests :
               stage[w][t] \in InFlight => stage'[w][t] \in InFlight \/ t \in suspects',
           TypeOK
    PROVE  Suspected'
<1>1. ListedTests' \subseteq ListedTests /\ ListedTests \subseteq Tests
  BY DEF ListedTests, TypeOK
<1> QED
  BY <1>1 DEF Suspected

\* A worker that writes the registry lists what it has in flight.
LEMMA WritesWhatFlies ==
    ASSUME NEW w \in Workers, writeInflight(w), targets' \subseteq suspects'
    PROVE  Suspected'
<1>1. \A t : Entry(w, t).test = t
  BY DEF Entry
<1> HIDE DEF Entry
<1>2. \A t \in ListedTests' : stage'[w][t] \in InFlight
  BY <1>1 DEF ListedTests, writeInflight
<1> QED
  BY <1>2 DEF Suspected

\* The death of workers makes suspects of what they had in flight.
LEMMA DeathSuspected ==
    ASSUME TypeOK, Suspected, NEW W \in SUBSET Workers, NEW how, Bury(W, how),
           NEW s, CutWrites(W, s) \/ CutWrites({w \in W : Alive(w)}, s),
           targets' \subseteq targets
    PROVE  Suspected'
<1>1. inflight' \subseteq inflight
  BY DEF CutWrites
<1>2. suspects' = suspects \cup UNION {At(w, InFlight) : w \in W}
  BY DEF Bury
<1>3. ASSUME NEW w \in Workers, NEW t \in Tests, stage[w][t] \in InFlight
      PROVE  stage'[w][t] \in InFlight \/ t \in suspects'
  <2>1. CASE w \in W
    BY <1>2, <1>3, <2>1 DEF At
  <2>2. CASE w \notin W
    BY <1>3, <2>2 DEF Bury, TypeOK
  <2> QED
    BY <2>1, <2>2
<1> QED
  BY <1>1, <1>2, <1>3, StillSuspected

\* One step per action of a worker: three of them write the registry.
LEMMA WorkerSuspected ==
    ASSUME TypeOK, OneWriter, Suspected, NEW w \in Workers, WorkerStep(w)
    PROVE  Suspected'
<1>a. stage \in [Workers -> [Tests -> Stages]]
  BY DEF TypeOK
<1>b. UNCHANGED <<targets, suspects>>
  BY DEF WorkerStep, Boot, Take, Exit, SpawnTest, SpawnTestFails, NotePid, Settle,
         SettleKilled, AppendRecord, ClearEntry, supVars
<1>c. targets' \subseteq suspects'
  BY <1>b DEF Suspected
<1>1. CASE Boot(w) \/ Take(w) \/ \E t \in Tests : NotePid(w, t) \/ ClearEntry(w, t)
  BY <1>1, <1>c, WritesWhatFlies DEF Boot, Take, NotePid, ClearEntry
<1>2. CASE Exit(w)
  BY <1>2, <1>b, StillSuspected DEF Exit
<1>3. ASSUME NEW t \in Tests,
             SpawnTest(w, t) \/ SpawnTestFails(w, t) \/ Settle(w, t) \/ SettleKilled(w, t)
               \/ AppendRecord(w, t)
      PROVE  Suspected'
  <2>1. UNCHANGED inflight
    BY <1>3 DEF SpawnTest, SpawnTestFails, Settle, SettleKilled, AppendRecord
  <2>2. \E s \in {"spawned", "ran", "killed", "appended"} :
          stage' = [stage EXCEPT ![w][t] = s]
    BY <1>3 DEF SpawnTest, SpawnTestFails, Settle, SettleKilled, AppendRecord
  <2>3. \A v \in Workers, u \in Tests :
          stage[v][u] \in InFlight => stage'[v][u] \in InFlight
    BY <1>a, <2>2 DEF InFlight, Busy
  <2> QED
    BY <1>b, <2>1, <2>3, StillSuspected
<1> QED
  BY <1>1, <1>2, <1>3 DEF WorkerStep

\* Nothing is in flight while the supervisor harvests, so that all it lists is
\* suspected; and it clears the suspects with the list only.
LEMMA SupSuspected ==
    ASSUME TypeOK, OneWriter, TargetsAreNew, Suspected, SupStep
    PROVE  Suspected'
<1>1. CASE harvestInflight
  <2>1. /\ sup = "harvest" /\ targets' = Blamed(Unfinished)
        /\ UNCHANGED <<inflight, suspects, stage>>
    BY <1>1 DEF harvestInflight, workerVars
  <2>2. \A w \in Workers, t \in Tests : stage[w][t] \notin InFlight
    BY <2>1 DEF OneWriter, Alone, DeadHasNothing, InFlight, Busy
  <2>3. ListedTests \subseteq Tests
    BY DEF ListedTests, TypeOK
  <2>4. ListedTests \subseteq suspects
    BY <2>2, <2>3 DEF Suspected
  <2>5. Unfinished \subseteq ListedTests
    BY DEF Unfinished, ListedTests
  <2>6. Blamed(Unfinished) \subseteq Unfinished
    <3>1. Unfinished # {} => Min(Unfinished) \in Unfinished
      BY <2>3, <2>5, MinIsAMember
    <3> QED
      BY <3>1 DEF Blamed
  <2> QED
    BY <2>1, <2>4, <2>5, <2>6 DEF Suspected, ListedTests
<1>2. CASE WipeInflight \/ clearInflight
  BY <1>2 DEF WipeInflight, clearInflight, TargetsAreNew, Suspected, ListedTests
<1>3. CASE MarkCrash \/ Continue \/ GiveUp \/ Finish \/ ChildExit
  BY <1>3, StillSuspected
     DEF MarkCrash, Continue, GiveUp, Finish, ChildExit, Returned, workerVars
<1>4. CASE Stall
  <2>1. {child} \in SUBSET Workers /\ CutWrites({child}, FALSE) /\ Bury({child}, "gone")
        /\ UNCHANGED targets
    BY <1>4 DEF Stall, Returned, TypeOK
  <2> QED
    BY <2>1, DeathSuspected
<1>5. ASSUME NEW w \in Workers, spawnWorker(w) PROVE Suspected'
  <2>1. UNCHANGED <<inflight, suspects, targets>> /\ ~Alive(w)
        /\ \A v \in Workers \ {w} : stage'[v] = stage[v]
    BY <1>5 DEF spawnWorker, TypeOK
  <2>2. \A t \in Tests : stage[w][t] \notin InFlight
    BY <2>1 DEF OneWriter, DeadHasNothing, InFlight, Busy
  <2> QED
    BY <2>1, <2>2, StillSuspected
<1> QED
  BY <1>1, <1>2, <1>3, <1>4, <1>5 DEF SupStep

LEMMA EnvironmentSuspected ==
    ASSUME "ctrlC" \notin Faults, TypeOK, Suspected, Environment
    PROVE  Suspected'
<1>1. CASE spawnWorkerFails
  BY <1>1, StillSuspected DEF spawnWorkerFails, SupGone, workerVars
<1>2. CASE Restart
  <2>1. /\ CutWrites({w \in Workers : Alive(w)}, TRUE) /\ Bury(Workers, "gone")
        /\ targets' = {}
    BY <1>2 DEF Restart, SupGone
  <2> QED
    BY <2>1, DeathSuspected
<1>3. ASSUME NEW w \in Workers, WorkerDies(w) PROVE Suspected'
  <2>1. CutWrites({w}, FALSE) /\ Bury({w}, "failed") /\ UNCHANGED targets
    BY <1>3 DEF WorkerDies, supVars
  <2> QED
    BY <2>1, DeathSuspected
<1>4. CASE \/ \E w \in Workers : Wedge(w)
           \/ \E p \in Pids : OrphanEnds(p)
           \/ \E t \in Tests : Vanish(t)
  BY <1>4, StillSuspected DEF Wedge, OrphanEnds, Vanish, supVars, workerVars
<1> QED
  BY <1>1, <1>2, <1>3, <1>4 DEF Environment, CtrlC

LEMMA NextSuspected ==
    ASSUME "ctrlC" \notin Faults
    PROVE  TypeOK /\ OneWriter /\ TargetsAreNew /\ Suspected /\ [Next]_vars => Suspected'
<1> SUFFICES ASSUME TypeOK, OneWriter, TargetsAreNew, Suspected, [Next]_vars
             PROVE  Suspected'
  OBVIOUS
<1>1. CASE UNCHANGED vars \/ Start
  BY <1>1, StillSuspected DEF vars, Start, Launch, workerVars
<1> QED
  BY <1>1, WorkerSuspected, SupSuspected, EnvironmentSuspected DEF Next

(***************************************************************************)
(* Only suspects are blamed: whatever comes to read as a crash was in      *)
(* flight when a worker died, torn lines and torn registries included, as  *)
(* long as nobody stops the supervisor under a running worker.  For then   *)
(* the next supervisor harvests what is still in flight.                   *)
(***************************************************************************)
THEOREM OnlySuspectsAreBlamed ==
    ASSUME "ctrlC" \notin Faults
    PROVE  Spec => BlamesOnlySuspects
<1>1. Init => TargetsAreNew /\ TailIsNew /\ Suspected
  BY InitUntorn, InitSuspected DEF Init, EmptyFile, NoRecords, TailIsNew, Untorn
<1>2. TypeOK /\ OneWriter /\ TargetsAreNew /\ [Next]_vars => TargetsAreNew'
  BY NextTargets
<1>3. TypeOK /\ OneWriter /\ TargetsAreNew /\ TailIsNew /\ [Next]_vars => TailIsNew'
  BY NextTailIsNew
<1>4. TypeOK /\ OneWriter /\ TargetsAreNew /\ Suspected /\ [Next]_vars => Suspected'
  BY NextSuspected
<1>5. TypeOK /\ OneWriter /\ TargetsAreNew /\ TailIsNew /\ Suspected /\ [Next]_vars
        => [\A t \in Tests : readLedger'[t] = "crash" /\ readLedger[t] # "crash"
                               => t \in suspects]_vars
  <2> SUFFICES ASSUME TypeOK, OneWriter, TargetsAreNew, TailIsNew, Suspected, [Next]_vars,
                      NEW u \in Tests, readLedger'[u] = "crash", readLedger[u] # "crash"
               PROVE  u \in suspects
    OBVIOUS
  <2>1. u # 0
    BY DEF TestsAssumption
  <2>2. ~UNCHANGED fileVars
    BY UnchangedReads
  <2>3. ~wipeFile
    BY <2>1 DEF wipeFile, NoRecords, Clean, readLedger
  <2>4. ledger[u] # "crash"
    BY DEF TailIsNew, readLedger
  <2>5. ASSUME NEW t \in Tests \ Recorded, NEW s \in Outcomes,
               appendLine(t, s) \/ tearLine(t, s)
        PROVE  u = t /\ s = "crash"
    <3>1. CASE appendLine(t, s)
      <4>1. readLedger'[u] = ledger'[u]
        BY <2>1, <3>1 DEF appendLine, Clean, readLedger
      <4> QED
        BY <2>4, <3>1, <4>1 DEF appendLine, TypeOK, FileTypeOK
    <3>2. CASE tearLine(t, s)
      <4>1. ledger'[u] = ledger[u] /\ (tail' = Junk \/ tail' = [test |-> t, status |-> s])
        BY <3>2 DEF tearLine
      <4> QED
        BY <2>1, <2>4, <4>1 DEF readLedger, Junk
    <3> QED
      BY <2>5, <3>1, <3>2
  <2>6. PICK t \in Tests \ Recorded, s \in Outcomes :
          /\ appendLine(t, s) \/ tearLine(t, s)
          /\ s = "crash" => t \in targets
    BY <2>2, <2>3, NewRecords
  <2>7. u = t /\ s = "crash"
    BY <2>5, <2>6
  <2> QED
    BY <2>6, <2>7 DEF Suspected
<1> QED
  BY <1>1, <1>2, <1>3, <1>4, <1>5, SingleWriter, TypeCorrect, PTL DEF Spec, BlamesOnlySuspects

-----------------------------------------------------------------------------
(* Stepping over.  After a death inflight.json lists the tests that were   *)
(* in flight and no other, so the one a harvest blames is one of them.     *)

Blames ==
    /\ sup \in {"off", "wipe", "loop", "finished", "aborted"} => result = "none"
    /\ sup = "harvest" /\ result # "none" => suspects = ListedTests
    /\ sup = "watch" /\ life[child] = "failed" => suspects = ListedTests
    /\ sup = "watch" /\ life[child] = "exited" => suspects = {}
    /\ sup = "mark" /\ suspects # {} =>
         IF result = "none" THEN suspects \subseteq Recorded \cup targets
                            ELSE suspects \cap (Recorded \cup targets) # {}

LEMMA InitBlames == Init => Blames
BY DEF Init, Blames

\* The worker that dies was the only one, and its file was up to date.
LEMMA DeathListed ==
    ASSUME Reliable, DiskTells, NEW w \in Workers, Alive(w), NEW how, Bury({w}, how),
           NEW s \in BOOLEAN, CutWrites({w}, s)
    PROVE  suspects' = ListedTests'
<1> DEFINE E(t) == [test |-> t, pid |-> IF stage[w][t] \in {"listed", "spawned"} THEN NoPid
                                        ELSE pid[w][t]]
<1>1. UNCHANGED inflight
  BY DEF CutWrites, Reliable
<1>2. inflight = {E(t) : t \in At(w, InFlight)} /\ suspects = {}
  BY DEF DiskTells, Mirrored, Listed, At
<1>3. suspects' = At(w, InFlight)
  BY <1>2 DEF Bury
<1>4. \A t : E(t).test = t
  OBVIOUS
<1> HIDE DEF E
<1>5. ListedTests = At(w, InFlight)
  BY <1>2, <1>4 DEF ListedTests
<1> QED
  BY <1>1, <1>3, <1>5 DEF ListedTests

\* A harvest blames one of the suspects, or all of them.
LEMMA HarvestBlames ==
    ASSUME TypeOK, DiskTells, Blames, harvestInflight
    PROVE  Blames'
<1>1. /\ sup = "harvest" /\ sup' = "mark" /\ targets' = Blamed(Unfinished)
      /\ UNCHANGED <<fileVars, result, suspects>>
  BY DEF harvestInflight
<1>2. Recorded' = Recorded
  BY <1>1, UnchangedRecords
<1>3. Unfinished = ListedTests \ Recorded /\ Unfinished \subseteq Tests
  BY DEF Unfinished, ListedTests, TypeOK
<1>4. CASE result = "none"
  BY <1>1, <1>2, <1>3, <1>4 DEF Blamed, Blames, DiskTells
<1>5. CASE result # "none" /\ suspects # {}
  <2>1. suspects = ListedTests
    BY <1>1, <1>5 DEF Blames
  <2>2. CASE Unfinished = {}
    BY <1>1, <1>2, <1>3, <1>5, <2>1, <2>2 DEF Blames
  <2>3. CASE Unfinished # {}
    <3>1. Min(Unfinished) \in Unfinished /\ targets' = {Min(Unfinished)}
      BY <1>1, <1>3, <1>5, <2>3, MinIsAMember DEF Blamed
    <3>2. Min(Unfinished) \in suspects \cap targets'
      BY <1>3, <2>1, <3>1
    <3> QED
      BY <1>1, <1>5, <3>2 DEF Blames
  <2> QED
    BY <2>2, <2>3
<1> QED
  BY <1>1, <1>4, <1>5 DEF Blames

\* Whoever has been marked has a record.
LEMMA MarkBlames ==
    ASSUME TypeOK, Untorn, Blames, MarkCrash
    PROVE  Blames'
<1> DEFINE t == Min(targets)
<1>1. /\ sup = "mark" /\ sup' = "mark" /\ UNCHANGED <<result, suspects>>
      /\ appendLine(t, "crash") /\ targets' = targets \ {t}
  BY DEF MarkCrash
<1>2. t \in Tests
  BY MinIsAMember DEF MarkCrash, TypeOK
<1> HIDE DEF t
<1>3. Recorded \cup {t} \subseteq Recorded'
  BY <1>1, <1>2, AppendIsRead DEF Untorn, TypeOK, Outcomes
<1>4. Recorded \cup targets \subseteq Recorded' \cup targets'
  BY <1>1, <1>3
<1> QED
  BY <1>1, <1>4 DEF Blames

LEMMA NextBlames ==
    ASSUME Reliable
    PROVE  TypeOK /\ OneWriter /\ Untorn /\ DiskTells /\ Blames /\ [Next]_vars => Blames'
<1> SUFFICES ASSUME TypeOK, OneWriter, Untorn, DiskTells, Blames, [Next]_vars PROVE Blames'
  OBVIOUS
<1>a. life \in [Workers -> {"gone", "boot", "live", "wedged", "exited", "failed"}]
  BY DEF TypeOK
<1>1. CASE UNCHANGED vars
  BY <1>1 DEF vars, Blames, ListedTests, Recorded, readLedger
<1>2. CASE Start
  BY <1>2 DEF Start, Launch, Blames
<1>3. ASSUME NEW w \in Workers, WorkerStep(w) PROVE Blames'
  <2>1. sup = "watch" /\ child = w /\ Alive(w) /\ UNCHANGED supVars
    BY <1>3, NothingToMark DEF Untorn
  <2>2. suspects' = {}
    BY <1>3, <2>1
       DEF DiskTells, Mirrored, WorkerStep, Boot, Take, Exit, SpawnTest, SpawnTestFails,
           NotePid, Settle, SettleKilled, AppendRecord, ClearEntry
  <2>3. life'[w] # "failed"
    BY <1>3, <2>1, <1>a
       DEF Alive, WorkerStep, Boot, Take, Exit, SpawnTest, SpawnTestFails, NotePid, Settle,
           SettleKilled, AppendRecord, ClearEntry
  <2> QED
    BY <2>1, <2>2, <2>3 DEF Blames, supVars
<1>4. CASE WipeInflight \/ clearInflight \/ Continue \/ GiveUp \/ Finish
  BY <1>4 DEF WipeInflight, clearInflight, Continue, GiveUp, Finish, EndOfCycle, Blames
<1>5. CASE Stall
  <2>1. /\ child \in Workers /\ Alive(child) /\ sup' = "harvest"
        /\ Bury({child}, "gone") /\ CutWrites({child}, FALSE)
    BY <1>5 DEF Stall, Stuck, NoMoreWork, Idle, Alive, TypeOK
  <2>2. suspects' = ListedTests'
    BY <2>1, DeathListed
  <2> QED
    BY <2>1, <2>2 DEF Blames
<1>6. CASE ChildExit
  <2>1. /\ sup = "watch" /\ life[child] \in {"exited", "failed"}
        /\ sup' = IF life[child] = "exited" THEN "mark" ELSE "harvest"
        /\ UNCHANGED <<suspects, inflight>>
    BY <1>6 DEF ChildExit
  <2> QED
    BY <2>1 DEF Blames, ListedTests
<1>7. ASSUME NEW w \in Workers, spawnWorker(w) PROVE Blames'
  BY <1>7, <1>a DEF spawnWorker, Blames
<1>8. ASSUME NEW w \in Workers, WorkerDies(w) PROVE Blames'
  <2>1. sup = "watch" /\ child = w /\ Alive(w) /\ UNCHANGED supVars
    BY <1>8, NothingToMark DEF Untorn
  <2>2. suspects' = ListedTests'
    BY <1>8, <2>1, DeathListed DEF WorkerDies
  <2>3. life'[w] = "failed"
    BY <1>8 DEF WorkerDies, Bury
  <2> QED
    BY <2>1, <2>2, <2>3 DEF Blames, supVars
<1>9. CASE Restart \/ spawnWorkerFails
  BY <1>9 DEF Restart, spawnWorkerFails, SupGone, Blames
<1>10. ASSUME NEW w \in Workers, Wedge(w) PROVE Blames'
  <2>1. /\ UNCHANGED <<supVars, suspects>>
        /\ sup = "watch" /\ child = w /\ life'[w] = "wedged"
    BY <1>10, <1>a DEF Wedge, Alive, OneWriter, Alone
  <2> QED
    BY <2>1 DEF Blames, supVars
<1>11. CASE (\E p \in Pids : OrphanEnds(p)) \/ (\E t \in Tests : Vanish(t))
  <2>1. UNCHANGED <<supVars, suspects, inflight, fileVars, life>>
    BY <1>11 DEF OrphanEnds, Vanish, workerVars
  <2>2. Recorded' = Recorded
    BY <2>1, UnchangedRecords
  <2> QED
    BY <2>1, <2>2 DEF Blames, supVars, ListedTests
<1>12. ~CtrlC
  BY DEF CtrlC, Reliable
<1> QED
  BY <1>1, <1>2, <1>3, <1>4, <1>5, <1>6, <1>7, <1>8, <1>9, <1>10, <1>11, <1>12,
     HarvestBlames, MarkBlames DEF Next, SupStep, Environment

(***************************************************************************)
(* The sweep steps over poison tests: when inflight.json is cleared, one   *)
(* of the tests that were in flight when the worker died has a record, and *)
(* after a restart all of them have.                                       *)
(***************************************************************************)
THEOREM PoisonIsSteppedOver ==
    ASSUME Reliable
    PROVE  Spec => StepsOver
<1>1. "ctrlC" \notin Faults /\ "tear" \notin Faults
  BY DEF Reliable
<1>2. Init => Untorn /\ Blames
  BY InitUntorn, InitBlames
<1>3. TypeOK /\ OneWriter /\ Untorn /\ [Next]_vars => Untorn'
  BY <1>1, NextUntorn
<1>4. TypeOK /\ OneWriter /\ Untorn /\ DiskTells /\ Blames /\ [Next]_vars => Blames'
  BY NextBlames
<1>5. Blames /\ [Next]_vars
        => [sup = "mark" /\ sup' = "judge" /\ suspects # {} =>
              IF result = "none" THEN suspects \subseteq Recorded
                                 ELSE suspects \cap Recorded # {}]_vars
  <2> SUFFICES ASSUME Blames, Next, sup = "mark", sup' = "judge", suspects # {}
               PROVE  IF result = "none" THEN suspects \subseteq Recorded
                                         ELSE suspects \cap Recorded # {}
    OBVIOUS
  <2>1. ~Start
    BY DEF Start, Launch
  <2>2. SupStep
    BY <2>1, OthersKeepSup DEF Next
  <2>3. targets = {}
    BY <2>2
       DEF SupStep, WipeInflight, harvestInflight, MarkCrash, clearInflight, Continue, GiveUp,
           Finish, Stall, ChildExit, spawnWorker
  <2> QED
    BY <2>3 DEF Blames
<1>6. Spec => []OneWriter
  BY <1>1, SingleWriter
<1> QED
  BY <1>2, <1>3, <1>4, <1>5, <1>6, AlwaysDisk, TypeCorrect, PTL DEF Spec, StepsOver

-----------------------------------------------------------------------------
(* The loop of main.  Where no append is torn and no test file goes away,  *)
(* every worker that leaves by itself has left a record for each test of   *)
(* the sweep, and every other one costs part of a budget; also with the    *)
(* worker of a supervisor that was stopped still at work.                  *)

\* What the supervisor counts.
Counted ==
    /\ before <= Cardinality(Recorded)
    /\ grew => before < Cardinality(Recorded)
    /\ sup \in {"off", "loop", "finished", "aborted"} => before = 0 /\ ~grew
    /\ noProgress < MaxNoProgress

\* Each test of the sweep has a record, or the worker has it in hand.
Covered ==
    /\ sup = "watch" /\ life[child] = "boot" => all \subseteq Recorded \cup At(child, {"todo"})
    /\ sup = "watch" /\ life[child] = "live"
         => all \subseteq Recorded \cup At(child, {"todo"} \cup Begun)
    /\ sup = "watch" /\ life[child] = "exited" => all \subseteq Recorded
    /\ result = "done" => sup \in {"mark", "judge"} /\ all \subseteq Recorded

Cycle == tail = Clean /\ present = Tests /\ Counted /\ Covered

LEMMA InitCycle == Init => Cycle
<1> SUFFICES ASSUME Init PROVE Cycle
  OBVIOUS
<1>1. before = 0 /\ 0 <= Cardinality(Recorded)
  BY RecordedIsFinite DEF Init
<1> QED
  BY <1>1 DEF Init, EmptyFile, Cycle, Counted, Covered

\* Launches are counted where they happen.
LEMMA LaunchesStay ==
    ASSUME [Next]_vars, ~Start
    PROVE  launches' = launches
<1>1. CASE UNCHANGED vars
  BY <1>1 DEF vars
<1>2. CASE SupStep
  BY <1>2 DEF SupStep, WipeInflight, harvestInflight, MarkCrash, clearInflight, Continue, GiveUp,
              Finish, Stall, ChildExit, spawnWorker, envVars
<1>3. ASSUME NEW w \in Workers, WorkerStep(w) PROVE launches' = launches
  BY <1>3 DEF WorkerStep, Boot, Take, Exit, SpawnTest, SpawnTestFails, NotePid, Settle,
              SettleKilled, AppendRecord, ClearEntry, envVars
<1>4. CASE Environment
  BY <1>4 DEF Environment, CtrlC, spawnWorkerFails, Restart, Wedge, WorkerDies, OrphanEnds,
              Vanish, envVars
<1> QED
  BY <1>1, <1>2, <1>3, <1>4 DEF Next

\* Only a start removes records.
LEMMA RecordsStay ==
    ASSUME TypeOK, tail = Clean, [Next]_vars, ~Start
    PROVE  Recorded \subseteq Recorded'
<1>1. launches' = launches
  BY LaunchesStay
<1>2. Recorded \ Recorded' \subseteq {tail.test}
  BY <1>1, LosesOneAtMost
<1>3. tail.test \notin Recorded
  BY DEF Clean, Recorded, TestsAssumption
<1> QED
  BY <1>2, <1>3

\* And then there are at least as many as before.
LEMMA RecordCounts ==
    /\ Cardinality(Recorded) \in Nat /\ Cardinality(Recorded') \in Nat
    /\ Cardinality(Tests) \in Nat /\ Cardinality(Recorded) <= Cardinality(Tests)
    /\ Recorded \subseteq Recorded' => Cardinality(Recorded) <= Cardinality(Recorded')
<1>1. Recorded \in SUBSET Tests /\ Recorded' \in SUBSET Tests /\ IsFiniteSet(Tests)
  BY DEF Recorded, TestsAssumption
<1>2. IsFiniteSet(Recorded) /\ IsFiniteSet(Recorded')
  BY <1>1, FS_Subset
<1> QED
  BY <1>1, <1>2, FS_Subset, FS_CardinalityType

LEMMA NextPresent ==
    ASSUME "vanish" \notin Faults
    PROVE  present = Tests /\ [Next]_vars => present' = Tests
<1> SUFFICES ASSUME present = Tests, [Next]_vars PROVE present' = Tests
  OBVIOUS
<1>1. CASE UNCHANGED vars \/ Start
  BY <1>1 DEF vars, Start, Launch
<1>2. CASE SupStep
  BY <1>2 DEF SupStep, WipeInflight, harvestInflight, MarkCrash, clearInflight, Continue, GiveUp,
              Finish, Stall, ChildExit, spawnWorker, envVars
<1>3. ASSUME NEW w \in Workers, WorkerStep(w) PROVE present' = Tests
  BY <1>3 DEF WorkerStep, Boot, Take, Exit, SpawnTest, SpawnTestFails, NotePid, Settle,
              SettleKilled, AppendRecord, ClearEntry, envVars
<1>4. CASE Environment
  BY <1>4 DEF Environment, CtrlC, spawnWorkerFails, Restart, Wedge, WorkerDies, OrphanEnds,
              Vanish, envVars
<1> QED
  BY <1>1, <1>2, <1>3, <1>4 DEF Next

LEMMA NextCounted ==
    ASSUME TypeOK, tail = Clean, Counted, [Next]_vars
    PROVE  Counted'
<1>a. /\ before \in Nat /\ grew \in BOOLEAN /\ noProgress \in Nat
      /\ MaxNoProgress \in Nat \ {0}
  BY DEF TypeOK, CorpusAssumption
<1>b. Cardinality(Recorded) \in Nat /\ Cardinality(Recorded') \in Nat
  BY RecordCounts
<1>0. ASSUME before' = 0, ~grew', noProgress' \in {0, noProgress} PROVE Counted'
  BY <1>a, <1>b, <1>0 DEF Counted
<1>1. CASE Start
  BY <1>0, <1>1 DEF Start, Launch, Counted
<1>2. CASE ~Start
  <2>1. Cardinality(Recorded) <= Cardinality(Recorded')
    BY <1>2, RecordsStay, RecordCounts
  <2>2. ASSUME UNCHANGED <<before, grew, noProgress>>,
               sup' \in {"off", "loop", "finished", "aborted"} => sup' = sup
        PROVE  Counted'
    BY <1>a, <1>b, <2>1, <2>2 DEF Counted
  <2>3. CASE UNCHANGED vars \/ WipeInflight \/ harvestInflight \/ MarkCrash \/ clearInflight
    BY <2>2, <2>3 DEF vars, WipeInflight, harvestInflight, MarkCrash, clearInflight
  <2>4. CASE Continue
    <3>1. noProgress' \in Nat /\ noProgress' < MaxNoProgress
      BY <1>a, <2>4 DEF Continue
    <3> QED
      BY <1>b, <2>4, <3>1 DEF Continue, EndOfCycle, Counted
  <2>5. CASE GiveUp \/ Finish
    BY <1>0, <2>5 DEF GiveUp, Finish, EndOfCycle, Counted
  <2>6. CASE Stall \/ ChildExit
    <3>1. /\ sup' \in {"mark", "harvest"} /\ UNCHANGED <<before, noProgress>>
          /\ grew' = (Cardinality(Recorded') > before)
      BY <2>6 DEF Stall, ChildExit, Returned
    <3> QED
      BY <1>a, <1>b, <2>1, <3>1 DEF Counted
  <2>7. ASSUME NEW w \in Workers, spawnWorker(w) PROVE Counted'
    <3>1. /\ sup = "loop" /\ sup' = "watch" /\ before' = Cardinality(Recorded)
          /\ UNCHANGED <<fileVars, grew, noProgress>>
      BY <2>7 DEF spawnWorker
    <3> QED
      BY <1>b, <2>1, <3>1 DEF Counted
  <2>8. ASSUME UNCHANGED supVars PROVE Counted'
    BY <2>2, <2>8 DEF supVars
  <2>9. ASSUME NEW w \in Workers, WorkerStep(w) PROVE UNCHANGED supVars
    BY <2>9 DEF WorkerStep, Boot, Take, Exit, SpawnTest, SpawnTestFails, NotePid, Settle,
                SettleKilled, AppendRecord, ClearEntry
  <2>10. CASE CtrlC \/ spawnWorkerFails \/ Restart
    BY <1>0, <2>10 DEF CtrlC, spawnWorkerFails, Restart, SupGone
  <2> QED
    BY <1>2, <2>3, <2>4, <2>5, <2>6, <2>7, <2>8, <2>9, <2>10
       DEF Next, SupStep, Environment, Wedge, WorkerDies, OrphanEnds, Vanish
<1> QED
  BY <1>1, <1>2

\* What other workers do leaves the watched one as it is.
LEMMA OthersKeepCovered ==
    ASSUME Covered, UNCHANGED supVars, Recorded \subseteq Recorded',
           sup = "watch" => life'[child] = life[child] /\ stage'[child] = stage[child]
    PROVE  Covered'
<1>1. UNCHANGED <<sup, child, all, result>>
  BY DEF supVars
<1>2. CASE sup = "watch"
  <2>1. /\ \A t \in Tests : stage'[child][t] = stage[child][t]
        /\ life'[child] = life[child]
    BY <1>2
  <2> QED
    BY <1>1, <2>1 DEF Covered, At
<1>3. CASE sup # "watch"
  BY <1>1, <1>3 DEF Covered
<1> QED
  BY <1>2, <1>3

\* Steps of a worker, the watched one or one that was left behind.
LEMMA WorkerCovered ==
    ASSUME TypeOK, tail = Clean, present = Tests, Covered, NEW w \in Workers, WorkerStep(w),
           Recorded \subseteq Recorded'
    PROVE  Covered'
<1>a. /\ stage \in [Workers -> [Tests -> Stages]]
      /\ life \in [Workers -> {"gone", "boot", "live", "wedged", "exited", "failed"}]
      /\ all \subseteq Tests /\ FileTypeOK
  BY DEF TypeOK
<1>b. UNCHANGED supVars
  BY DEF WorkerStep, Boot, Take, Exit, SpawnTest, SpawnTestFails, NotePid, Settle,
         SettleKilled, AppendRecord, ClearEntry
<1>1. CASE ~(sup = "watch" /\ child = w)
  <2>1. \A v \in Workers \ {w} : life'[v] = life[v] /\ stage'[v] = stage[v]
    BY <1>a DEF WorkerStep, Boot, Take, Exit, SpawnTest, SpawnTestFails, NotePid, Settle,
                SettleKilled, AppendRecord, ClearEntry
  <2> QED
    BY <1>b, <1>1, <2>1, OthersKeepCovered DEF TypeOK
<1>2. CASE sup = "watch" /\ child = w
  <2> DEFINE InHand == {"todo"} \cup Begun
  <2>0. ASSUME life'[w] = "live", all \subseteq Recorded' \cup At(w, InHand)'
        PROVE  Covered'
    BY <1>b, <1>2, <2>0 DEF Covered, supVars
  <2>a. life[w] = "live" => all \subseteq Recorded \cup At(w, InHand)
    BY <1>2 DEF Covered
  <2>1. CASE Boot(w)
    <3>1. all \subseteq Recorded \cup At(w, {"todo"})
      BY <1>2, <2>1 DEF Boot, Covered
    <3>2. all \subseteq Recorded \cup Todo(w)
      BY <1>a, <3>1 DEF Todo, resolveTestSet
    <3>3. life'[w] = "live" /\ \A t \in Todo(w) : t \in Tests => stage'[w][t] = "todo"
      BY <1>a, <2>1 DEF Boot
    <3>4. all \subseteq Recorded \cup At(w, InHand)'
      BY <1>a, <3>2, <3>3 DEF At
    <3> QED
      BY <2>0, <3>3, <3>4
  <2>2. CASE Exit(w)
    <3>1. At(w, InHand) = {} /\ life[w] = "live" /\ life'[w] = "exited"
      BY <1>a, <2>2 DEF Exit, NoMoreWork, Idle, At, InFlight, Busy, Begun
    <3> QED
      BY <1>b, <1>2, <2>a, <3>1 DEF Covered, supVars
  <2>3. ASSUME NEW t \in Tests, NEW s \in Stages, life[w] = "live", UNCHANGED life,
               stage' = [stage EXCEPT ![w][t] = s],
               s \in InHand \/ t \in Recorded' \/ stage[w][t] \notin InHand
        PROVE  Covered'
    <3>1. /\ stage'[w][t] = s
          /\ \A u \in Tests \ {t} : stage'[w][u] = stage[w][u]
      BY <1>a, <2>3
    <3>2. At(w, InHand) \subseteq Recorded' \cup At(w, InHand)'
      BY <2>3, <3>1 DEF At
    <3>3. life'[w] = "live" /\ all \subseteq Recorded' \cup At(w, InHand)'
      BY <2>a, <2>3, <3>2
    <3> QED
      BY <2>0, <3>3
  <2>4. CASE Take(w)
    <3>1. Min(At(w, {"todo"})) \in Tests
      BY <2>4, MinIsAMember DEF Take, At
    <3> QED
      BY <2>3, <2>4, <3>1 DEF Take, Idle, Begun, Stages, InFlight, Busy
  <2>5. ASSUME NEW t \in Tests,
               \/ SpawnTest(w, t) \/ SpawnTestFails(w, t) \/ NotePid(w, t)
               \/ Settle(w, t) \/ SettleKilled(w, t)
        PROVE  Covered'
    <3>1. /\ life[w] = "live" /\ UNCHANGED life
          /\ \E s \in {"spawned", "running", "ran", "killed"} :
                 stage' = [stage EXCEPT ![w][t] = s]
      BY <2>5 DEF SpawnTest, SpawnTestFails, NotePid, Settle, SettleKilled, Idle
    <3> QED
      BY <2>3, <3>1 DEF Begun, Stages, InFlight, Busy
  <2>6. ASSUME NEW t \in Tests, AppendRecord(w, t) PROVE Covered'
    <3>1. /\ life[w] = "live" /\ UNCHANGED life
          /\ stage' = [stage EXCEPT ![w][t] = "appended"]
          /\ stage[w][t] \in Outcomes /\ appendLine(t, stage[w][t])
      BY <2>6 DEF AppendRecord, Outcomes
    <3>2. t \in Recorded'
      BY <1>a, <3>1, AppendIsRead
    <3> QED
      BY <2>3, <3>1, <3>2 DEF Stages, InFlight, Busy
  <2>7. ASSUME NEW t \in Tests, ClearEntry(w, t) PROVE Covered'
    <3>1. /\ life[w] = "live" /\ UNCHANGED life /\ stage[w][t] = "appended"
          /\ stage' = [stage EXCEPT ![w][t] = "out"]
      BY <2>7 DEF ClearEntry
    <3> QED
      BY <2>3, <3>1 DEF Begun, Stages
  <2> QED
    BY <2>1, <2>2, <2>4, <2>5, <2>6, <2>7 DEF WorkerStep
<1> QED
  BY <1>1, <1>2
\* Steps of the supervisor.
LEMMA SupCovered ==
    ASSUME TypeOK, Covered, SupStep, Recorded \subseteq Recorded'
    PROVE  Covered'
<1>a. /\ stage \in [Workers -> [Tests -> Stages]]
      /\ life \in [Workers -> {"gone", "boot", "live", "wedged", "exited", "failed"}]
      /\ all \subseteq Tests
  BY DEF TypeOK
<1>1. CASE WipeInflight \/ harvestInflight \/ Finish
  BY <1>1 DEF WipeInflight, harvestInflight, Finish, Covered
<1>2. CASE MarkCrash \/ clearInflight
  BY <1>2 DEF MarkCrash, clearInflight, Covered
<1>3. CASE Continue \/ GiveUp \/ Stall
  BY <1>3 DEF Continue, GiveUp, EndOfCycle, Stall, Returned, Covered
<1>4. CASE ChildExit
  BY <1>4 DEF ChildExit, Returned, Covered
<1>5. ASSUME NEW w \in Workers, spawnWorker(w) PROVE Covered'
  <2>1. /\ sup = "loop" /\ sup' = "watch" /\ child' = w /\ UNCHANGED <<all, result>>
        /\ life'[w] = "boot" /\ \A t \in all : stage'[w][t] = "todo"
    BY <1>5, <1>a DEF spawnWorker
  <2>2. result' # "done"
    BY <2>1 DEF Covered
  <2> QED
    BY <1>a, <2>1, <2>2 DEF Covered, At
<1> QED
  BY <1>1, <1>2, <1>3, <1>4, <1>5 DEF SupStep

\* And what the program does not control.
LEMMA EnvironmentCovered ==
    ASSUME TypeOK, Covered, Environment, Recorded \subseteq Recorded'
    PROVE  Covered'
<1>a. life \in [Workers -> {"gone", "boot", "live", "wedged", "exited", "failed"}]
  BY DEF TypeOK
<1>1. CASE CtrlC \/ spawnWorkerFails \/ Restart
  BY <1>1 DEF CtrlC, spawnWorkerFails, Restart, SupGone, Covered
<1>2. ASSUME NEW w \in Workers, Wedge(w) \/ WorkerDies(w) PROVE Covered'
  <2>1. /\ UNCHANGED supVars /\ life'[w] \in {"wedged", "failed"}
        /\ \A v \in Workers \ {w} : life'[v] = life[v] /\ stage'[v] = stage[v]
    BY <1>2, <1>a DEF Wedge, WorkerDies, Bury, TypeOK
  <2>2. CASE sup = "watch" /\ child = w
    BY <2>1, <2>2 DEF Covered, supVars
  <2>3. CASE ~(sup = "watch" /\ child = w)
    BY <2>1, <2>3, OthersKeepCovered DEF TypeOK
  <2> QED
    BY <2>2, <2>3
<1>3. CASE (\E p \in Pids : OrphanEnds(p)) \/ (\E t \in Tests : Vanish(t))
  BY <1>3, OthersKeepCovered DEF OrphanEnds, Vanish, workerVars
<1> QED
  BY <1>1, <1>2, <1>3 DEF Environment

LEMMA NextCycle ==
    ASSUME "tear" \notin Faults, "vanish" \notin Faults
    PROVE  TypeOK /\ Cycle /\ [Next]_vars => Cycle'
<1> SUFFICES ASSUME TypeOK, Cycle, [Next]_vars PROVE Cycle'
  OBVIOUS
<1>1. tail' = Clean /\ present' = Tests /\ Counted'
  BY NextClean, NextPresent, NextCounted DEF Cycle
<1>2. Covered'
  <2>1. CASE Start
    BY <2>1 DEF Start, Launch, Cycle, Covered
  <2>2. CASE UNCHANGED vars
    BY <2>2, UnchangedRecords, OthersKeepCovered DEF Cycle, vars, fileVars, supVars
  <2>3. CASE ~Start /\ Next
    <3>1. Recorded \subseteq Recorded'
      BY <2>3, RecordsStay DEF Cycle
    <3> QED
      BY <2>3, <3>1, WorkerCovered, SupCovered, EnvironmentCovered DEF Next, Cycle
  <2> QED
    BY <2>1, <2>2, <2>3
<1> QED
  BY <1>1, <1>2 DEF Cycle

LEMMA AlwaysCycle ==
    ASSUME "tear" \notin Faults, "vanish" \notin Faults
    PROVE  Spec => []Cycle
<1>1. TypeOK /\ Cycle /\ [Next]_vars => Cycle'
  BY NextCycle
<1> QED
  BY <1>1, InitCycle, TypeCorrect, PTL DEF Spec

(***************************************************************************)
(* A worker that exits with code 0 has left a record for every test of the *)
(* sweep: main is right to take a clean exit for progress (lines 193-195), *)
(* as long as the worker finds the test files the supervisor found.  (The  *)
(* run vanish shows what happens where it does not.)                       *)
(***************************************************************************)
CleanExitIsComplete == result = "done" => all \subseteq Recorded
THEOREM CleanExits ==
    ASSUME "tear" \notin Faults, "vanish" \notin Faults
    PROVE  Spec => []CleanExitIsComplete
<1>1. Cycle => CleanExitIsComplete
  BY DEF Cycle, Covered, CleanExitIsComplete
<1> QED
  BY <1>1, AlwaysCycle, PTL

\* The arithmetic of the budget: b records before the cycle and r after it,
\* k fruitless cycles before and l after it.
LEMMA LessIsLeft ==
    ASSUME NEW T \in Nat, NEW M \in Nat \ {0}, NEW b \in Nat, NEW r \in Nat,
           NEW k \in Nat, NEW l \in Nat, b <= r, r <= T, k < M, l < M,
           l = k + 1 \/ (b < r /\ l = 0)
    PROVE  (T - r) * M + (M - l) \in 1 .. (T - b) * M + (M - k) - 1
<1> DEFINE d == r - b
           x == (T - r) * M
<1>1. d \in Nat /\ T - b = (T - r) + d /\ T - r \in Nat
  OBVIOUS
<1>2. (T - b) * M = x + d * M
  BY <1>1
<1>3. x \in Nat /\ d * M \in Nat
  BY <1>1
<1>4. b < r => d * M >= M
  <2> SUFFICES ASSUME b < r PROVE d * M >= M
    OBVIOUS
  <2>1. PICK e \in Nat : d = e + 1
    BY <1>1
  <2>2. d * M = e * M + M /\ e * M \in Nat
    BY <2>1
  <2> QED
    BY <2>2
<1>5. (T - b) * M \in Nat
  BY <1>2, <1>3
<1> HIDE DEF d, x
<1> DEFINE y == (T - b) * M
           z == d * M
<1>6. y = x + z /\ x \in Nat /\ z \in Nat /\ y \in Nat /\ (b < r => z >= M)
  BY <1>2, <1>3, <1>4, <1>5
<1> HIDE DEF y, z
<1>7. x + (M - l) \in 1 .. y + (M - k) - 1
  BY <1>6
<1> QED
  BY <1>7 DEF x, y

LEMMA BudgetShrinks ==
    ASSUME NEW b \in Nat, NEW r \in Nat, NEW k \in Nat, NEW l \in Nat, b <= r,
           r <= Cardinality(Tests), k < MaxNoProgress, l < MaxNoProgress,
           l = k + 1 \/ (b < r /\ l = 0)
    PROVE  Budget(r, l) \in 1 .. Budget(b, k) - 1
<1> DEFINE T == Cardinality(Tests)
           M == MaxNoProgress
<1>1. T \in Nat /\ M \in Nat \ {0} /\ r <= T /\ k < M /\ l < M
  BY RecordCounts DEF CorpusAssumption
<1>2. Budget(r, l) = (T - r) * M + (M - l) /\ Budget(b, k) = (T - b) * M + (M - k)
  BY DEF Budget
<1> HIDE DEF T, M
<1>3. (T - r) * M + (M - l) \in 1 .. (T - b) * M + (M - k) - 1
  BY <1>1, LessIsLeft
<1> QED
  BY <1>1, <1>2, <1>3

\* What a cycle does to the budget.
LEMMA CycleCounts ==
    ASSUME TypeOK, Cycle, Next, sup = "judge", sup' = "loop", result # "none",
           ~(all \subseteq Recorded)
    PROVE  Budget(Cardinality(Recorded), noProgress') \in 1 .. Budget(before, noProgress) - 1
<1>1. Continue
  <2>1. ~Start
    BY DEF Start, Launch
  <2>2. SupStep
    BY <2>1, OthersKeepSup DEF Next
  <2> QED
    BY <2>2
       DEF SupStep, WipeInflight, harvestInflight, MarkCrash, clearInflight, GiveUp, Finish,
           Stall, ChildExit, spawnWorker
<1>2. result \in {"stall", "exit"}
  BY DEF TypeOK, Cycle, Covered
<1>3. /\ before \in Nat /\ noProgress \in Nat /\ noProgress < MaxNoProgress
      /\ MaxNoProgress \in Nat \ {0}
      /\ before <= Cardinality(Recorded) /\ (grew => before < Cardinality(Recorded))
  BY DEF TypeOK, Cycle, Counted, CorpusAssumption
<1>4. /\ noProgress' \in Nat /\ noProgress' < MaxNoProgress
      /\ noProgress' = noProgress + 1 \/ (before < Cardinality(Recorded) /\ noProgress' = 0)
  BY <1>1, <1>2, <1>3 DEF Continue, Fruitless
<1>5. Cardinality(Recorded) \in Nat /\ Cardinality(Recorded) <= Cardinality(Tests)
  BY RecordCounts
<1> QED
  BY <1>3, <1>4, <1>5, BudgetShrinks

(***************************************************************************)
(* The loop of main runs out: each cycle lowers a budget that stays above  *)
(* zero, whatever becomes of the workers, with SIGKILLs and spawns that    *)
(* fail, restarts and Ctrl-C.  This is what SweepEnds rests on; what is    *)
(* left of it, that each cycle ends, needs fairness.                       *)
(***************************************************************************)
THEOREM LoopRunsOut ==
    ASSUME "tear" \notin Faults, "vanish" \notin Faults
    PROVE  Spec => EveryCycleCounts
<1>1. TypeOK /\ Cycle /\ [Next]_vars
        => [sup = "judge" /\ sup' = "loop" /\ result # "none" =>
               \/ all \subseteq Recorded
               \/ Budget(Cardinality(Recorded), noProgress')
                    \in 1 .. Budget(before, noProgress) - 1]_vars
  <2> SUFFICES ASSUME TypeOK, Cycle, Next, sup = "judge", sup' = "loop", result # "none",
                      ~(all \subseteq Recorded)
               PROVE  Budget(Cardinality(Recorded), noProgress')
                        \in 1 .. Budget(before, noProgress) - 1
    OBVIOUS
  <2> QED
    BY CycleCounts
<1> QED
  BY <1>1, AlwaysCycle, TypeCorrect, PTL DEF Spec, EveryCycleCounts

LEMMA MaxCyclesIsNat == MaxCycles \in Nat
BY RecordCounts DEF MaxCycles, CorpusAssumption

\* What is left of the budget is at least one while the loop goes on, and at
\* most all of it.
LEMMA BudgetBounds ==
    ASSUME NEW r \in Nat, NEW k \in Nat, r <= Cardinality(Tests), k < MaxNoProgress
    PROVE  Budget(r, k) \in 1 .. MaxCycles
<1> DEFINE T == Cardinality(Tests)
           M == MaxNoProgress
<1>1. T \in Nat /\ M \in Nat \ {0}
  BY RecordCounts DEF CorpusAssumption
<1>2. T - r \in Nat /\ T = (T - r) + r
  BY <1>1
<1>3. (T - r) * M \in Nat /\ r * M \in Nat /\ (T + 1) * M = (T - r) * M + r * M + M
  BY <1>1, <1>2
<1> QED
  BY <1>1, <1>3 DEF Budget, MaxCycles

\* Records that are added lower it.
LEMMA BudgetFalls ==
    ASSUME NEW r \in Nat, NEW s \in Nat, NEW k \in Nat, r <= s, s <= Cardinality(Tests),
           k < MaxNoProgress
    PROVE  Budget(s, k) <= Budget(r, k)
<1> DEFINE T == Cardinality(Tests)
           M == MaxNoProgress
<1>1. T \in Nat /\ M \in Nat \ {0}
  BY RecordCounts DEF CorpusAssumption
<1>2. T - s \in Nat /\ s - r \in Nat /\ T - r = (T - s) + (s - r)
  BY <1>1
<1>3. (T - s) * M \in Nat /\ (s - r) * M \in Nat /\ (T - r) * M = (T - s) * M + (s - r) * M
  BY <1>1, <1>2
<1> QED
  BY <1>1, <1>3 DEF Budget

LEMMA NextSpent ==
    ASSUME TypeOK, TypeOK', Cycle, Cycle', Spent, [CyclesNext]_<<vars, cycles>>
    PROVE  Spent'
<1>a. /\ cycles \in Nat /\ cycles <= MaxCycles /\ MaxCycles \in Nat
      /\ before \in Nat /\ before' \in Nat /\ noProgress \in Nat /\ noProgress' \in Nat
      /\ noProgress < MaxNoProgress /\ noProgress' < MaxNoProgress
      /\ before <= Cardinality(Recorded) /\ before' <= Cardinality(Recorded')
  BY MaxCyclesIsNat DEF Spent, TypeOK, Cycle, Counted
<1>b. /\ Cardinality(Recorded) \in Nat /\ Cardinality(Recorded') \in Nat
      /\ Cardinality(Recorded) <= Cardinality(Tests)
      /\ Cardinality(Recorded') <= Cardinality(Tests)
      /\ before <= Cardinality(Tests) /\ before' <= Cardinality(Tests)
  <2>1. IsFiniteSet(Tests) /\ Recorded' \subseteq Tests
    BY DEF Recorded, TestsAssumption
  <2>2. Cardinality(Recorded') <= Cardinality(Tests)
    BY <2>1, FS_Subset
  <2> QED
    BY <1>a, <2>2, RecordCounts
<1>c. /\ Budget(before, noProgress) \in 1 .. MaxCycles
      /\ Budget(before', noProgress') \in 1 .. MaxCycles
      /\ Budget(Cardinality(Recorded), noProgress) \in 1 .. MaxCycles
      /\ Budget(Cardinality(Recorded'), noProgress') \in 1 .. MaxCycles
  BY <1>a, <1>b, BudgetBounds
<1>0. CASE UNCHANGED <<vars, cycles>>
  <2>1. Recorded' = Recorded
    BY <1>0 DEF vars, Recorded, readLedger
  <2> QED
    BY <1>0, <2>1 DEF Spent, vars, Budget, MaxCycles
<1>1. CASE Next /\ CountsCycles
  <2>1. CASE Start
    <3>1. cycles' = 0 /\ sup' \in {"wipe", "harvest"}
      BY <1>1, <2>1 DEF Start, Launch, CountsCycles, TypeOK
    <3> QED
      BY <1>c, <1>a, <3>1 DEF Spent, Budget, MaxCycles
  <2>2. CASE ~Start
    <3>a. launches' = launches
      BY <1>1, <2>2, LaunchesStay
    <3>b. Recorded \subseteq Recorded' /\ Cardinality(Recorded) <= Cardinality(Recorded')
      BY <1>1, <2>2, RecordsStay, RecordCounts DEF Cycle
    <3>0. ASSUME cycles' = cycles, sup' \in {"off", "finished", "aborted"} PROVE Spent'
      BY <1>a, <3>0 DEF Spent, MaxCycles
    <3>1. ASSUME UNCHANGED <<sup, all, result, before, noProgress>> PROVE Spent'
      <4>1. cycles' = cycles
        BY <1>1, <3>a, <3>1 DEF CountsCycles
      <4>2. Budget(Cardinality(Recorded'), noProgress) <= Budget(Cardinality(Recorded), noProgress)
        BY <1>a, <1>b, <3>b, BudgetFalls
      <4> QED
        BY <1>a, <1>c, <3>1, <3>b, <4>1, <4>2 DEF Spent, MaxCycles, Budget
    <3>2. CASE WipeInflight \/ harvestInflight \/ MarkCrash \/ clearInflight
      <4>1. /\ UNCHANGED <<result, before, noProgress>> /\ cycles' = cycles
            /\ sup \in {"wipe", "harvest", "mark"} /\ sup' \in {"harvest", "mark", "judge"}
            /\ sup = "wipe" => cycles = 0
        BY <1>1, <3>2, <3>a DEF WipeInflight, harvestInflight, MarkCrash, clearInflight,
                                CountsCycles, Spent
      <4> QED
        BY <1>a, <1>c, <4>1 DEF Spent, MaxCycles, Budget
    <3>3. CASE Continue
      <4>1. /\ sup = "judge" /\ sup' = "loop" /\ UNCHANGED <<fileVars, all>>
            /\ cycles' = cycles /\ Recorded' = Recorded
        BY <1>1, <3>3, <3>a
           DEF Continue, CountsCycles, Recorded, readLedger, fileVars
      <4>2. CASE result = "none"
        <5>1. cycles = 0
          BY <4>1, <4>2 DEF Spent
        <5> QED
          BY <1>a, <1>c, <4>1, <5>1 DEF Spent, MaxCycles
      <4>3. CASE result # "none" /\ ~(all \subseteq Recorded)
        <5>1. Budget(Cardinality(Recorded), noProgress') \in 1 .. Budget(before, noProgress) - 1
          BY <1>1, <4>1, <4>3, CycleCounts
        <5>2. cycles + Budget(before, noProgress) <= MaxCycles + 1
          BY <4>1 DEF Spent
        <5> QED
          BY <1>a, <1>c, <4>1, <5>1, <5>2 DEF Spent, MaxCycles
      <4>4. CASE all \subseteq Recorded
        BY <1>a, <4>1, <4>4 DEF Spent, MaxCycles
      <4> QED
        BY <4>2, <4>3, <4>4
    <3>4. CASE GiveUp \/ Finish
      BY <1>1, <3>0, <3>4, <3>a DEF GiveUp, Finish, CountsCycles
    <3>5. CASE Stall \/ ChildExit
      <4>1. /\ UNCHANGED <<before, noProgress>> /\ cycles' = cycles /\ sup = "watch"
            /\ sup' \in {"harvest", "mark"} /\ result' # "none"
        BY <1>1, <3>5, <3>a DEF Stall, ChildExit, Returned, CountsCycles
      <4> QED
        BY <1>a, <1>c, <4>1 DEF Spent, MaxCycles, Budget
    <3>6. ASSUME NEW w \in Workers, spawnWorker(w) PROVE Spent'
      <4>1. /\ sup = "loop" /\ sup' = "watch" /\ ~(all \subseteq Recorded)
            /\ noProgress' = noProgress /\ before' = Cardinality(Recorded)
            /\ cycles' = cycles + 1
        BY <1>1, <3>6, <3>a DEF spawnWorker, CountsCycles
      <4>2. cycles + Budget(Cardinality(Recorded), noProgress) <= MaxCycles
        BY <4>1 DEF Spent
      <4>3. Budget(before', noProgress') = Budget(Cardinality(Recorded), noProgress)
        BY <4>1 DEF Budget
      <4> QED
        BY <1>a, <1>c, <4>1, <4>2, <4>3 DEF Spent, MaxCycles
    <3>7. CASE CtrlC \/ spawnWorkerFails \/ Restart
      BY <1>1, <3>0, <3>7, <3>a DEF CtrlC, spawnWorkerFails, Restart, SupGone, SupRuns,
                                    CountsCycles
    <3>8. ASSUME NEW w \in Workers, WorkerStep(w) PROVE UNCHANGED supVars
      BY <3>8 DEF WorkerStep, Boot, Take, Exit, SpawnTest, SpawnTestFails, NotePid, Settle,
                  SettleKilled, AppendRecord, ClearEntry
    <3> QED
      BY <1>1, <2>2, <3>1, <3>2, <3>3, <3>4, <3>5, <3>6, <3>7, <3>8
         DEF Next, SupStep, Environment, Wedge, WorkerDies, OrphanEnds, Vanish, supVars
  <2> QED
    BY <2>1, <2>2
<1> QED
  BY <1>0, <1>1 DEF CyclesNext

(***************************************************************************)
(* A start launches no more than (|Tests| + 1) * MAX_NOPROGRESS workers,   *)
(* whatever becomes of them, with SIGKILLs and spawns that fail, restarts  *)
(* and Ctrl-C (main's loop, lines 175-205).                                *)
(***************************************************************************)
THEOREM CyclesBounded ==
    ASSUME "tear" \notin Faults, "vanish" \notin Faults
    PROVE  CyclesSpec => []CyclesAreBounded
<1>1. CyclesSpec => Spec
  <2>1. CyclesInit => Init
    BY DEF CyclesInit
  <2>2. [CyclesNext]_<<vars, cycles>> => [Next]_vars
    BY DEF CyclesNext
  <2> QED
    BY <2>1, <2>2, PTL DEF CyclesSpec, Spec
<1>2. CyclesInit => Spent
  <2> SUFFICES ASSUME CyclesInit PROVE Spent
    OBVIOUS
  <2>1. MaxCycles \in Nat
    BY MaxCyclesIsNat
  <2> QED
    BY <2>1 DEF CyclesInit, Init, Spent
<1>3. TypeOK /\ TypeOK' /\ Cycle /\ Cycle' /\ Spent /\ [CyclesNext]_<<vars, cycles>> => Spent'
  BY NextSpent
<1>4. Spent => CyclesAreBounded
  BY DEF Spent, CyclesAreBounded
<1> QED
  BY <1>1, <1>2, <1>3, <1>4, AlwaysCycle, TypeCorrect, PTL DEF CyclesSpec

-----------------------------------------------------------------------------
(* The text behind the ledger.                                             *)

Pieces == Whole \cup {Part, NewLine}

\* Records, parts and newlines are different things.
LEMMA PiecesDiffer ==
    /\ Part # NewLine /\ Part \notin Whole /\ NewLine \notin Whole /\ Clean \notin Whole
    /\ Clean # Junk
    /\ \A r \in Whole : r.test \in Tests /\ r.status \in Outcomes
<1>1. 0 \notin Tests
  BY DEF TestsAssumption
<1>2. Part.test = 0 /\ NewLine.test = 0 /\ Clean.test = 0
  BY DEF Part, NewLine, Clean
<1>3. Part.status # NewLine.status /\ Clean.status # Junk.status
  BY DEF Part, NewLine, Clean, Junk
<1>4. \A r \in Whole : r.test \in Tests /\ r.status \in Outcomes
  BY DEF Whole
<1> QED
  BY <1>1, <1>2, <1>3, <1>4

\* When a text is written on, and not with a newline first, a record in it
\* parses as before, but for one at its end, which no longer parses.
LEMMA ParsedBefore ==
    ASSUME NEW f \in Files, NEW g \in Files, Len(f) < Len(g),
           \A i \in 1 .. Len(f) : g[i] = f[i],
           g[Len(f) + 1] # NewLine
    PROVE  \A i \in 1 .. Len(f) : i \in Parsed(g) <=> i \in Terminated(f)
<1> SUFFICES ASSUME NEW i \in 1 .. Len(f)
             PROVE  i \in Parsed(g) <=> i \in Terminated(f)
  OBVIOUS
<1>1. Len(f) \in Nat /\ Len(g) \in Nat /\ i \in 1 .. Len(g)
  BY DEF Files
<1>2. StartsLine(g, i) <=> StartsLine(f, i)
  <2>1. CASE i = 1
    BY <2>1 DEF StartsLine
  <2>2. CASE i # 1
    <3>1. i - 1 \in 1 .. Len(f)
      BY <1>1, <2>2
    <3> QED
      BY <2>2, <3>1 DEF StartsLine
  <2> QED
    BY <2>1, <2>2
<1>3. EndsLine(g, i) <=> EndsLine(f, i) /\ i # Len(f)
  <2>1. CASE i = Len(f)
    BY <1>1, <2>1 DEF EndsLine
  <2>2. CASE i # Len(f)
    <3>1. i + 1 \in 1 .. Len(f) /\ i # Len(g)
      BY <1>1, <2>2
    <3> QED
      BY <2>2, <3>1 DEF EndsLine
  <2> QED
    BY <2>1, <2>2
<1> QED
  BY <1>1, <1>2, <1>3 DEF Parsed, Terminated

\* The last record of a test is the same in two texts with the same records
\* of it in the same places.
LEMMA SameLast ==
    ASSUME NEW f, NEW g, NEW P, NEW Q, NEW t,
           \A i : i \in P /\ f[i].test = t <=> i \in Q /\ g[i].test = t,
           \A i \in P \cap Q : g[i] = f[i]
    PROVE  LastStatus(f, P, t) = LastStatus(g, Q, t)
<1>1. LastIn(f, P, t) = LastIn(g, Q, t)
  BY DEF LastIn
<1>2. \A i \in LastIn(f, P, t) : i \in P \cap Q
  BY DEF LastIn
<1> QED
  BY <1>1, <1>2 DEF LastStatus

\* A record after all others is the last one of its test.
LEMMA LastIsLast ==
    ASSUME NEW g, NEW Q \in SUBSET Nat, NEW n \in Q, \A j \in Q : j <= n,
           NEW t, g[n].test = t
    PROVE  LastStatus(g, Q, t) = g[n].status
<1>1. n \in LastIn(g, Q, t)
  BY DEF LastIn
<1>2. ASSUME NEW i \in LastIn(g, Q, t) PROVE i = n
  <2>1. i \in Q /\ n <= i /\ i <= n
    BY <1>2 DEF LastIn
  <2> QED
    BY <2>1
<1>3. (CHOOSE i \in LastIn(g, Q, t) : TRUE) \in LastIn(g, Q, t)
  BY <1>1
<1>4. (CHOOSE i \in LastIn(g, Q, t) : TRUE) = n
  BY <1>2, <1>3
<1> QED
  BY <1>1, <1>4 DEF LastStatus

\* The end of a text is clean if and only if a record could start there.
LEMMA CleanEnd ==
    ASSUME NEW f \in Files
    PROVE  TailOf(f) = Clean <=> Len(f) = 0 \/ f[Len(f)] = NewLine
<1>1. Len(f) \in Nat /\ (f = <<>> <=> Len(f) = 0)
  BY DEF Files
<1>2. Len(f) \in Parsed(f) => f[Len(f)] # Clean
  BY PiecesDiffer DEF Parsed
<1> QED
  BY <1>1, <1>2, PiecesDiffer DEF TailOf

\* A record that is written starts a line where the end was clean.
LEMMA StartsWhereClean ==
    ASSUME NEW f \in Files, NEW g, \A i \in 1 .. Len(f) : g[i] = f[i]
    PROVE  StartsLine(g, Len(f) + 1) <=> TailOf(f) = Clean
<1>1. Len(f) \in Nat
  BY DEF Files
<1>2. CASE Len(f) = 0
  BY <1>2, CleanEnd DEF StartsLine
<1>3. CASE Len(f) # 0
  <2>1. Len(f) \in 1 .. Len(f) /\ Len(f) + 1 # 1 /\ (Len(f) + 1) - 1 = Len(f)
    BY <1>1, <1>3
  <2> QED
    BY <1>3, <2>1, CleanEnd DEF StartsLine
<1> QED
  BY <1>2, <1>3

\* A completed append: its record is read if the end of the text was clean,
\* and the complete lines say of all other tests what they said before.
LEMMA CompletedLine ==
    ASSUME NEW f \in Files, NEW g \in Files, NEW r \in Whole,
           Len(g) = Len(f) + 2, \A i \in 1 .. Len(f) : g[i] = f[i],
           g[Len(f) + 1] = r, g[Len(f) + 2] = NewLine
    PROVE  /\ TailOf(g) = Clean
           /\ LedgerOf(g) = IF TailOf(f) = Clean THEN [LedgerOf(f) EXCEPT ![r.test] = r.status]
                                                 ELSE LedgerOf(f)
<1>1. Len(f) \in Nat /\ Len(g) \in Nat
  BY DEF Files
<1>2. TailOf(g) = Clean
  BY <1>1, CleanEnd
<1>3. \A i \in 1 .. Len(f) : i \in Terminated(g) <=> i \in Terminated(f)
  <2>1. Len(f) < Len(g) /\ g[Len(f) + 1] # NewLine
    BY <1>1, PiecesDiffer
  <2>2. \A i \in 1 .. Len(f) : i \in Parsed(g) <=> i \in Terminated(f)
    BY <2>1, ParsedBefore
  <2>3. \A i \in 1 .. Len(f) : i # Len(g)
    BY <2>1, <1>1
  <2> QED
    BY <2>2, <2>3 DEF Terminated
<1>4. Len(f) + 1 \in Terminated(g) <=> TailOf(f) = Clean
  <2>1. Len(f) + 1 \in 1 .. Len(g) /\ Len(f) + 1 # Len(g) /\ (Len(f) + 1) + 1 = Len(f) + 2
    BY <1>1
  <2>2. EndsLine(g, Len(f) + 1)
    BY <1>1, <2>1 DEF EndsLine
  <2> QED
    BY <2>1, <2>2, StartsWhereClean DEF Parsed, Terminated
<1>5. Terminated(f) \subseteq 1 .. Len(f) /\ Terminated(g) \subseteq 1 .. Len(f) + 1
  BY <1>1 DEF Parsed, Terminated
<1>6. ASSUME NEW t \in Tests, t # r.test \/ TailOf(f) # Clean
      PROVE  LastStatus(f, Terminated(f), t) = LastStatus(g, Terminated(g), t)
  <2>1. \A i : i \in Terminated(f) /\ f[i].test = t <=> i \in Terminated(g) /\ g[i].test = t
    <3> SUFFICES ASSUME NEW i
                 PROVE  i \in Terminated(f) /\ f[i].test = t
                          <=> i \in Terminated(g) /\ g[i].test = t
      OBVIOUS
    <3>1. CASE i \in 1 .. Len(f)
      BY <1>3, <3>1
    <3>2. CASE i = Len(f) + 1
      BY <1>1, <1>4, <1>5, <1>6, <3>2
    <3>3. i \in Terminated(f) \/ i \in Terminated(g) => i \in 1 .. Len(f) \/ i = Len(f) + 1
      BY <1>1, <1>5
    <3> QED
      BY <3>1, <3>2, <3>3
  <2>2. \A i \in Terminated(f) \cap Terminated(g) : g[i] = f[i]
    BY <1>5
  <2> QED
    BY <2>1, <2>2, SameLast
<1>7. TailOf(f) = Clean => LastStatus(g, Terminated(g), r.test) = r.status
  <2>1. Terminated(g) \in SUBSET Nat /\ \A j \in Terminated(g) : j <= Len(f) + 1
    BY <1>1, <1>5
  <2> QED
    BY <1>1, <1>4, <2>1, LastIsLast
<1>8. r.test \in Tests
  BY PiecesDiffer
<1> QED
  BY <1>2, <1>6, <1>7, <1>8 DEF LedgerOf

\* An append that is cut off: the complete lines say what they said before.
LEMMA CutLine ==
    ASSUME NEW f \in Files, NEW g \in Files, NEW p \in Whole \cup {Part},
           Len(g) = Len(f) + 1, \A i \in 1 .. Len(f) : g[i] = f[i], g[Len(f) + 1] = p
    PROVE  /\ LedgerOf(g) = LedgerOf(f)
           /\ TailOf(g) = IF p \in Whole /\ TailOf(f) = Clean THEN p ELSE Junk
<1>1. Len(f) \in Nat /\ p # NewLine /\ g # <<>>
  BY PiecesDiffer DEF Files
<1>2. \A i \in 1 .. Len(f) : i \in Parsed(g) <=> i \in Terminated(f)
  <2>1. Len(f) < Len(g) /\ g[Len(f) + 1] # NewLine
    BY <1>1
  <2> QED
    BY <2>1, ParsedBefore
<1>3. Terminated(f) \subseteq 1 .. Len(f) /\ Parsed(g) \subseteq 1 .. Len(f) + 1
  BY <1>1 DEF Parsed, Terminated
<1>4. Terminated(g) = Terminated(f)
  BY <1>1, <1>2, <1>3 DEF Terminated
<1>5. ASSUME NEW t \in Tests
      PROVE  LastStatus(f, Terminated(f), t) = LastStatus(g, Terminated(g), t)
  <2>1. \A i \in Terminated(f) : g[i] = f[i]
    BY <1>3
  <2> QED
    BY <1>4, <2>1, SameLast
<1>6. LedgerOf(g) = LedgerOf(f)
  BY <1>5 DEF LedgerOf
<1>7. Len(g) \in Parsed(g) <=> p \in Whole /\ TailOf(f) = Clean
  <2>1. Len(g) \in 1 .. Len(g) /\ EndsLine(g, Len(g))
    BY <1>1 DEF EndsLine
  <2> QED
    BY <2>1, StartsWhereClean DEF Parsed
<1>8. TailOf(g) = IF Len(g) \in Parsed(g) THEN p ELSE Junk
  BY <1>1 DEF TailOf
<1> QED
  BY <1>6, <1>7, <1>8

\* The empty text has an empty summary.
LEMMA NothingSumsUp == <<>> \in Files /\ LedgerOf(<<>>) = NoRecords /\ TailOf(<<>>) = Clean
<1>1. <<>> \in Files /\ Terminated(<<>>) = {}
  BY DEF Files, Parsed, Terminated
<1>2. \A t : LastStatus(<<>>, {}, t) = "none"
  BY DEF LastStatus, LastIn
<1> QED
  BY <1>1, <1>2 DEF LedgerOf, TailOf, NoRecords

\* readLedger reads the text and its summary alike.
LEMMA ReadsAlike ==
    ASSUME NEW f \in Files, SumsUp(f)
    PROVE  readLedger = ReadFile(f)
<1> SUFFICES ASSUME NEW t \in Tests
             PROVE  readLedger[t] = LastStatus(f, Parsed(f), t)
  BY DEF readLedger, ReadFile
<1>1. t # 0 /\ Len(f) \in Nat
  BY DEF TestsAssumption, Files
<1>2. readLedger[t] = IF t = tail.test THEN tail.status
                                      ELSE LastStatus(f, Terminated(f), t)
  BY DEF readLedger, SumsUp, LedgerOf
<1>3. Len(f) \in Parsed(f) => tail = f[Len(f)]
  BY <1>1, PiecesDiffer DEF SumsUp, TailOf, Parsed
<1>4. CASE t = tail.test
  <2>1. Len(f) \in Parsed(f) /\ tail = f[Len(f)]
    BY <1>1, <1>4 DEF SumsUp, TailOf, Clean, Junk
  <2>2. Parsed(f) \in SUBSET Nat /\ \A j \in Parsed(f) : j <= Len(f)
    BY <1>1 DEF Parsed
  <2> QED
    BY <1>2, <1>4, <2>1, <2>2, LastIsLast
<1>5. CASE t # tail.test
  <2>1. \A i : i \in Terminated(f) /\ f[i].test = t <=> i \in Parsed(f) /\ f[i].test = t
    BY <1>3, <1>5 DEF Terminated
  <2>2. LastStatus(f, Terminated(f), t) = LastStatus(f, Parsed(f), t)
    BY <2>1, SameLast
  <2> QED
    BY <1>2, <1>5, <2>2
<1> QED
  BY <1>4, <1>5

\* appendLine is what a completed append does to the summary.
LEMMA AppendSumsUp ==
    ASSUME NEW f \in Files, SumsUp(f), NEW t \in Tests, NEW s \in Outcomes
    PROVE  LET g == f \o <<[test |-> t, status |-> s], NewLine>>
           IN  g \in Completed(f) \cap Files /\ (appendLine(t, s) <=> SumsUp(g)')
<1> DEFINE r == [test |-> t, status |-> s]
           g == f \o <<r, NewLine>>
<1>1. r \in Whole
  BY DEF Whole
<1>2. g \in Files /\ Len(g) = Len(f) + 2 /\ (\A i \in 1 .. Len(f) : g[i] = f[i])
      /\ g[Len(f) + 1] = r /\ g[Len(f) + 2] = NewLine
  BY <1>1 DEF Files
<1>3. g \in Completed(f)
  BY <1>1 DEF Completed
<1> HIDE DEF g
<1>4. /\ TailOf(g) = Clean
      /\ LedgerOf(g) = IF TailOf(f) = Clean THEN [LedgerOf(f) EXCEPT ![r.test] = r.status]
                                            ELSE LedgerOf(f)
  BY <1>1, <1>2, CompletedLine
<1>5. appendLine(t, s) <=> SumsUp(g)'
  BY <1>4 DEF appendLine, SumsUp
<1> QED
  BY <1>2, <1>3, <1>5 DEF g

\* tearLine is what one that is cut off does to it.
LEMMA TearSumsUp ==
    ASSUME NEW f \in Files, SumsUp(f), NEW t \in Tests, NEW s \in Outcomes
    PROVE  LET Left == {f \o <<p>> : p \in {[test |-> t, status |-> s], Part}}
           IN  Left \subseteq CutOff(f) \cap Files
               /\ (tearLine(t, s) <=> \E g \in Left : SumsUp(g)')
<1> DEFINE r == [test |-> t, status |-> s]
           Left == {f \o <<p>> : p \in {r, Part}}
<1>1. r \in Whole /\ Part \notin Whole
  BY PiecesDiffer DEF Whole
<1>2. ASSUME NEW p \in {r, Part}
      PROVE  /\ f \o <<p>> \in CutOff(f) \cap Files
             /\ LedgerOf(f \o <<p>>) = LedgerOf(f)
             /\ TailOf(f \o <<p>>) = IF p = r /\ TailOf(f) = Clean THEN r ELSE Junk
  <2> DEFINE g == f \o <<p>>
  <2>1. p \in Whole \cup {Part} /\ (p \in Whole <=> p = r)
    BY <1>1
  <2>2. g \in Files /\ Len(g) = Len(f) + 1 /\ (\A i \in 1 .. Len(f) : g[i] = f[i])
        /\ g[Len(f) + 1] = p
    BY <2>1 DEF Files
  <2>3. g \in CutOff(f)
    BY <2>1 DEF CutOff
  <2> HIDE DEF g
  <2>4. LedgerOf(g) = LedgerOf(f)
        /\ TailOf(g) = IF p \in Whole /\ TailOf(f) = Clean THEN p ELSE Junk
    BY <2>1, <2>2, CutLine
  <2> QED
    BY <2>1, <2>2, <2>3, <2>4 DEF g
<1>3. Left \subseteq CutOff(f) \cap Files
  BY <1>2
<1>4. (\E g \in Left : SumsUp(g)') <=> \E p \in {r, Part} : SumsUp(f \o <<p>>)'
  OBVIOUS
<1>5. ASSUME NEW p \in {r, Part}
      PROVE  SumsUp(f \o <<p>>)' <=> /\ ledger' = ledger
                                     /\ tail' = IF p = r /\ tail = Clean THEN r ELSE Junk
  BY <1>2 DEF SumsUp
<1>6. tearLine(t, s) <=> \E p \in {r, Part} : SumsUp(f \o <<p>>)'
  BY <1>1, <1>5 DEF tearLine
<1> QED
  BY <1>3, <1>4, <1>6

(***************************************************************************)
(* The summary is exact.  For any text and any record, an append, one that *)
(* is cut off, and the removal of the file change what sums up the text    *)
(* into what sums up the text after it, and into nothing else: ledger and  *)
(* tail do what readLedger and appendFileSync make of progress.jsonl.      *)
(***************************************************************************)
THEOREM SummaryIsExact ==
    ASSUME NEW f \in Files, SumsUp(f), NEW t \in Tests, NEW s \in Outcomes
    PROVE  LET r == [test |-> t, status |-> s]
           IN  /\ readLedger = ReadFile(f)
               /\ appendLine(t, s) <=> SumsUp(f \o <<r, NewLine>>)'
               /\ tearLine(t, s) <=> \E p \in {r, Part} : SumsUp(f \o <<p>>)'
               /\ wipeFile <=> SumsUp(<<>>)'
<1>1. wipeFile <=> SumsUp(<<>>)'
  BY NothingSumsUp DEF wipeFile, SumsUp
<1>2. readLedger = ReadFile(f)
  BY ReadsAlike
<1> DEFINE r == [test |-> t, status |-> s]
<1>3. appendLine(t, s) <=> SumsUp(f \o <<r, NewLine>>)'
  BY AppendSumsUp
<1>4. tearLine(t, s) <=> \E g \in {f \o <<p>> : p \in {r, Part}} : SumsUp(g)'
  BY TearSumsUp
<1>5. tearLine(t, s) <=> \E p \in {r, Part} : SumsUp(f \o <<p>>)'
  BY <1>4
<1> QED
  BY <1>1, <1>2, <1>3, <1>5

\* Whatever a step of the system does to the ledger, it does to the text.
LEMMA EveryStepWrites ==
    ASSUME TypeOK, [Next]_vars, NEW f \in Files, SumsUp(f)
    PROVE  \E g \in Written(f) \cap Files : SumsUp(g)'
<1>1. CASE UNCHANGED fileVars
  <2>1. SumsUp(f)'
    BY <1>1 DEF fileVars, SumsUp
  <2> QED
    BY <2>1 DEF Written
<1>2. CASE wipeFile
  <2>1. SumsUp(<<>>)' /\ <<>> \in Files
    BY <1>2, NothingSumsUp DEF wipeFile, SumsUp
  <2> QED
    BY <2>1 DEF Written
<1>3. CASE Appends
  BY <1>3, AppendSumsUp DEF Appends, Written
<1>4. CASE Tears
  BY <1>4, TearSumsUp DEF Tears, Written
<1> QED
  BY <1>1, <1>2, <1>3, <1>4, OneWrite

(***************************************************************************)
(* progress.jsonl behind ledger and tail: under all faults there is a text *)
(* that they sum up and that readLedger, which splits it into lines and    *)
(* parses each, reads as Corpus does; and each step of the system goes on  *)
(* from any such text by one append, whole or cut off, by removing the     *)
(* file, or not at all.  So nothing is lost by not having the text in the  *)
(* model.                                                                  *)
(***************************************************************************)
TextGoesOn ==
    [][\A f \in Files : SumsUp(f) => \E g \in Written(f) \cap Files : SumsUp(g)']_vars

THEOREM LedgerIsAText ==
    Spec => /\ [](\E f \in Files : SumsUp(f) /\ readLedger = ReadFile(f))
            /\ TextGoesOn
<1> DEFINE Text == \E f \in Files : SumsUp(f)
           Goes == \A f \in Files : SumsUp(f) => \E g \in Written(f) \cap Files : SumsUp(g)'
<1>1. Init => Text
  BY NothingSumsUp DEF Init, EmptyFile, SumsUp
<1>2. TypeOK /\ [Next]_vars => [Goes]_vars
  BY EveryStepWrites
<1>3. Text /\ [Goes]_vars => Text'
  <2>1. CASE UNCHANGED vars
    BY <2>1 DEF vars, SumsUp
  <2>2. CASE Goes
    BY <2>2
  <2> QED
    BY <2>1, <2>2
<1>4. Text => \E f \in Files : SumsUp(f) /\ readLedger = ReadFile(f)
  BY ReadsAlike
<1> HIDE DEF Text
<1> QED
  BY <1>1, <1>2, <1>3, <1>4, TypeCorrect, PTL DEF Spec, TextGoesOn
=============================================================================
