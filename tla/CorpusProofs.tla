---------------------------- MODULE CorpusProofs ----------------------------
(***************************************************************************)
(* Proofs about Corpus: its types; that there is one worker at a time and  *)
(* so no test is run again; and that inflight.json has what the next       *)
(* harvest needs.                                                          *)
(***************************************************************************)
EXTENDS Corpus, FiniteSetTheorems, WellFoundedInduction, TLAPS

USE TestsAssumption, CorpusAssumption

\* The test taken, blamed or marked next is one of those it is chosen from.
LEMMA MinIsAMember ==
    ASSUME NEW S, S \subseteq Tests, S # {}
    PROVE  Min(S) \in S
<1> DEFINE R == OpToRel(<, Nat)
<1>1. IsWellFoundedOn(R, Nat)
  BY NatLessThanWellFounded
<1>2. S \subseteq Nat
  BY DEF TestsAssumption
<1>3. \A x, y \in S : <<y, x>> \notin R => x <= y
  BY <1>2 DEF OpToRel
<1> HIDE DEF R
<1>4. \E x \in S : \A y \in S : ~(<<y, x>> \in R)
  BY ONLY <1>1, <1>2, S # {}, WFMin
<1>5. \E x \in S : \A y \in S : x <= y
  BY <1>3, <1>4
<1> QED
  BY <1>5 DEF Min

-----------------------------------------------------------------------------
(* Type correctness.                                                       *)

\* The size of the ledger is a number.
LEMMA RecordedIsFinite ==
    IsFiniteSet(Recorded) /\ Cardinality(Recorded) \in Nat
<1>1. Recorded \in SUBSET Tests /\ IsFiniteSet(Tests)
  BY DEF Recorded, TestsAssumption
<1> QED
  BY <1>1, FS_Subset, FS_CardinalityType

\* An append, complete or cut short, keeps the type of the file.
LEMMA FileTypes ==
    ASSUME FileTypeOK, NEW t \in Tests, NEW s \in Outcomes, appendLine(t, s) \/ tearLine(t, s)
    PROVE  FileTypeOK'
<1>1. CASE appendLine(t, s)
  BY <1>1 DEF FileTypeOK, appendLine, Tails, Clean, Statuses
<1>2. CASE tearLine(t, s)
  BY <1>2 DEF FileTypeOK, tearLine, Tails, Clean, Junk
<1> QED
  BY <1>1, <1>2

\* What the ledger reads as is a status.
LEMMA LedgerType == FileTypeOK => readLedger \in [Tests -> Statuses]
<1>1. ASSUME FileTypeOK, NEW t \in Tests
      PROVE  (IF t = tail.test THEN tail.status ELSE ledger[t]) \in Statuses
  <2>1. t # 0
    BY DEF TestsAssumption
  <2>2. CASE tail \in {Clean, Junk}
    BY <1>1, <2>1, <2>2 DEF FileTypeOK, Clean, Junk
  <2>3. CASE tail \in [test : Tests, status : Outcomes]
    BY <1>1, <2>3 DEF FileTypeOK, Statuses
  <2> QED
    BY <1>1, <2>2, <2>3 DEF FileTypeOK, Tails
<1> QED
  BY <1>1 DEF readLedger

\* The types of what the workers' steps change.
WorkerTypes ==
    /\ life \in [Workers -> {"gone", "boot", "live", "wedged", "exited", "failed"}]
    /\ stage \in [Workers -> [Tests -> Stages]]
    /\ pid \in [Workers -> [Tests -> Pids \cup {NoPid}]]
Entries == [test : Tests, pid : Pids \cup {NoPid}]
ProcTypes == proc \in [Pids -> Tests \cup {0}] /\ noted \in SUBSET Pids

\* What a worker writes to inflight.json is a set of entries.
LEMMA InflightType ==
    ASSUME NEW w \in Workers, WorkerTypes', writeInflight(w)
    PROVE  inflight' \in SUBSET Entries
<1>1. ASSUME NEW t \in Tests PROVE Entry(w, t) \in Entries
  <2>1. pid'[w][t] \in Pids \cup {NoPid}
    BY DEF WorkerTypes
  <2> QED
    BY <2>1 DEF Entry, Entries
<1>2. inflight' \subseteq {Entry(w, t) : t \in Tests}
  BY DEF writeInflight
<1> QED
  BY <1>1, <1>2

\* Killing and ending test processes keeps the process table well typed.
LEMMA KillType ==
    ASSUME ProcTypes, NEW P, endGroups(P) \/ hardKill(P)
    PROVE  ProcTypes'
<1>1. PICK Q : Ended(Q)
  BY DEF hardKill, endGroups
<1>2. noted' = noted \ P
  BY DEF hardKill, endGroups
<1> QED
  BY <1>1, <1>2 DEF ProcTypes, Ended

\* The death of workers keeps their state, and the ghosts, well typed.
LEMMA BuryType ==
    ASSUME WorkerTypes, suspects \in SUBSET Tests, NEW W, NEW how \in {"gone", "failed"},
           Bury(W, how)
    PROVE  WorkerTypes' /\ suspects' \in SUBSET Tests
<1>1. WorkerTypes'
  BY DEF WorkerTypes, Bury, Stages
<1>2. \A w \in W : At(w, InFlight) \subseteq Tests
  BY DEF At
<1>3. UNION {At(w, InFlight) : w \in W} \subseteq Tests
  BY <1>2
<1>4. suspects' \in SUBSET Tests
  BY <1>3 DEF Bury
<1> QED
  BY <1>1, <1>4

\* So does a write that a death cuts off, for the two files.
LEMMA CutType ==
    ASSUME FileTypeOK, inflight \in SUBSET Entries, targets \in SUBSET Tests, WorkerTypes,
           NEW W \in SUBSET Workers, NEW s \in BOOLEAN, CutWrites(W, s)
    PROVE  FileTypeOK' /\ inflight' \in SUBSET Entries
<1>1. inflight' \in SUBSET Entries
  BY DEF CutWrites
<1>2. CASE UNCHANGED fileVars
  BY <1>1, <1>2 DEF fileVars, FileTypeOK
<1>3. ASSUME NEW w \in W, NEW t \in At(w, {"ran", "killed"}), tearLine(t, stage[w][t])
      PROVE  FileTypeOK'
  BY <1>3, FileTypes DEF At, Outcomes
<1>4. ASSUME targets # {}, tearLine(Min(targets), "crash")
      PROVE  FileTypeOK'
  BY <1>4, FileTypes, MinIsAMember DEF Outcomes
<1> QED
  BY <1>1, <1>2, <1>3, <1>4 DEF CutWrites

\* TypeOK in the groups the lemmas above speak of.
SupTypes ==
    /\ sup \in SupPhases
    /\ all \in SUBSET Tests
    /\ child \in Workers \cup {NoWorker}
    /\ sup = "watch" => child \in Workers
    /\ result \in {"none", "done", "stall", "exit"}
    /\ targets \in SUBSET Tests
    /\ before \in Nat
    /\ grew \in BOOLEAN
    /\ noProgress \in Nat
    /\ report \in [Tests -> Statuses]
EnvTypes ==
    /\ present \in SUBSET Tests
    /\ poison \in SUBSET Wedgers
    /\ launches \in 0..MaxLaunches

GroupTypes == /\ FileTypeOK
              /\ inflight \in SUBSET Entries
              /\ WorkerTypes
              /\ ProcTypes
              /\ SupTypes
              /\ EnvTypes
              /\ suspects \in SUBSET Tests

\* TypeOK is the conjunction of the groups.
LEMMA Groups == (TypeOK <=> GroupTypes) /\ (TypeOK' <=> GroupTypes')
BY DEF TypeOK, Entries, WorkerTypes, ProcTypes, SupTypes, EnvTypes, GroupTypes

\* The initial state is well typed.
LEMMA InitTypes == Init => TypeOK
<1> SUFFICES ASSUME Init PROVE TypeOK
  OBVIOUS
<1>1. FileTypeOK
  BY DEF Init, EmptyFile, FileTypeOK, NoRecords, Statuses, Tails
<1>2. WorkerTypes /\ ProcTypes
  BY DEF Init, WorkerTypes, ProcTypes, Stages
<1>3. SupTypes
  BY DEF Init, SupTypes, SupPhases, NoRecords, Statuses
<1> QED
  BY <1>1, <1>2, <1>3, Groups DEF GroupTypes, Init, EnvTypes, CorpusAssumption

\* Variables a step leaves alone keep their types.
LEMMA Unchanged ==
    TypeOK => /\ UNCHANGED fileVars => FileTypeOK'
              /\ UNCHANGED supVars => SupTypes'
              /\ UNCHANGED envVars => EnvTypes'
              /\ UNCHANGED workerVars => WorkerTypes'
BY Groups DEF GroupTypes, fileVars, FileTypeOK, supVars, SupTypes, envVars, EnvTypes, workerVars, WorkerTypes

\* One step per action of a worker.
LEMMA WorkerTypesStep ==
    ASSUME TypeOK, NEW w \in Workers, WorkerStep(w)
    PROVE  TypeOK'
<1> USE Groups, Unchanged
<1>a. GroupTypes
  OBVIOUS
<1> USE DEF GroupTypes
<1>1. CASE Boot(w)
  <2>1. WorkerTypes'
    BY <1>a, <1>1 DEF Boot, WorkerTypes, Stages
  <2> QED
    BY <1>a, <1>1, <2>1, InflightType DEF Boot, ProcTypes
<1>2. CASE Take(w)
  <2>1. WorkerTypes'
    BY <1>a, <1>2 DEF Take, WorkerTypes, Stages, InFlight, Busy
  <2> QED
    BY <1>a, <1>2, <2>1, InflightType DEF Take, ProcTypes
<1>3. CASE Exit(w)
  BY <1>a, <1>3 DEF Exit, WorkerTypes, ProcTypes
<1>4. ASSUME NEW t \in Tests, SpawnTest(w, t) PROVE TypeOK'
  BY <1>a, <1>4 DEF SpawnTest, WorkerTypes, ProcTypes, Stages, InFlight, Busy
<1>5. ASSUME NEW t \in Tests, SpawnTestFails(w, t) PROVE TypeOK'
  BY <1>a, <1>5 DEF SpawnTestFails, WorkerTypes, ProcTypes, Stages, InFlight, Busy
<1>6. ASSUME NEW t \in Tests, NotePid(w, t) PROVE TypeOK'
  <2>1. WorkerTypes' /\ ProcTypes'
    BY <1>a, <1>6 DEF NotePid, WorkerTypes, ProcTypes, GroupOf, Stages, InFlight, Busy
  <2> QED
    BY <1>a, <1>6, <2>1, InflightType DEF NotePid
<1>7. ASSUME NEW t \in Tests, Settle(w, t) PROVE TypeOK'
  <2>1. WorkerTypes' /\ ProcTypes'
    BY <1>a, <1>7, KillType DEF Settle, WorkerTypes, Stages, InFlight, Busy
  <2> QED
    BY <1>a, <1>7, <2>1 DEF Settle
<1>8. ASSUME NEW t \in Tests, SettleKilled(w, t) PROVE TypeOK'
  <2>1. WorkerTypes' /\ ProcTypes'
    BY <1>a, <1>8, KillType DEF SettleKilled, WorkerTypes, Stages, InFlight, Busy
  <2> QED
    BY <1>a, <1>8, <2>1 DEF SettleKilled
<1>9. ASSUME NEW t \in Tests, AppendRecord(w, t) PROVE TypeOK'
  <2>1. FileTypeOK'
    BY <1>a, <1>9, FileTypes DEF AppendRecord, Outcomes
  <2> QED
    BY <1>a, <1>9, <2>1 DEF AppendRecord, WorkerTypes, ProcTypes, Stages, InFlight, Busy
<1>10. ASSUME NEW t \in Tests, ClearEntry(w, t) PROVE TypeOK'
  <2>1. WorkerTypes'
    BY <1>a, <1>10 DEF ClearEntry, WorkerTypes, Stages
  <2> QED
    BY <1>a, <1>10, <2>1, InflightType DEF ClearEntry, ProcTypes
<1> QED
  BY <1>1, <1>2, <1>3, <1>4, <1>5, <1>6, <1>7, <1>8, <1>9, <1>10 DEF WorkerStep

\* The start of the supervisor.
LEMMA StartTypes ==
    ASSUME TypeOK, Start
    PROVE  TypeOK'
<1> USE Groups, Unchanged DEF GroupTypes
<1>1. PICK selection \in Selections, fresh \in BOOLEAN : Launch(selection, fresh)
  BY DEF Start
<1>2. EnvTypes'
  BY <1>1 DEF Launch, EnvTypes, CorpusAssumption
<1>3. SupTypes' /\ WorkerTypes' /\ ProcTypes'
  BY <1>1 DEF Launch, resolveTestSet, SupTypes, SupPhases, ProcTypes, EnvTypes
<1>4. FileTypeOK' /\ inflight' \in SUBSET Entries /\ suspects' \in SUBSET Tests
  <2>1. CASE fresh
    BY <1>1, <2>1 DEF Launch, wipeFile, FileTypeOK, NoRecords, Statuses, Tails
  <2>2. CASE ~fresh
    BY <1>1, <2>2 DEF Launch
  <2> QED
    BY <2>1, <2>2
<1> QED
  BY <1>2, <1>3, <1>4

\* One step per action of the supervisor.
LEMMA SupTypesStep ==
    ASSUME TypeOK, SupStep
    PROVE  TypeOK'
<1> USE Groups, Unchanged DEF GroupTypes
<1>0. CASE WipeInflight
  BY <1>0 DEF WipeInflight, SupTypes, SupPhases, ProcTypes
<1>1. CASE harvestInflight
  <2>1. ProcTypes'
    BY <1>1, KillType DEF harvestInflight
  <2>2. Unfinished \subseteq Tests
    BY DEF Unfinished, Entries
  <2>3. targets' \subseteq Tests
    <3>1. CASE Unfinished = {}
      BY <1>1, <3>1 DEF harvestInflight, Blamed
    <3>2. CASE Unfinished # {}
      <4>1. Min(Unfinished) \in Tests
        BY <2>2, <3>2, MinIsAMember
      <4> QED
        BY <1>1, <2>2, <4>1 DEF harvestInflight, Blamed
    <3> QED
      BY <3>1, <3>2
  <2> QED
    BY <1>1, <2>1, <2>3 DEF harvestInflight, SupTypes, SupPhases
<1>2. CASE MarkCrash
  <2>1. FileTypeOK'
    <3>1. Min(targets) \in Tests /\ "crash" \in Outcomes
      BY <1>2, MinIsAMember DEF MarkCrash, SupTypes, Outcomes
    <3> QED
      BY <1>2, <3>1, FileTypes DEF MarkCrash
  <2> QED
    BY <1>2, <2>1 DEF MarkCrash, SupTypes, ProcTypes
<1>3. CASE clearInflight
  BY <1>3 DEF clearInflight, SupTypes, SupPhases, ProcTypes
<1>4. CASE Continue
  <2>1. noProgress' \in Nat
    BY <1>4 DEF Continue, SupTypes
  <2> QED
    BY <1>4, <2>1 DEF Continue, EndOfCycle, SupTypes, SupPhases, ProcTypes
<1>5. CASE GiveUp
  <2>1. report' \in [Tests -> Statuses]
    BY <1>5, LedgerType DEF GiveUp, writeOutputs, Statuses
  <2> QED
    BY <1>5, <2>1 DEF GiveUp, EndOfCycle, SupTypes, SupPhases, ProcTypes
<1>6. CASE Finish
  <2>1. report' \in [Tests -> Statuses]
    BY <1>6, LedgerType DEF Finish, writeOutputs, Statuses
  <2> QED
    BY <1>6, <2>1 DEF Finish, SupTypes, SupPhases, ProcTypes
<1>7. CASE Stall
  <2>1. WorkerTypes' /\ suspects' \in SUBSET Tests
    BY <1>7, BuryType DEF Stall
  <2>2. child \in Workers
    BY <1>7 DEF Stall, SupTypes
  <2>3. FileTypeOK' /\ inflight' \in SUBSET Entries
    <3>1. {child} \in SUBSET Workers /\ CutWrites({child}, FALSE) /\ targets \in SUBSET Tests
      BY <1>7, <2>2 DEF Stall, SupTypes
    <3> QED
      BY <3>1, CutType
  <2> QED
    BY <1>7, <2>1, <2>3 DEF Stall, Returned, SupTypes, SupPhases, ProcTypes
<1>8. CASE ChildExit
  BY <1>8 DEF ChildExit, Returned, WorkerTypes, SupTypes, SupPhases, ProcTypes
<1>9. ASSUME NEW w \in Workers, spawnWorker(w) PROVE TypeOK'
  <2>1. WorkerTypes' /\ before' \in Nat
    BY <1>9, RecordedIsFinite DEF spawnWorker, WorkerTypes, Stages
  <2> QED
    BY <1>9, <2>1 DEF spawnWorker, SupTypes, SupPhases, ProcTypes
<1> QED
  BY <1>0, <1>1, <1>2, <1>3, <1>4, <1>5, <1>6, <1>7, <1>8, <1>9 DEF SupStep

\* What is left of a supervisor that is gone is well typed.
LEMMA SupGoneType ==
    ASSUME TypeOK, SupGone
    PROVE  SupTypes'
<1>1. SupTypes
  BY Groups DEF GroupTypes
<1> QED
  BY <1>1 DEF SupTypes, SupGone, SupPhases

\* One step per fault, and per step of processes the program does not control.
LEMMA EnvironmentTypes ==
    ASSUME TypeOK, Environment
    PROVE  TypeOK'
<1> USE Groups, Unchanged DEF GroupTypes
<1>1. CASE CtrlC
  <2>1. FileTypeOK' /\ inflight' \in SUBSET Entries
    BY <1>1, CutType DEF CtrlC, SupTypes
  <2> QED
    BY <1>1, <2>1, SupGoneType DEF CtrlC, ProcTypes
<1>2. CASE spawnWorkerFails
  BY <1>2, SupGoneType DEF spawnWorkerFails, ProcTypes
<1>3. CASE Restart
  <2>1. FileTypeOK' /\ inflight' \in SUBSET Entries
    BY <1>3, CutType DEF Restart, SupTypes
  <2>2. WorkerTypes' /\ suspects' \in SUBSET Tests /\ ProcTypes'
    BY <1>3, BuryType, KillType DEF Restart
  <2> QED
    BY <1>3, <2>1, <2>2, SupGoneType DEF Restart
<1>4. ASSUME NEW w \in Workers, Wedge(w) PROVE TypeOK'
  BY <1>4 DEF Wedge, WorkerTypes, ProcTypes
<1>5. ASSUME NEW w \in Workers, WorkerDies(w) PROVE TypeOK'
  <2>1. FileTypeOK' /\ inflight' \in SUBSET Entries
    <3>1. {w} \in SUBSET Workers /\ CutWrites({w}, FALSE) /\ targets \in SUBSET Tests
      BY <1>5 DEF WorkerDies, SupTypes
    <3> QED
      BY <3>1, CutType
  <2>2. WorkerTypes' /\ suspects' \in SUBSET Tests
    BY <1>5, BuryType DEF WorkerDies
  <2> QED
    BY <1>5, <2>1, <2>2 DEF WorkerDies, ProcTypes
<1>6. ASSUME NEW p \in Pids, OrphanEnds(p) PROVE TypeOK'
  BY <1>6, KillType DEF OrphanEnds
<1>7. ASSUME NEW t \in Tests, Vanish(t) PROVE TypeOK'
  BY <1>7 DEF Vanish, EnvTypes, ProcTypes
<1> QED
  BY <1>1, <1>2, <1>3, <1>4, <1>5, <1>6, <1>7 DEF Environment

\* TypeOK is inductive.
LEMMA NextTypes == TypeOK /\ [Next]_vars => TypeOK'
<1> SUFFICES ASSUME TypeOK, [Next]_vars PROVE TypeOK'
  OBVIOUS
<1>1. CASE UNCHANGED vars
  BY <1>1 DEF vars, TypeOK, FileTypeOK
<1> QED
  BY <1>1, StartTypes, SupTypesStep, WorkerTypesStep, EnvironmentTypes DEF Next

(***************************************************************************)
(* The files, the process table, the workers and the supervisor are always *)
(* well typed, under every combination of faults.                          *)
(***************************************************************************)
THEOREM TypeCorrect == Spec => []TypeOK
<1>1. Init => TypeOK
  BY InitTypes
<1>2. TypeOK /\ [Next]_vars => TypeOK'
  BY NextTypes
<1> QED
  BY <1>1, <1>2, PTL DEF Spec

-----------------------------------------------------------------------------
(***************************************************************************)
(* No test that has a record is run again, as long as the supervisor is    *)
(* not stopped under a running worker (Ctrl-C).                            *)
(*                                                                         *)
(* The inductive invariant.  A worker lives only while the supervisor      *)
(* watches it, so there is one writer at a time; a dead one has nothing in *)
(* hand; and whatever a live worker has taken but not appended has no      *)
(* record, nor has what a booted one still has to take.                    *)
(***************************************************************************)
Alone == \A w \in Workers : Alive(w) => sup = "watch" /\ child = w

DeadHasNothing == \A w \in Workers : ~Alive(w) => \A t \in Tests : stage[w][t] = "out"

Begun == {"listed", "spawned", "running", "ran", "killed"}
NotYetRecorded ==
    \A w \in Workers, t \in Tests :
        stage[w][t] \in Begun \/ (life[w] = "live" /\ stage[w][t] = "todo") => t \notin Recorded

OneWriter == Alone /\ DeadHasNothing /\ NotYetRecorded

\* An append adds at most the test it is for to those that are recorded.
LEMMA AppendAddsOne ==
    ASSUME FileTypeOK, NEW t \in Tests, NEW s \in Outcomes, appendLine(t, s) \/ tearLine(t, s)
    PROVE  Recorded' \subseteq Recorded \cup {t}
<1> SUFFICES ASSUME NEW u \in Tests, u # t, readLedger'[u] # "none"
             PROVE  readLedger[u] # "none"
  BY DEF Recorded
<1>1. u # 0 /\ t # 0
  BY DEF TestsAssumption
<1>2. ledger'[u] = ledger[u] /\ tail'.test # u
  <2>1. CASE appendLine(t, s)
    BY <1>1, <2>1 DEF appendLine, Clean, FileTypeOK
  <2>2. CASE tearLine(t, s)
    BY <1>1, <2>2 DEF tearLine, Junk, FileTypeOK
  <2> QED
    BY <2>1, <2>2
<1>3. ledger[u] # "none"
  BY <1>2 DEF readLedger
<1>4. CASE tail.test = u
  BY <1>1, <1>4 DEF FileTypeOK, Tails, Clean, Junk, readLedger, Outcomes
<1>5. CASE tail.test # u
  BY <1>3, <1>5 DEF readLedger
<1> QED
  BY <1>4, <1>5

\* A ledger that is not written has the same records.
LEMMA UnchangedRecords == UNCHANGED fileVars => Recorded' = Recorded
BY DEF fileVars, Recorded, readLedger

\* Steps after which no worker lives.
LEMMA NobodyLeft ==
    ASSUME \A w \in Workers : ~Alive(w)', DeadHasNothing'
    PROVE  OneWriter'
BY DEF OneWriter, Alone, NotYetRecorded, Begun, DeadHasNothing, Alive

\* The invariant holds at the start.
LEMMA InitOneWriter == Init => OneWriter
BY DEF Init, OneWriter, Alone, DeadHasNothing, NotYetRecorded, Begun, Alive

\* A step of worker w that moves one test keeps the invariant, if the test
\* has no record where it is Begun and nothing else gets one.
LEMMA OneTestMoves ==
    ASSUME TypeOK, OneWriter, NEW w \in Workers, Alive(w), UNCHANGED <<life, sup, child>>,
           NEW t \in Tests, NEW s \in Begun \cup {"appended", "out"},
           stage' = [stage EXCEPT ![w][t] = s],
           Recorded' \subseteq Recorded \cup {t},
           s \in Begun => t \notin Recorded'
    PROVE  OneWriter'
<1> USE DEF OneWriter
<1>a. stage \in [Workers -> [Tests -> Stages]]
  BY DEF TypeOK
<1>1. /\ stage'[w][t] = s
      /\ \A u \in Tests \ {t} : stage'[w][u] = stage[w][u]
      /\ \A v \in Workers \ {w} : stage'[v] = stage[v]
  BY <1>a
<1>2. \A v \in Workers : Alive(v)' <=> Alive(v)
  BY DEF Alive
<1>3. Alone'
  BY <1>2 DEF Alone
<1>4. DeadHasNothing'
  BY <1>1, <1>2 DEF DeadHasNothing
<1>5. NotYetRecorded'
  <2>1. \A v \in Workers \ {w}, u \in Tests : stage'[v][u] = "out"
    BY <1>1 DEF Alone, DeadHasNothing
  <2>2. \A u \in Tests \ {t} : u \in Recorded' => u \in Recorded
    OBVIOUS
  <2>3. \A u \in Tests \ {t} :
          stage'[w][u] \in Begun \/ (life'[w] = "live" /\ stage'[w][u] = "todo")
            => u \notin Recorded'
    BY <1>1, <2>2 DEF NotYetRecorded
  <2>4. stage'[w][t] \in Begun \/ (life'[w] = "live" /\ stage'[w][t] = "todo")
            => t \notin Recorded'
    BY <1>1 DEF Begun
  <2> QED
    BY <2>1, <2>3, <2>4 DEF NotYetRecorded, Begun
<1> QED
  BY <1>3, <1>4, <1>5

\* A step of a worker: it is the one that lives.
LEMMA WorkerOneWriter ==
    ASSUME TypeOK, OneWriter, NEW w \in Workers, WorkerStep(w)
    PROVE  OneWriter'
<1>a. /\ stage \in [Workers -> [Tests -> Stages]]
      /\ life \in [Workers -> {"gone", "boot", "live", "wedged", "exited", "failed"}]
      /\ FileTypeOK
  BY DEF TypeOK
<1>b. Alive(w)
  BY DEF WorkerStep, Alive, Boot, Take, Exit, NoMoreWork, Idle, SpawnTest, SpawnTestFails,
         NotePid, Settle, SettleKilled, AppendRecord, ClearEntry
<1>c. /\ sup = "watch" /\ child = w
      /\ \A v \in Workers \ {w} : ~Alive(v) /\ \A t \in Tests : stage[v][t] = "out"
  BY <1>b DEF OneWriter, Alone, DeadHasNothing
<1>1. CASE Boot(w)
  <2>1. Recorded' = Recorded /\ UNCHANGED <<sup, child>>
    BY <1>1, UnchangedRecords DEF Boot, supVars
  <2>2. /\ life'[w] = "live"
        /\ \A v \in Workers \ {w} : life'[v] = life[v] /\ stage'[v] = stage[v]
        /\ \A t \in Tests : stage'[w][t] = IF t \in Todo(w) THEN "todo" ELSE "out"
    BY <1>1, <1>a DEF Boot
  <2>3. Alone' /\ DeadHasNothing'
    BY <1>c, <2>1, <2>2 DEF Alone, DeadHasNothing, Alive
  <2>4. NotYetRecorded'
    BY <1>c, <2>1, <2>2 DEF NotYetRecorded, Begun, Todo
  <2> QED
    BY <2>3, <2>4 DEF OneWriter
<1>2. CASE Take(w)
  <2> DEFINE t == Min(At(w, {"todo"}))
  <2>1. t \in At(w, {"todo"})
    BY <1>2, MinIsAMember DEF Take, At
  <2>2. t \in Tests /\ t \notin Recorded
    BY <1>2, <2>1 DEF Take, At, Idle, OneWriter, NotYetRecorded
  <2>3. /\ UNCHANGED <<life, sup, child>> /\ Recorded' = Recorded
        /\ stage' = [stage EXCEPT ![w][t] = "listed"]
    BY <1>2, UnchangedRecords DEF Take, supVars
  <2> HIDE DEF t
  <2> QED
    BY <1>b, <2>2, <2>3, OneTestMoves DEF Begun
<1>3. CASE Exit(w)
  <2>1. \A t \in Tests : stage[w][t] = "out"
    BY <1>3, <1>a DEF Exit, NoMoreWork, At, InFlight, Stages
  <2>2. \A v \in Workers : ~Alive(v)'
    BY <1>3, <1>a, <1>c DEF Exit, Alive
  <2>3. DeadHasNothing'
    BY <1>3, <1>c, <2>1 DEF Exit, DeadHasNothing
  <2> QED
    BY <2>2, <2>3, NobodyLeft
<1>4. ASSUME NEW t \in Tests, SpawnTest(w, t) \/ SpawnTestFails(w, t) PROVE OneWriter'
  <2>1. /\ UNCHANGED <<life, sup, child>> /\ Recorded' = Recorded
        /\ stage' = [stage EXCEPT ![w][t] = "spawned"] /\ stage[w][t] = "listed"
    BY <1>4, UnchangedRecords DEF SpawnTest, SpawnTestFails, supVars
  <2> QED
    BY <1>b, <2>1, OneTestMoves DEF Begun, OneWriter, NotYetRecorded
<1>5. ASSUME NEW t \in Tests, NotePid(w, t) PROVE OneWriter'
  <2>1. /\ UNCHANGED <<life, sup, child>> /\ Recorded' = Recorded
        /\ stage' = [stage EXCEPT ![w][t] = "running"] /\ stage[w][t] = "spawned"
    BY <1>5, UnchangedRecords DEF NotePid, supVars
  <2> QED
    BY <1>b, <2>1, OneTestMoves DEF Begun, OneWriter, NotYetRecorded
<1>6. ASSUME NEW t \in Tests, Settle(w, t) \/ SettleKilled(w, t) PROVE OneWriter'
  <2>1. PICK s \in {"ran", "killed"} :
           /\ UNCHANGED <<life, sup, child>> /\ Recorded' = Recorded
           /\ stage' = [stage EXCEPT ![w][t] = s] /\ stage[w][t] = "running"
    BY <1>6, UnchangedRecords DEF Settle, SettleKilled, supVars
  <2> QED
    BY <1>b, <2>1, OneTestMoves DEF Begun, OneWriter, NotYetRecorded
<1>7. ASSUME NEW t \in Tests, AppendRecord(w, t) PROVE OneWriter'
  <2>1. /\ UNCHANGED <<life, sup, child>>
        /\ stage' = [stage EXCEPT ![w][t] = "appended"]
        /\ stage[w][t] \in Outcomes /\ appendLine(t, stage[w][t])
    BY <1>7 DEF AppendRecord, supVars, Outcomes
  <2>2. Recorded' \subseteq Recorded \cup {t}
    BY <1>a, <2>1, AppendAddsOne
  <2> QED
    BY <1>b, <2>1, <2>2, OneTestMoves DEF Begun
<1>8. ASSUME NEW t \in Tests, ClearEntry(w, t) PROVE OneWriter'
  <2>1. /\ UNCHANGED <<life, sup, child>> /\ Recorded' = Recorded
        /\ stage' = [stage EXCEPT ![w][t] = "out"]
    BY <1>8, UnchangedRecords DEF ClearEntry, supVars
  <2> QED
    BY <1>b, <2>1, OneTestMoves DEF Begun
<1> QED
  BY <1>1, <1>2, <1>3, <1>4, <1>5, <1>6, <1>7, <1>8 DEF WorkerStep

\* A supervisor that does not watch a worker has none.
LEMMA QuietStep ==
    ASSUME OneWriter, sup # "watch", UNCHANGED workerVars
    PROVE  OneWriter'
<1>1. \A w \in Workers : ~Alive(w) /\ ~Alive(w)'
  BY DEF OneWriter, Alone, workerVars, Alive
<1>2. DeadHasNothing'
  BY <1>1 DEF OneWriter, DeadHasNothing, workerVars
<1> QED
  BY <1>1, <1>2, NobodyLeft

\* Burying the only worker leaves none.
LEMMA BuryTheLast ==
    ASSUME TypeOK, OneWriter, NEW W \in SUBSET Workers, NEW how \in {"gone", "failed"},
           \A w \in Workers \ W : ~Alive(w), Bury(W, how)
    PROVE  OneWriter'
<1>1. \A w \in Workers : life'[w] = (IF w \in W THEN how ELSE life[w])
  BY DEF Bury
<1>2. \A w \in Workers : ~Alive(w)'
  BY <1>1 DEF Alive
<1>3. DeadHasNothing'
  BY DEF Bury, DeadHasNothing, OneWriter
<1> QED
  BY <1>2, <1>3, NobodyLeft

\* A step of the supervisor.
LEMMA SupOneWriter ==
    ASSUME TypeOK, OneWriter, SupStep
    PROVE  OneWriter'
<1>a. /\ stage \in [Workers -> [Tests -> Stages]]
      /\ life \in [Workers -> {"gone", "boot", "live", "wedged", "exited", "failed"}]
      /\ sup = "watch" => child \in Workers
      /\ sup = "watch" => \A w \in Workers \ {child} : ~Alive(w)
  BY DEF TypeOK, OneWriter, Alone
<1>1. CASE \/ WipeInflight \/ harvestInflight \/ MarkCrash \/ clearInflight
           \/ Continue \/ GiveUp \/ Finish
  <2>1. sup # "watch" /\ UNCHANGED workerVars
    BY <1>1 DEF WipeInflight, harvestInflight, MarkCrash, clearInflight, Continue, GiveUp, Finish
  <2> QED
    BY <2>1, QuietStep
<1>2. CASE Stall
  <2>1. {child} \in SUBSET Workers /\ Bury({child}, "gone")
    BY <1>2, <1>a DEF Stall
  <2>2. \A w \in Workers \ {child} : ~Alive(w)
    BY <1>2, <1>a DEF Stall
  <2> QED
    BY <2>1, <2>2, BuryTheLast
<1>3. CASE ChildExit
  <2>1. \A w \in Workers : ~Alive(w) /\ ~Alive(w)'
    BY <1>3, <1>a DEF ChildExit, Alive
  <2>2. DeadHasNothing'
    BY <1>3, <2>1 DEF ChildExit, OneWriter, DeadHasNothing
  <2> QED
    BY <2>1, <2>2, NobodyLeft
<1>4. ASSUME NEW w \in Workers, spawnWorker(w) PROVE OneWriter'
  <2>1. /\ \A v \in Workers : ~Alive(v)
        /\ \A v \in Workers : \A t \in Tests : stage[v][t] = "out"
    BY <1>4 DEF spawnWorker, OneWriter, Alone, DeadHasNothing
  <2>2. /\ life'[w] = "boot" /\ sup' = "watch" /\ child' = w
        /\ \A t \in Tests : stage'[w][t] \in {"todo", "out"}
        /\ \A v \in Workers \ {w} : life'[v] = life[v] /\ stage'[v] = stage[v]
    BY <1>4, <1>a DEF spawnWorker
  <2>3. Alone' /\ DeadHasNothing'
    BY <2>1, <2>2 DEF Alone, DeadHasNothing, Alive
  <2>4. \A v \in Workers, t \in Tests :
          ~(stage'[v][t] \in Begun) /\ ~(life'[v] = "live" /\ stage'[v][t] = "todo")
    BY <2>1, <2>2 DEF Begun
  <2>5. NotYetRecorded'
    BY <2>4 DEF NotYetRecorded
  <2> QED
    BY <2>3, <2>5 DEF OneWriter
<1> QED
  BY <1>1, <1>2, <1>3, <1>4 DEF SupStep

\* A start of the supervisor: no worker lives.
LEMMA StartOneWriter ==
    ASSUME OneWriter, Start
    PROVE  OneWriter'
<1>1. sup # "watch" /\ UNCHANGED workerVars
  BY DEF Start, Launch
<1> QED
  BY <1>1, QuietStep

\* What the program does not control, Ctrl-C excepted.
LEMMA EnvironmentOneWriter ==
    ASSUME "ctrlC" \notin Faults, TypeOK, OneWriter, Environment
    PROVE  OneWriter'
<1>a. /\ stage \in [Workers -> [Tests -> Stages]]
      /\ life \in [Workers -> {"gone", "boot", "live", "wedged", "exited", "failed"}]
  BY DEF TypeOK
<1>1. CASE CtrlC
  BY <1>1 DEF CtrlC
<1>2. CASE spawnWorkerFails
  <2>1. sup # "watch" /\ UNCHANGED workerVars
    BY <1>2 DEF spawnWorkerFails
  <2> QED
    BY <2>1, QuietStep
<1>3. CASE Restart
  <2>1. Bury(Workers, "gone") /\ \A w \in Workers \ Workers : ~Alive(w)
    BY <1>3 DEF Restart
  <2> QED
    BY <2>1, BuryTheLast
<1>4. ASSUME NEW w \in Workers, Wedge(w) PROVE OneWriter'
  <2>1. /\ UNCHANGED <<sup, child, stage>> /\ Recorded' = Recorded
        /\ Alive(w) /\ life'[w] = "wedged"
        /\ \A v \in Workers \ {w} : life'[v] = life[v]
    BY <1>4, <1>a, UnchangedRecords DEF Wedge, supVars, Alive
  <2> QED
    BY <2>1 DEF OneWriter, Alone, DeadHasNothing, NotYetRecorded, Alive
<1>5. ASSUME NEW w \in Workers, WorkerDies(w) PROVE OneWriter'
  <2>1. Bury({w}, "failed") /\ {w} \in SUBSET Workers
        /\ \A v \in Workers \ {w} : ~Alive(v)
    BY <1>5 DEF WorkerDies, OneWriter, Alone
  <2> QED
    BY <2>1, BuryTheLast
<1>6. ASSUME UNCHANGED <<fileVars, supVars, workerVars>> PROVE OneWriter'
  BY <1>6, UnchangedRecords
     DEF supVars, workerVars, OneWriter, Alone, DeadHasNothing, NotYetRecorded, Alive
<1> QED
  BY <1>1, <1>2, <1>3, <1>4, <1>5, <1>6 DEF Environment, OrphanEnds, Vanish

\* OneWriter is inductive, on top of TypeOK.
LEMMA NextOneWriter ==
    ASSUME "ctrlC" \notin Faults
    PROVE  TypeOK /\ OneWriter /\ [Next]_vars => OneWriter'
<1> SUFFICES ASSUME TypeOK, OneWriter, [Next]_vars PROVE OneWriter'
  OBVIOUS
<1>1. CASE UNCHANGED vars
  BY <1>1 DEF vars, OneWriter, Alone, DeadHasNothing, NotYetRecorded, Alive, Recorded,
              readLedger
<1> QED
  BY <1>1, StartOneWriter, SupOneWriter, WorkerOneWriter, EnvironmentOneWriter DEF Next

(***************************************************************************)
(* One worker at a time, and none of its unfinished tests has a record, as *)
(* long as nobody stops the supervisor under it.                           *)
(***************************************************************************)
THEOREM SingleWriter ==
    ASSUME "ctrlC" \notin Faults
    PROVE  Spec => []OneWriter
<1>1. Init => OneWriter
  BY InitOneWriter
<1>2. TypeOK /\ OneWriter /\ [Next]_vars => OneWriter'
  BY NextOneWriter
<1> QED
  BY <1>1, <1>2, TypeCorrect, PTL DEF Spec

(***************************************************************************)
(* No test process is started for a test that has a record: not after      *)
(* stalls, dead workers, container restarts, failed spawns, kills that do  *)
(* not work, nor torn writes.                                              *)
(***************************************************************************)
THEOREM NoTestIsRerun ==
    ASSUME "ctrlC" \notin Faults
    PROVE  Spec => NeverRerun
<1>1. TypeOK /\ OneWriter /\ [Next]_vars
        => [\A p \in Pids : proc'[p] # proc[p] => proc'[p] \notin Recorded]_vars
  <2> SUFFICES ASSUME TypeOK, OneWriter, Next, NEW p \in Pids, proc'[p] # proc[p]
               PROVE  proc'[p] \notin Recorded
    OBVIOUS
  <2>1. 0 \notin Recorded
    BY DEF Recorded, TestsAssumption
  <2>2. CASE \E w \in Workers, t \in Tests : SpawnTest(w, t)
    <3>1. PICK w \in Workers, t \in Tests : SpawnTest(w, t)
      BY <2>2
    <3>2. proc'[p] = t
      BY <3>1 DEF SpawnTest, TypeOK
    <3>3. t \notin Recorded
      BY <3>1 DEF SpawnTest, OneWriter, NotYetRecorded, Begun
    <3> QED
      BY <3>2, <3>3
  <2>3. CASE \E P : Ended(P)
    BY <2>1, <2>3 DEF Ended
  <2>4. CASE UNCHANGED proc
    BY <2>4
  <2>5. CASE Start
    BY <2>4, <2>5 DEF Start, Launch
  <2>6. CASE SupStep
    BY <2>3, <2>4, <2>6
       DEF SupStep, WipeInflight, harvestInflight, MarkCrash, clearInflight, Continue, GiveUp,
           Finish, Stall, ChildExit, spawnWorker, hardKill, endGroups
  <2>7. ASSUME NEW w \in Workers, WorkerStep(w) PROVE proc'[p] \notin Recorded
    BY <2>2, <2>3, <2>4, <2>7
       DEF WorkerStep, Boot, Take, Exit, SpawnTestFails, NotePid, Settle, SettleKilled,
           AppendRecord, ClearEntry, hardKill, endGroups
  <2>8. CASE Environment
    BY <2>3, <2>4, <2>8
       DEF Environment, CtrlC, spawnWorkerFails, Restart, Wedge, WorkerDies, OrphanEnds, Vanish,
           hardKill, endGroups
  <2> QED
    BY <2>5, <2>6, <2>7, <2>8 DEF Next
<1> QED
  BY <1>1, SingleWriter, TypeCorrect, PTL DEF Spec, NeverRerun

-----------------------------------------------------------------------------
(***************************************************************************)
(* The next harvest finds in inflight.json what it needs, as long as the   *)
(* supervisor is not stopped under a running worker and no write is torn.  *)
(*                                                                         *)
(* The invariant, on top of OneWriter.  While a worker lives the file says *)
(* what it has in hand, and the groups that were noted are those of its    *)
(* running tests; nothing is noted any more once the groups in the file    *)
(* have been sent SIGKILL, and none has to be where a worker left by       *)
(* itself.                                                                 *)
(***************************************************************************)
Reliable == Faults \cap {"ctrlC", "tear"} = {}

\* What worker w has in hand, as it would write it.
Listed(w) == {[test |-> t, pid |-> IF stage[w][t] \in {"listed", "spawned"} THEN NoPid
                                   ELSE pid[w][t]] :
                t \in {u \in Tests : stage[w][u] \in InFlight}}
ListedTests == {e.test : e \in inflight}

NotedRuns == \A p \in noted : proc[p] \in Tests

Running(w, p) == stage[w][proc[p]] = "running" /\ pid[w][proc[p]] = p
Mirrored ==
    \A w \in Workers : Alive(w) =>
        /\ suspects = {} /\ inflight = Listed(w)
        /\ \A p \in noted : Running(w, p)
        /\ life[w] = "boot" => noted = {}

Cleared ==
    /\ sup \notin {"harvest", "watch"} => noted = {}
    /\ sup \in {"judge", "loop"} => inflight = {} /\ suspects = {}
    /\ sup = "watch" /\ life[child] = "exited" => noted = {}

DiskTells == NotedRuns /\ ReapableFromDisk /\ suspects \subseteq ListedTests /\ Mirrored /\ Cleared

LEMMA InitDisk == Init => DiskTells
BY DEF Init, DiskTells, NotedRuns, ReapableFromDisk, ListedTests, Mirrored, Cleared, Alive

\* Steps after which a worker lives.
LEMMA StillMirrored ==
    ASSUME OneWriter', NEW w \in Workers, sup' = "watch", child' = w, life'[w] # "exited",
           suspects' = {}, inflight' = Listed(w)', life'[w] = "boot" => noted' = {},
           \A p \in noted' : proc'[p] \in Tests /\ Running(w, p)'
    PROVE  DiskTells'
<1>1. ReapableFromDisk'
  <2> SUFFICES ASSUME NEW p \in noted' PROVE \E e \in inflight' : e.pid = p
    BY DEF ReapableFromDisk
  <2> DEFINE t == proc'[p]
  <2>1. t \in Tests /\ stage'[w][t] = "running" /\ pid'[w][t] = p
    BY DEF Running
  <2>2. [test |-> t, pid |-> p] \in Listed(w)'
    BY <2>1 DEF Listed, InFlight
  <2> QED
    BY <2>2
<1>2. Mirrored'
  BY DEF Mirrored, OneWriter, Alone
<1>3. NotedRuns' /\ Cleared' /\ (suspects \subseteq ListedTests)'
  BY DEF NotedRuns, Cleared
<1> QED
  BY <1>1, <1>2, <1>3 DEF DiskTells

\* Steps after which none does.
LEMMA NobodyMirrored ==
    ASSUME \A w \in Workers : ~Alive(w)', NotedRuns', ReapableFromDisk',
           (suspects \subseteq ListedTests)', Cleared'
    PROVE  DiskTells'
BY DEF DiskTells, Mirrored

\* The file stays true when a test moves on and its entry does not change.
LEMMA EntriesStay ==
    ASSUME NEW w \in Workers,
           \A u \in Tests : stage'[w][u] \in InFlight <=> stage[w][u] \in InFlight,
           \A u \in Tests : stage[w][u] \in InFlight =>
             (IF stage'[w][u] \in {"listed", "spawned"} THEN NoPid ELSE pid'[w][u])
               = (IF stage[w][u] \in {"listed", "spawned"} THEN NoPid ELSE pid[w][u])
    PROVE  Listed(w)' = Listed(w)
<1> DEFINE A == {u \in Tests : stage[w][u] \in InFlight}
           E(t) == [test |-> t, pid |-> IF stage[w][t] \in {"listed", "spawned"} THEN NoPid
                                        ELSE pid[w][t]]
           F(t) == [test |-> t, pid |-> IF stage'[w][t] \in {"listed", "spawned"} THEN NoPid
                                        ELSE pid'[w][t]]
<1>1. {u \in Tests : stage'[w][u] \in InFlight} = A
  OBVIOUS
<1>2. \A t \in A : E(t) = F(t)
  OBVIOUS
<1>3. Listed(w) = {E(t) : t \in A} /\ Listed(w)' = {F(t) : t \in A}
  BY <1>1 DEF Listed
<1> HIDE DEF A, E, F
<1> QED
  BY <1>2, <1>3

\* A group that was sent SIGKILL is no longer noted, and no other group ends.
LEMMA KillEffect ==
    ASSUME NEW P, endGroups(P) \/ hardKill(P)
    PROVE  noted' = noted \ P /\ \A p \in Pids \ P : proc'[p] = proc[p]
<1>1. PICK Q \in SUBSET P : Ended(Q)
  BY DEF hardKill, endGroups
<1> QED
  BY <1>1 DEF Ended, hardKill, endGroups

\* Steps of the worker that lives.
LEMMA WorkerDisk ==
    ASSUME Reliable, TypeOK, OneWriter, OneWriter', DiskTells, NEW w \in Workers, WorkerStep(w)
    PROVE  DiskTells'
<1>a. /\ stage \in [Workers -> [Tests -> Stages]]
      /\ pid \in [Workers -> [Tests -> Pids \cup {NoPid}]]
      /\ life \in [Workers -> {"gone", "boot", "live", "wedged", "exited", "failed"}]
      /\ proc \in [Pids -> Tests \cup {0}] /\ noted \in SUBSET Pids
      /\ 0 \notin Tests
  BY DEF TypeOK, TestsAssumption
<1>b. Alive(w)
  BY DEF WorkerStep, Alive, Boot, Take, Exit, NoMoreWork, Idle, SpawnTest, SpawnTestFails,
         NotePid, Settle, SettleKilled, AppendRecord, ClearEntry
<1>c. /\ sup = "watch" /\ child = w /\ suspects = {} /\ inflight = Listed(w)
      /\ \A p \in noted : proc[p] \in Tests /\ Running(w, p)
      /\ life[w] = "boot" => noted = {}
      /\ \A v \in Workers \ {w} : ~Alive(v)
  BY <1>b DEF OneWriter, Alone, DiskTells, Mirrored, NotedRuns
<1>1. CASE Boot(w)
  <2>1. inflight' = Listed(w)'
    BY <1>1 DEF Boot, writeInflight, Entry, Listed
  <2>2. life'[w] = "live" /\ noted' = {} /\ sup' = "watch" /\ child' = w /\ suspects' = {}
    BY <1>1, <1>a, <1>c DEF Boot, supVars
  <2> QED
    BY <2>1, <2>2, StillMirrored
<1>2. CASE Take(w)
  <2> DEFINE t == Min(At(w, {"todo"}))
  <2>1. t \in Tests /\ stage[w][t] = "todo"
    BY <1>2, MinIsAMember DEF Take, At
  <2>2. /\ inflight' = Listed(w)' /\ life[w] = "live"
        /\ sup' = "watch" /\ child' = w /\ suspects' = {}
        /\ UNCHANGED <<proc, noted, pid, life>> /\ stage' = [stage EXCEPT ![w][t] = "listed"]
    BY <1>2, <1>c DEF Take, Idle, supVars, writeInflight, Entry, Listed
  <2> HIDE DEF t
  <2>3. \A p \in noted : Running(w, p)'
    BY <1>a, <1>c, <2>1, <2>2 DEF Running
  <2> QED
    BY <1>c, <2>2, <2>3, StillMirrored
<1>3. CASE Exit(w)
  <2>1. \A t \in Tests : stage[w][t] \notin InFlight
    BY <1>3 DEF Exit, NoMoreWork, At
  <2>2. noted = {}
    BY <1>c, <2>1 DEF Running, InFlight
  <2>3. /\ life'[w] = "exited" /\ \A v \in Workers \ {w} : life'[v] = life[v]
        /\ UNCHANGED <<noted, suspects, sup, child>>
    BY <1>3, <1>a DEF Exit, supVars
  <2>4. \A v \in Workers : ~Alive(v)'
    BY <1>c, <2>3 DEF Alive
  <2> QED
    BY <1>c, <2>2, <2>3, <2>4, NobodyMirrored DEF NotedRuns, ReapableFromDisk, Cleared
<1>4. ASSUME NEW t \in Tests, SpawnTest(w, t) PROVE DiskTells'
  <2>1. PICK q \in Pids : /\ proc[q] = 0 /\ proc' = [proc EXCEPT ![q] = t]
                          /\ pid' = [pid EXCEPT ![w][t] = q]
    BY <1>4 DEF SpawnTest
  <2>2. /\ stage[w][t] = "listed" /\ stage' = [stage EXCEPT ![w][t] = "spawned"]
        /\ UNCHANGED <<inflight, life, noted>> /\ life[w] = "live"
        /\ sup' = "watch" /\ child' = w /\ suspects' = {}
    BY <1>4, <1>c DEF SpawnTest, supVars
  <2>3. Listed(w)' = Listed(w)
    BY <1>a, <2>1, <2>2, EntriesStay DEF InFlight, Busy
  <2>4. \A p \in noted : proc'[p] = proc[p]
    BY <1>a, <1>c, <2>1
  <2>5. \A p \in noted : proc[p] # t
    BY <1>c, <2>2 DEF Running
  <2>6. \A p \in noted : Running(w, p)'
    BY <1>a, <1>c, <2>1, <2>2, <2>4, <2>5 DEF Running
  <2> QED
    BY <1>c, <2>2, <2>3, <2>4, <2>6, StillMirrored
<1>5. ASSUME NEW t \in Tests, SpawnTestFails(w, t) PROVE DiskTells'
  <2>1. /\ stage[w][t] = "listed" /\ stage' = [stage EXCEPT ![w][t] = "spawned"]
        /\ UNCHANGED <<inflight, life, noted, proc, pid>> /\ life[w] = "live"
        /\ sup' = "watch" /\ child' = w /\ suspects' = {}
    BY <1>5, <1>c DEF SpawnTestFails, supVars
  <2>2. Listed(w)' = Listed(w)
    BY <1>a, <2>1, EntriesStay DEF InFlight, Busy
  <2>3. \A p \in noted : Running(w, p)'
    BY <1>a, <1>c, <2>1 DEF Running
  <2> QED
    BY <1>c, <2>1, <2>2, <2>3, StillMirrored
<1>6. ASSUME NEW t \in Tests, NotePid(w, t) PROVE DiskTells'
  <2>1. /\ stage' = [stage EXCEPT ![w][t] = "running"]
        /\ UNCHANGED <<life, proc, pid>> /\ noted' = noted \cup GroupOf(w, t)
        /\ life[w] = "live" /\ sup' = "watch" /\ child' = w /\ suspects' = {}
        /\ inflight' = Listed(w)'
    BY <1>6, <1>c DEF NotePid, supVars, writeInflight, Entry, Listed
  <2>2. ASSUME NEW p \in noted' PROVE proc'[p] \in Tests /\ Running(w, p)'
    <3>1. CASE p \in GroupOf(w, t)
      BY <1>a, <2>1, <3>1 DEF GroupOf, Running
    <3>2. CASE p \in noted
      BY <1>a, <1>c, <2>1, <3>2 DEF Running
    <3> QED
      BY <2>1, <3>1, <3>2
  <2> QED
    BY <2>1, <2>2, StillMirrored
<1>7. ASSUME NEW t \in Tests, Settle(w, t) \/ SettleKilled(w, t) PROVE DiskTells'
  <2>1. /\ stage[w][t] = "running" /\ UNCHANGED <<inflight, life, pid>>
        /\ life[w] = "live" /\ sup' = "watch" /\ child' = w /\ suspects' = {}
        /\ endGroups(GroupOf(w, t)) \/ hardKill(GroupOf(w, t))
    BY <1>7, <1>c DEF Settle, SettleKilled, Idle, supVars
  <2>2. PICK s \in {"ran", "killed"} : stage' = [stage EXCEPT ![w][t] = s]
    BY <1>7 DEF Settle, SettleKilled
  <2>3. Listed(w)' = Listed(w)
    BY <1>a, <2>1, <2>2, EntriesStay DEF InFlight, Busy
  <2>4. \A p \in noted' : p \in noted /\ p \notin GroupOf(w, t) /\ proc'[p] = proc[p]
    BY <1>a, <2>1, KillEffect
  <2>5. \A p \in noted' : proc[p] # t
    BY <1>a, <1>c, <2>4 DEF Running, GroupOf
  <2>6. \A p \in noted' : proc'[p] \in Tests /\ Running(w, p)'
    BY <1>a, <1>c, <2>1, <2>2, <2>4, <2>5 DEF Running
  <2> QED
    BY <1>c, <2>1, <2>3, <2>6, StillMirrored
<1>8. ASSUME NEW t \in Tests, AppendRecord(w, t) PROVE DiskTells'
  <2>1. /\ stage[w][t] \in {"ran", "killed"} /\ stage' = [stage EXCEPT ![w][t] = "appended"]
        /\ UNCHANGED <<inflight, life, noted, proc, pid>> /\ life[w] = "live"
        /\ sup' = "watch" /\ child' = w /\ suspects' = {}
    BY <1>8, <1>c DEF AppendRecord, supVars
  <2>2. Listed(w)' = Listed(w)
    BY <1>a, <2>1, EntriesStay DEF InFlight, Busy
  <2>3. \A p \in noted : Running(w, p)'
    BY <1>a, <1>c, <2>1 DEF Running
  <2> QED
    BY <1>c, <2>1, <2>2, <2>3, StillMirrored
<1>9. ASSUME NEW t \in Tests, ClearEntry(w, t) PROVE DiskTells'
  <2>1. /\ stage[w][t] = "appended" /\ stage' = [stage EXCEPT ![w][t] = "out"]
        /\ UNCHANGED <<life, noted, proc>> /\ life[w] = "live"
        /\ sup' = "watch" /\ child' = w /\ suspects' = {} /\ inflight' = Listed(w)'
    BY <1>9, <1>c DEF ClearEntry, supVars, writeInflight, Entry, Listed
  <2>2. \A u \in Tests \ {t} : pid'[w][u] = pid[w][u] /\ stage'[w][u] = stage[w][u]
    BY <1>9, <1>a, <2>1 DEF ClearEntry
  <2>3. \A p \in noted : Running(w, p)'
    BY <1>c, <2>1, <2>2 DEF Running
  <2> QED
    BY <1>c, <2>1, <2>3, StillMirrored
<1> QED
  BY <1>1, <1>2, <1>3, <1>4, <1>5, <1>6, <1>7, <1>8, <1>9 DEF WorkerStep

\* A worker that dies leaves the file as it was, and is not forgotten.
LEMMA DeathDisk ==
    ASSUME Reliable, OneWriter, DiskTells, NEW W \in SUBSET Workers, NEW how, Bury(W, how),
           NEW V, NEW s \in BOOLEAN, CutWrites(V, s)
    PROVE  UNCHANGED inflight /\ (suspects \subseteq ListedTests)'
<1>1. UNCHANGED inflight
  BY DEF CutWrites, Reliable
<1>2. ASSUME NEW w \in W, NEW t \in At(w, InFlight) PROVE t \in ListedTests
  <2>1. Alive(w)
    BY DEF OneWriter, DeadHasNothing, At, InFlight, Busy
  <2>2. inflight = Listed(w)
    BY <2>1 DEF DiskTells, Mirrored
  <2> DEFINE e == [test |-> t, pid |-> IF stage[w][t] \in {"listed", "spawned"} THEN NoPid
                                       ELSE pid[w][t]]
  <2>3. e \in Listed(w) /\ e.test = t
    BY DEF Listed, At
  <2> HIDE DEF e
  <2> QED
    BY <2>2, <2>3 DEF ListedTests
<1>3. suspects' \subseteq ListedTests
  BY <1>2 DEF Bury, DiskTells
<1> QED
  BY <1>1, <1>3 DEF ListedTests

\* Steps of the supervisor.
LEMMA SupDisk ==
    ASSUME Reliable, TypeOK, OneWriter, OneWriter', DiskTells, SupStep
    PROVE  DiskTells'
<1>a. /\ life \in [Workers -> {"gone", "boot", "live", "wedged", "exited", "failed"}]
      /\ stage \in [Workers -> [Tests -> Stages]]
      /\ proc \in [Pids -> Tests \cup {0}] /\ noted \in SUBSET Pids
      /\ sup = "watch" => child \in Workers
  BY DEF TypeOK
<1>b. sup' # "watch" => \A w \in Workers : ~Alive(w)'
  BY DEF OneWriter, Alone
<1>1. CASE harvestInflight
  <2> DEFINE P == {e.pid : e \in inflight} \ {NoPid}
  <2>1. hardKill(P) /\ sup' = "mark" /\ UNCHANGED <<inflight, suspects>>
    BY <1>1 DEF harvestInflight
  <2>2. noted \subseteq P
    BY <1>a, CorpusAssumption DEF DiskTells, ReapableFromDisk
  <2>3. noted' = {}
    BY <2>1, <2>2, KillEffect
  <2> QED
    BY <1>b, <2>1, <2>3, NobodyMirrored
       DEF NotedRuns, ReapableFromDisk, Cleared, DiskTells, ListedTests
<1>2. CASE WipeInflight \/ clearInflight
  <2>1. /\ sup \in {"wipe", "mark"} /\ sup' \in {"harvest", "judge"}
        /\ inflight' = {} /\ suspects' = {} /\ UNCHANGED noted
    BY <1>2 DEF WipeInflight, clearInflight
  <2>2. noted = {}
    BY <2>1 DEF DiskTells, Cleared
  <2> QED
    BY <1>b, <2>1, <2>2, NobodyMirrored DEF NotedRuns, ReapableFromDisk, Cleared
<1>3. CASE MarkCrash
  BY <1>b, <1>3, NobodyMirrored
     DEF MarkCrash, NotedRuns, ReapableFromDisk, Cleared, DiskTells, ListedTests
<1>4. CASE Continue \/ GiveUp \/ Finish
  <2>1. /\ sup \in {"judge", "loop"} /\ sup' \in {"loop", "aborted", "finished"}
        /\ UNCHANGED <<inflight, suspects, noted, proc>>
    BY <1>4 DEF Continue, GiveUp, Finish
  <2> QED
    BY <1>b, <2>1, NobodyMirrored
       DEF NotedRuns, ReapableFromDisk, Cleared, DiskTells, ListedTests
<1>5. CASE Stall
  <2>1. /\ sup' = "harvest" /\ UNCHANGED <<noted, proc>>
        /\ {child} \in SUBSET Workers /\ Bury({child}, "gone") /\ CutWrites({child}, FALSE)
    BY <1>5, <1>a DEF Stall
  <2>2. UNCHANGED inflight /\ (suspects \subseteq ListedTests)'
    BY <2>1, DeathDisk
  <2> QED
    BY <1>b, <2>1, <2>2, NobodyMirrored DEF NotedRuns, ReapableFromDisk, Cleared, DiskTells
<1>6. CASE ChildExit
  <2>1. /\ UNCHANGED <<inflight, suspects, noted, proc>>
        /\ sup = "watch" /\ sup' = IF life[child] = "exited" THEN "mark" ELSE "harvest"
    BY <1>6 DEF ChildExit
  <2>2. sup' = "mark" => noted = {}
    BY <2>1 DEF DiskTells, Cleared
  <2> QED
    BY <1>b, <2>1, <2>2, NobodyMirrored
       DEF NotedRuns, ReapableFromDisk, Cleared, DiskTells, ListedTests
<1>7. ASSUME NEW w \in Workers, spawnWorker(w) PROVE DiskTells'
  <2>1. /\ sup' = "watch" /\ child' = w /\ life'[w] = "boot"
        /\ \A t \in Tests : stage'[w][t] \in {"todo", "out"}
        /\ UNCHANGED <<inflight, suspects, noted>>
    BY <1>7, <1>a DEF spawnWorker
  <2>2. inflight = {} /\ suspects = {} /\ noted = {}
    BY <1>7 DEF spawnWorker, DiskTells, Cleared
  <2>3. Listed(w)' = {}
    BY <2>1 DEF Listed, InFlight, Busy
  <2> QED
    BY <2>1, <2>2, <2>3, StillMirrored
<1> QED
  BY <1>1, <1>2, <1>3, <1>4, <1>5, <1>6, <1>7 DEF SupStep

\* What the program does not control.
LEMMA EnvironmentDisk ==
    ASSUME Reliable, TypeOK, OneWriter, OneWriter', DiskTells, Environment
    PROVE  DiskTells'
<1>a. /\ life \in [Workers -> {"gone", "boot", "live", "wedged", "exited", "failed"}]
      /\ proc \in [Pids -> Tests \cup {0}] /\ noted \in SUBSET Pids
  BY DEF TypeOK
<1>b. sup' # "watch" => \A w \in Workers : ~Alive(w)'
  BY DEF OneWriter, Alone
<1>1. CASE CtrlC
  BY <1>1 DEF CtrlC, Reliable
<1>2. CASE spawnWorkerFails
  BY <1>b, <1>2, NobodyMirrored
     DEF spawnWorkerFails, SupGone, NotedRuns, ReapableFromDisk, Cleared, DiskTells, ListedTests
<1>3. CASE Restart
  <2>1. sup' = "off" /\ noted' = {}
    BY <1>3, <1>a DEF Restart, SupGone, endGroups
  <2>2. Bury(Workers, "gone") /\ CutWrites({w \in Workers : Alive(w)}, TRUE)
    BY <1>3 DEF Restart
  <2>3. UNCHANGED inflight /\ (suspects \subseteq ListedTests)'
    BY <2>2, DeathDisk
  <2> QED
    BY <1>b, <2>1, <2>3, NobodyMirrored DEF NotedRuns, ReapableFromDisk, Cleared
<1>4. ASSUME NEW w \in Workers, Wedge(w) PROVE DiskTells'
  <2>1. /\ UNCHANGED <<sup, child, stage, pid, inflight, suspects, noted, proc>>
        /\ life' = [life EXCEPT ![w] = "wedged"] /\ Alive(w)
    BY <1>4 DEF Wedge, supVars, Alive
  <2>2. /\ sup = "watch" /\ child = w /\ suspects = {} /\ inflight = Listed(w)
        /\ \A p \in noted : proc[p] \in Tests /\ Running(w, p)
    BY <2>1 DEF OneWriter, Alone, DiskTells, Mirrored, NotedRuns
  <2>3. life'[w] = "wedged"
    BY <1>a, <2>1
  <2>4. Listed(w)' = Listed(w) /\ \A p \in noted : Running(w, p)'
    BY <2>1, <2>2 DEF Listed, Running
  <2> QED
    BY <2>1, <2>2, <2>3, <2>4, StillMirrored
<1>5. ASSUME NEW w \in Workers, WorkerDies(w) PROVE DiskTells'
  <2>1. /\ UNCHANGED <<sup, child, noted, proc>>
        /\ {w} \in SUBSET Workers /\ Bury({w}, "failed") /\ CutWrites({w}, FALSE) /\ Alive(w)
    BY <1>5 DEF WorkerDies, supVars
  <2>2. UNCHANGED inflight /\ (suspects \subseteq ListedTests)'
    BY <2>1, DeathDisk
  <2>3. /\ sup = "watch" /\ child = w
        /\ \A v \in Workers \ {w} : ~Alive(v)
    BY <2>1 DEF OneWriter, Alone
  <2>4. life'[w] = "failed" /\ \A v \in Workers \ {w} : life'[v] = life[v]
    BY <1>a, <2>1 DEF Bury
  <2>5. \A v \in Workers : ~Alive(v)'
    BY <2>3, <2>4 DEF Alive
  <2> QED
    BY <2>1, <2>2, <2>3, <2>4, <2>5, NobodyMirrored
       DEF NotedRuns, ReapableFromDisk, Cleared, DiskTells
<1>6. ASSUME NEW q \in Pids, OrphanEnds(q) PROVE DiskTells'
  <2>1. /\ UNCHANGED <<inflight, suspects, sup, child, life, stage, pid>> /\ endGroups({q})
    BY <1>6 DEF OrphanEnds, supVars, workerVars
  <2>2. \A p \in noted' : p \in noted /\ p # q /\ proc'[p] = proc[p]
    BY <1>a, <2>1, KillEffect
  <2>3. NotedRuns' /\ ReapableFromDisk' /\ (suspects \subseteq ListedTests)'
    BY <2>1, <2>2 DEF DiskTells, NotedRuns, ReapableFromDisk, ListedTests
  <2>4. Mirrored'
    <3> SUFFICES ASSUME NEW w \in Workers, Alive(w)
                 PROVE  /\ suspects' = {} /\ inflight' = Listed(w)'
                        /\ \A p \in noted' : Running(w, p)'
                        /\ life'[w] = "boot" => noted' = {}
      BY <2>1 DEF Mirrored, Alive
    <3>1. /\ suspects = {} /\ inflight = Listed(w) /\ \A p \in noted : Running(w, p)
          /\ life[w] = "boot" => noted = {}
      BY DEF DiskTells, Mirrored
    <3>2. Listed(w)' = Listed(w)
      BY <2>1 DEF Listed
    <3> QED
      BY <2>1, <2>2, <3>1, <3>2 DEF Running
  <2>5. Cleared'
    BY <2>1, <2>2 DEF DiskTells, Cleared
  <2> QED
    BY <2>3, <2>4, <2>5 DEF DiskTells
<1>7. ASSUME NEW t \in Tests, Vanish(t) PROVE DiskTells'
  BY <1>7 DEF Vanish, supVars, workerVars, DiskTells, NotedRuns, ReapableFromDisk, ListedTests,
              Mirrored, Listed, Running, Alive, Cleared
<1> QED
  BY <1>1, <1>2, <1>3, <1>4, <1>5, <1>6, <1>7 DEF Environment

LEMMA NextDisk ==
    ASSUME Reliable
    PROVE  TypeOK /\ OneWriter /\ OneWriter' /\ DiskTells /\ [Next]_vars => DiskTells'
<1> SUFFICES ASSUME TypeOK, OneWriter, OneWriter', DiskTells, [Next]_vars PROVE DiskTells'
  OBVIOUS
<1>1. CASE UNCHANGED vars
  BY <1>1 DEF vars, DiskTells, NotedRuns, ReapableFromDisk, ListedTests, Mirrored, Listed,
              Running, Alive, Cleared
<1>2. CASE Start
  <2>1. /\ sup \in {"off", "finished", "aborted"} /\ sup' \in {"wipe", "harvest"}
        /\ UNCHANGED <<inflight, suspects, noted, proc>>
    BY <1>2 DEF Start, Launch
  <2>2. \A w \in Workers : ~Alive(w)'
    BY <2>1 DEF OneWriter, Alone
  <2> QED
    BY <2>1, <2>2, NobodyMirrored
       DEF NotedRuns, ReapableFromDisk, Cleared, DiskTells, ListedTests
<1> QED
  BY <1>1, <1>2, WorkerDisk, SupDisk, EnvironmentDisk DEF Next

LEMMA AlwaysDisk ==
    ASSUME Reliable
    PROVE  Spec => []DiskTells
<1>1. "ctrlC" \notin Faults
  BY DEF Reliable
<1>2. Init => DiskTells
  BY InitDisk
<1>3. TypeOK /\ OneWriter /\ OneWriter' /\ DiskTells /\ [Next]_vars => DiskTells'
  BY NextDisk
<1>4. Spec => []OneWriter
  BY <1>1, SingleWriter
<1> QED
  BY <1>2, <1>3, <1>4, TypeCorrect, PTL DEF Spec

(***************************************************************************)
(* Whoever dies, stalls, survives its SIGKILL or fails to spawn, and       *)
(* whenever the container restarts, a test process whose pid was noted is  *)
(* found by the next harvest, unless SIGKILL has been sent to it before.   *)
(***************************************************************************)
THEOREM NothingIsOrphaned ==
    ASSUME Reliable
    PROVE  Spec => []ReapableFromDisk
<1>1. DiskTells => ReapableFromDisk
  BY DEF DiskTells
<1> QED
  BY <1>1, AlwaysDisk, PTL

(***************************************************************************)
(* And a test that was in flight when its worker died is not forgotten     *)
(* until the supervisor has dealt with it.                                 *)
(***************************************************************************)
THEOREM NothingIsForgotten ==
    ASSUME Reliable
    PROVE  Spec => []SuspectsKept
<1>1. DiskTells => SuspectsKept
  BY DEF DiskTells, SuspectsKept, ListedTests
<1> QED
  BY <1>1, AlwaysDisk, PTL
=============================================================================
