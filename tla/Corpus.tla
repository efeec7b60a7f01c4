------------------------------- MODULE Corpus -------------------------------
(***************************************************************************)
(* The corpus sweep: the supervisor (run-corpus.mjs), the workers it       *)
(* spawns (corpus-worker.mjs), the test processes they spawn, and the two  *)
(* files the supervisor and the workers talk through, progress.jsonl and   *)
(* inflight.json.  The supervisor and each worker are JavaScript           *)
(* processes, so the code between two awaits runs without interruption in  *)
(* its own process; but it may be cut short after any file or process      *)
(* operation, because the process is killed or the container stops, and    *)
(* the other processes run meanwhile.  So an action stands for the code up *)
(* to the next file write, spawn or kill.                                  *)
(*                                                                         *)
(* Tests are numbered in sort order, the order the worker takes them in:   *)
(* of the tests a worker has in flight the one with the smallest startedAt *)
(* is the smallest one.                                                    *)
(***************************************************************************)
EXTENDS ProgressFile, FiniteSetsExt

CONSTANTS Workers,       \* identities of corpus-worker.mjs processes
          NoWorker,
          Pids,          \* test process groups
          NoPid,         \* a pid not known: null in inflight.json
          Concurrency,   \* CONCURRENCY, the lanes of runPool
          MaxNoProgress, \* MAX_NOPROGRESS
          Selections,    \* the sets of tests a command line selects
          Wedgers,       \* the tests that may be able to wedge WebContainer
          Faults,        \* what may go wrong, see below
          MaxLaunches    \* bound: how often run-corpus.mjs is started

\* restart: the container stops.     workerExit: a worker dies by itself.
\* ctrlC: the supervisor is stopped. spawnError: a spawn fails.
\* vanish: a selected test's file goes away while a sweep is on.
\* tear: a process that dies while it writes a file leaves part of it.
\* killFails: SIGKILL may leave a test process alive.
AllFaults == {"restart", "workerExit", "ctrlC", "spawnError", "vanish", "tear",
              "killFails"}

ASSUME CorpusAssumption ==
    /\ Concurrency \in Nat \ {0}
    /\ MaxNoProgress \in Nat \ {0}
    /\ MaxLaunches \in Nat
    /\ NoWorker \notin Workers
    /\ NoPid \notin Pids
    /\ Selections \subseteq SUBSET Tests
    /\ Wedgers \subseteq Tests
    /\ Faults \subseteq AllFaults

VARIABLES
  inflight,    \* what readInflight makes of inflight.json: set of [test, pid]
  present,     \* the tests whose file exists
  poison,      \* the tests that can wedge the container: fixed, not known
  proc,        \* process table: the test a group runs, 0 if there is none
  life,        \* of each worker: gone, boot, live, wedged, exited or failed
  stage,       \* how far each worker is with each test
  pid,         \* child.pid in each worker's runOne of each test
  sup,         \* where the supervisor is, see SupPhases
  all,         \* ALL, resolved once when the supervisor starts
  child,       \* the worker of the current runWorkerOnce
  result,      \* what runWorkerOnce returned
  targets,     \* the tests harvestInflight has still to mark
  before,      \* done.size when the worker was launched
  grew,        \* after > before
  noProgress,  \* noProgressCycles
  report,      \* what writeOutputs last wrote
  launches,    \* bounded by MaxLaunches
  noted,       \* ghost: the groups whose pid was written to inflight.json and that
               \* have neither ended nor been sent SIGKILL
  suspects     \* ghost: the tests that were in flight when their worker died

workerVars == <<life, stage, pid>>
supVars == <<sup, all, child, result, targets, before, grew, noProgress, report>>
envVars == <<present, poison, launches>>
vars == <<ledger, tail, inflight, present, poison, proc, life, stage, pid, sup, all,
          child, result, targets, before, grew, noProgress, report, launches,
          noted, suspects>>

\* off: not running.  wipe: between the two removals of --fresh.  harvest,
\* mark: at the start and at the end of the loop of harvestInflight.  judge:
\* after it, before the no-progress count.  loop: at the head of main's loop.
\* watch: waiting for runWorkerOnce.  finished, aborted: the outputs are
\* written.
SupPhases == {"off", "wipe", "harvest", "mark", "judge", "loop", "watch", "finished",
              "aborted"}

\* The stages of a test in a worker.  The worker's JavaScript does not yield
\* between listed and running, nor between ran or killed and the end: in the
\* Busy stages no other test of that worker moves.
Busy     == {"listed", "spawned", "ran", "killed", "appended"}
InFlight == Busy \cup {"running"}
Stages   == InFlight \cup {"out", "todo"}

Alive(w) == life[w] \in {"boot", "live", "wedged"}
Idle(w)  == life[w] = "live" /\ \A t \in Tests : stage[w][t] \notin Busy
At(w, s) == {t \in Tests : stage[w][t] \in s}

TypeOK ==
    /\ FileTypeOK
    /\ inflight \in SUBSET [test : Tests, pid : Pids \cup {NoPid}]
    /\ present \in SUBSET Tests
    /\ poison \in SUBSET Wedgers
    /\ proc \in [Pids -> Tests \cup {0}]
    /\ life \in [Workers -> {"gone", "boot", "live", "wedged", "exited", "failed"}]
    /\ stage \in [Workers -> [Tests -> Stages]]
    /\ pid \in [Workers -> [Tests -> Pids \cup {NoPid}]]
    /\ sup \in SupPhases
    /\ all \in SUBSET Tests
    /\ child \in Workers \cup {NoWorker}
    /\ sup = "watch" => child \in Workers
    /\ result \in {"none", "done", "stall", "exit"}
    /\ targets \in SUBSET Tests
    /\ before \in Nat
    /\ grew \in BOOLEAN
    /\ noProgress \in Nat
    /\ report \in [Tests -> Statuses]
    /\ launches \in 0..MaxLaunches
    /\ noted \in SUBSET Pids
    /\ suspects \in SUBSET Tests

Init ==
    /\ EmptyFile
    /\ inflight = {}
    /\ present = Tests
    /\ poison \in SUBSET Wedgers
    /\ proc = [p \in Pids |-> 0]
    /\ life = [w \in Workers |-> "gone"]
    /\ stage = [w \in Workers |-> [t \in Tests |-> "out"]]
    /\ pid = [w \in Workers |-> [t \in Tests |-> NoPid]]
    /\ sup = "off"
    /\ all = {}
    /\ child = NoWorker
    /\ result = "none"
    /\ targets = {}
    /\ before = 0
    /\ grew = FALSE
    /\ noProgress = 0
    /\ report = NoRecords
    /\ launches = 0
    /\ noted = {}
    /\ suspects = {}

-----------------------------------------------------------------------------
(* Files and processes.                                                    *)

\* Of what a command line selects, the tests whose file exists.
resolveTestSet(selection) == selection \cap present

\* The entry of test t in the worker's Map inFlight, after the step.
EntryWithoutPid(w, t) == [test |-> t, pid |-> NoPid]
Entry(w, t) == [test |-> t, pid |-> IF stage'[w][t] \in {"listed", "spawned"} THEN NoPid
                                    ELSE pid'[w][t]]

\* writeInflight: the whole Map, mirrored to inflight.json.
writeInflight(w) ==
    inflight' = {Entry(w, t) : t \in {u \in Tests : stage'[w][u] \in InFlight}}

\* The groups P end.
Ended(P) == proc' = [p \in Pids |-> IF p \in P THEN 0 ELSE proc[p]]
endGroups(P) == Ended(P) /\ noted' = noted \ P

\* SIGKILL is sent to the groups P, which may have survivors.
hardKill(P) ==
    /\ \E survivors \in IF "killFails" \in Faults THEN SUBSET P ELSE {{}} :
          Ended(P \ survivors)
    /\ noted' = noted \ P

\* The group that runs t for worker w, if there still is one.
GroupOf(w, t) == {p \in Pids : p = pid[w][t] /\ proc[p] = t}

\* Is the worker about to write inflight.json, so that a kill may truncate it?
MidInflight(w) ==
    \/ life[w] = "boot"
    \/ At(w, {"spawned", "appended"}) # {}
    \/ At(w, {"todo"}) # {} /\ Cardinality(At(w, InFlight)) < Concurrency

\* What the files may look like when the workers W die, and the supervisor
\* too if supDies: as they are, or with the write under way cut off.
CutWrites(W, supDies) ==
    /\ \/ UNCHANGED inflight
       \/ "tear" \in Faults /\ (\E w \in W : MidInflight(w)) /\ inflight' = {}
    /\ \/ UNCHANGED fileVars
       \/ /\ "tear" \in Faults
          /\ \E w \in W : \E t \in At(w, {"ran", "killed"}) : tearLine(t, stage[w][t])
       \/ /\ "tear" \in Faults
          /\ supDies /\ sup = "mark" /\ targets # {}
          /\ tearLine(Min(targets), "crash")

\* The workers W are gone, with what they knew.
Bury(W, how) ==
    /\ life' = [w \in Workers |-> IF w \in W THEN how ELSE life[w]]
    /\ stage' = [w \in Workers |-> IF w \in W THEN [t \in Tests |-> "out"] ELSE stage[w]]
    /\ pid' = [w \in Workers |-> IF w \in W THEN [t \in Tests |-> NoPid] ELSE pid[w]]
    /\ suspects' = suspects \cup UNION {At(w, InFlight) : w \in W}

-----------------------------------------------------------------------------
(* The worker.                                                             *)

\* The test set is resolved again, recorded tests are skipped.
TodoIgnoresLedger(w) == resolveTestSet(At(w, {"todo"}))
Todo(w) == resolveTestSet(At(w, {"todo"})) \ Recorded

Boot(w) ==
    /\ life[w] = "boot"
    /\ life' = [life EXCEPT ![w] = "live"]
    /\ stage' = [stage EXCEPT ![w] = [t \in Tests |-> IF t \in Todo(w) THEN "todo"
                                                                     ELSE "out"]]
    /\ UNCHANGED pid
    /\ writeInflight(w)
    /\ UNCHANGED <<fileVars, supVars, envVars, proc, noted, suspects>>

\* A lane of runPool takes the next test and lists it, with no pid yet.
Take(w) ==
    /\ Idle(w)
    /\ At(w, {"todo"}) # {}
    /\ Cardinality(At(w, InFlight)) < Concurrency
    /\ stage' = [stage EXCEPT ![w][Min(At(w, {"todo"}))] = "listed"]
    /\ UNCHANGED pid
    /\ writeInflight(w)
    /\ UNCHANGED <<fileVars, supVars, envVars, proc, life, noted, suspects>>

SpawnTest(w, t) ==
    /\ life[w] = "live" /\ stage[w][t] = "listed"
    /\ \E p \in Pids : /\ proc[p] = 0
                       /\ proc' = [proc EXCEPT ![p] = t]
                       /\ pid' = [pid EXCEPT ![w][t] = p]
    /\ stage' = [stage EXCEPT ![w][t] = "spawned"]
    /\ UNCHANGED <<fileVars, supVars, envVars, inflight, life, noted, suspects>>

\* spawn emits 'error' later and child.pid stays undefined.  It always fails
\* when the process table is full.
SpawnTestFails(w, t) ==
    /\ life[w] = "live" /\ stage[w][t] = "listed"
    /\ "spawnError" \in Faults \/ \A p \in Pids : proc[p] # 0
    /\ stage' = [stage EXCEPT ![w][t] = "spawned"]
    /\ UNCHANGED <<fileVars, supVars, envVars, inflight, proc, life, pid, noted, suspects>>

\* onSpawn: the pid goes into inflight.json.
NotePid(w, t) ==
    /\ life[w] = "live" /\ stage[w][t] = "spawned"
    /\ stage' = [stage EXCEPT ![w][t] = "running"]
    /\ UNCHANGED pid
    /\ writeInflight(w)
    /\ noted' = noted \cup GroupOf(w, t)
    /\ UNCHANGED <<fileVars, supVars, envVars, proc, life, suspects>>

\* runOne settles because the child has ended, or was never there.  A poison
\* test does not end by itself; another process may have killed it.
Settle(w, t) ==
    /\ Idle(w) /\ stage[w][t] = "running"
    /\ GroupOf(w, t) # {} => t \notin poison
    /\ stage' = [stage EXCEPT ![w][t] = "ran"]
    /\ endGroups(GroupOf(w, t))
    /\ UNCHANGED <<fileVars, supVars, envVars, inflight, life, pid, suspects>>

\* runOne settles because killTimer fired; reapTimer ends the wait for a
\* child that SIGKILL has not removed.
SettleKilled(w, t) ==
    /\ Idle(w) /\ stage[w][t] = "running"
    /\ GroupOf(w, t) # {}
    /\ stage' = [stage EXCEPT ![w][t] = "killed"]
    /\ hardKill(GroupOf(w, t))
    /\ UNCHANGED <<fileVars, supVars, envVars, inflight, life, pid, suspects>>

AppendRecord(w, t) ==
    /\ life[w] = "live" /\ stage[w][t] \in {"ran", "killed"}
    /\ appendLine(t, stage[w][t])
    /\ stage' = [stage EXCEPT ![w][t] = "appended"]
    /\ UNCHANGED <<supVars, envVars, inflight, proc, life, pid, noted, suspects>>

\* inFlight.delete and writeInflight.  The handle of a child that survived its
\* SIGKILL stays open.
ClearEntry(w, t) ==
    /\ life[w] = "live" /\ stage[w][t] = "appended"
    /\ stage' = [stage EXCEPT ![w][t] = "out"]
    /\ pid' = [pid EXCEPT ![w][t] = IF GroupOf(w, t) = {} THEN NoPid ELSE @]
    /\ writeInflight(w)
    /\ UNCHANGED <<fileVars, supVars, envVars, proc, life, noted, suspects>>

\* Every lane has returned.  Node leaves when no handle of a child is open.
OpenHandles(w) == {t \in Tests : GroupOf(w, t) # {}}
NoMoreWork(w) == Idle(w) /\ At(w, InFlight \cup {"todo"}) = {}
Exit(w) ==
    /\ NoMoreWork(w)
    /\ OpenHandles(w) = {}
    /\ life' = [life EXCEPT ![w] = "exited"]
    /\ pid' = [pid EXCEPT ![w] = [t \in Tests |-> NoPid]]
    /\ UNCHANGED <<fileVars, supVars, envVars, inflight, proc, stage, noted, suspects>>

-----------------------------------------------------------------------------
(* The supervisor.                                                         *)

\* The module's top level and main up to the first harvest: ALL is resolved,
\* --fresh removes the ledger.
Launch(selection, fresh) ==
    /\ sup \in {"off", "finished", "aborted"}
    /\ launches < MaxLaunches
    /\ launches' = launches + 1
    /\ all' = resolveTestSet(selection)
    /\ IF fresh THEN sup' = "wipe" /\ wipeFile
                ELSE sup' = "harvest" /\ UNCHANGED fileVars
    /\ UNCHANGED <<workerVars, inflight, present, poison, proc, noted, suspects, child,
                   result, targets, before, grew, noProgress, report>>

\* --fresh removes inflight.json.
WipeInflight ==
    /\ sup = "wipe"
    /\ inflight' = {}
    /\ suspects' = {}
    /\ sup' = "harvest"
    /\ UNCHANGED <<fileVars, workerVars, envVars, proc, all, child, result, targets,
                   before, grew, noProgress, report, noted>>

\* The tests inflight.json lists that have no record.
UnfinishedEvenIfDone == {e.test : e \in inflight}
UnfinishedWithPid == {e.test : e \in {x \in inflight : x.pid # NoPid}} \ Recorded
Unfinished == {e.test : e \in inflight} \ Recorded

\* Only the oldest is blamed after a stall or an abnormal exit, all of them
\* when they are left over from an earlier run.  (Unguarded: the first of an
\* empty list is no test.)
BlamedUnguarded(tests) ==
    IF result # "none" THEN {IF tests = {} THEN 0 ELSE Min(tests)} ELSE tests
Blamed(tests) == IF result # "none" /\ tests # {} THEN {Min(tests)} ELSE tests

harvestInflightClearsFirst ==
    /\ sup = "harvest"
    /\ hardKill({e.pid : e \in inflight} \ {NoPid})
    /\ targets' = Blamed(Unfinished)
    /\ inflight' = {}
    /\ sup' = "mark"
    /\ UNCHANGED <<fileVars, workerVars, envVars, all, child, result, before,
                   grew, noProgress, report, suspects>>
harvestInflight ==
    /\ sup = "harvest"
    /\ hardKill({e.pid : e \in inflight} \ {NoPid})
    /\ targets' = Blamed(Unfinished)
    /\ sup' = "mark"
    /\ UNCHANGED <<fileVars, workerVars, envVars, inflight, all, child, result, before,
                   grew, noProgress, report, suspects>>

MarkCrash ==
    /\ sup = "mark" /\ targets # {}
    /\ appendLine(Min(targets), "crash")
    /\ targets' = targets \ {Min(targets)}
    /\ UNCHANGED <<workerVars, envVars, inflight, proc, sup, all, child, result, before,
                   grew, noProgress, report, noted, suspects>>

clearInflightOnlyAtStart ==
    /\ sup = "mark" /\ targets = {}
    /\ inflight' = IF result = "none" THEN {} ELSE inflight
    /\ suspects' = {}
    /\ sup' = "judge"
    /\ UNCHANGED <<fileVars, workerVars, envVars, proc, all, child, result, targets,
                   before, grew, noProgress, report, noted>>
clearInflight ==
    /\ sup = "mark" /\ targets = {}
    /\ inflight' = {}
    /\ suspects' = {}
    /\ sup' = "judge"
    /\ UNCHANGED <<fileVars, workerVars, envVars, proc, all, child, result, targets,
                   before, grew, noProgress, report, noted>>

\* Was the last cycle one without progress?  The ledger was counted before
\* the harvest, and a clean exit counts as progress.
FruitlessIfShrunk == result \in {"stall", "exit"} /\ Cardinality(Recorded) < before
Fruitless == result \in {"stall", "exit"} /\ ~grew

writeOutputs == report' = [t \in Tests |-> IF t \in all THEN readLedger[t] ELSE "none"]

\* The constants of the loop's body end with it.
EndOfCycle == result' = "none" /\ before' = 0 /\ grew' = FALSE

Continue ==
    /\ sup = "judge"
    /\ ~(Fruitless /\ noProgress + 1 >= MaxNoProgress)
    /\ noProgress' = IF Fruitless THEN noProgress + 1 ELSE 0
    /\ sup' = "loop"
    /\ EndOfCycle
    /\ UNCHANGED <<fileVars, workerVars, envVars, inflight, proc, all, child, targets,
                   report, noted, suspects>>

GiveUp ==
    /\ sup = "judge"
    /\ Fruitless /\ noProgress + 1 >= MaxNoProgress
    /\ sup' = "aborted"
    /\ noProgress' = 0
    /\ EndOfCycle
    /\ writeOutputs
    /\ UNCHANGED <<fileVars, workerVars, envVars, inflight, proc, all, child, targets,
                   noted, suspects>>

Finish ==
    /\ sup = "loop"
    /\ all \subseteq Recorded
    /\ sup' = "finished"
    /\ noProgress' = 0
    /\ writeOutputs
    /\ UNCHANGED <<fileVars, workerVars, envVars, inflight, proc, all, child, result,
                   targets, before, grew, noted, suspects>>

\* The worker gets the command line's selection in CORPUS_CFG; it resolves it
\* when it boots.
spawnWorker(w) ==
    /\ sup = "loop"
    /\ ~(all \subseteq Recorded)
    /\ ~Alive(w)
    /\ life' = [life EXCEPT ![w] = "boot"]
    /\ stage' = [stage EXCEPT ![w] = [t \in Tests |-> IF t \in all THEN "todo" ELSE "out"]]
    /\ child' = w
    /\ before' = Cardinality(Recorded)
    /\ sup' = "watch"
    /\ UNCHANGED <<fileVars, envVars, inflight, proc, pid, all, result, targets, grew,
                   noProgress, report, noted, suspects>>

\* runWorkerOnce has returned r; after is read at once.
Returned(r) ==
    /\ result' = r
    /\ grew' = (Cardinality(Recorded') > before)
    /\ child' = NoWorker
    /\ UNCHANGED <<all, targets, before, noProgress, report>>

\* The worker can do nothing that makes the ledger grow: it is wedged, or kept
\* from leaving by a child that survived.
Stuck(w) == life[w] = "wedged" \/ (NoMoreWork(w) /\ OpenHandles(w) # {})

Stall ==
    /\ sup = "watch"
    /\ Stuck(child)
    /\ CutWrites({child}, FALSE)
    /\ Bury({child}, "gone")
    /\ sup' = "harvest"
    /\ Returned("stall")
    /\ UNCHANGED <<envVars, proc, noted>>

\* The 'exit' event of the worker.
ChildExit ==
    /\ sup = "watch"
    /\ life[child] \in {"exited", "failed"}
    /\ life' = [life EXCEPT ![child] = "gone"]
    /\ sup' = IF life[child] = "exited" THEN "mark" ELSE "harvest"
    /\ UNCHANGED <<fileVars, envVars, inflight, proc, stage, pid, noted, suspects>>
    /\ Returned(IF life[child] = "exited" THEN "done" ELSE "exit")

-----------------------------------------------------------------------------
(* What the program does not control.                                      *)

\* Some running poison test wedges the container as far as w is concerned.
Wedge(w) ==
    /\ life[w] \in {"boot", "live"}
    /\ \E p \in Pids : proc[p] \in poison
    /\ life' = [life EXCEPT ![w] = "wedged"]
    /\ UNCHANGED <<fileVars, supVars, envVars, inflight, proc, stage, pid, noted, suspects>>

\* A test process nobody waits for ends by itself.
OrphanEnds(p) ==
    /\ proc[p] # 0 /\ proc[p] \notin poison
    /\ \A w \in Workers : \A t \in At(w, {"spawned", "running"}) : p \notin GroupOf(w, t)
    /\ endGroups({p})
    /\ UNCHANGED <<fileVars, supVars, workerVars, envVars, inflight, suspects>>

WorkerDies(w) ==
    /\ "workerExit" \in Faults
    /\ Alive(w)
    /\ CutWrites({w}, FALSE)
    /\ Bury({w}, "failed")
    /\ UNCHANGED <<supVars, envVars, proc, noted>>

SupRuns == sup \in {"wipe", "harvest", "mark", "judge", "loop", "watch"}
SupGone == /\ sup' = "off"
           /\ child' = NoWorker /\ result' = "none" /\ targets' = {}
           /\ before' = 0 /\ grew' = FALSE /\ noProgress' = 0
           /\ UNCHANGED <<all, report>>

\* Ctrl-C reaches the supervisor's process group; the worker is in its own.
CtrlC ==
    /\ "ctrlC" \in Faults
    /\ SupRuns
    /\ CutWrites({}, TRUE)
    /\ SupGone
    /\ UNCHANGED <<workerVars, envVars, proc, noted, suspects>>

\* The worker's spawn emits 'error', which nobody listens to.
spawnWorkerFails ==
    /\ "spawnError" \in Faults
    /\ sup = "loop"
    /\ ~(all \subseteq Recorded)
    /\ SupGone
    /\ UNCHANGED <<fileVars, workerVars, envVars, inflight, proc, noted, suspects>>

\* The container stops: only the files are left.
Restart ==
    /\ "restart" \in Faults
    /\ SupRuns \/ \E w \in Workers : Alive(w)
    /\ CutWrites({w \in Workers : Alive(w)}, TRUE)
    /\ Bury(Workers, "gone")
    /\ SupGone
    /\ endGroups(Pids)
    /\ UNCHANGED envVars

\* Bound: one file at most.
Vanish(t) ==
    /\ "vanish" \in Faults
    /\ present = Tests
    /\ present' = present \ {t}
    /\ UNCHANGED <<fileVars, supVars, workerVars, inflight, proc, poison, launches,
                   noted, suspects>>

-----------------------------------------------------------------------------
WorkerStep(w) ==
    \/ Boot(w) \/ Take(w) \/ Exit(w)
    \/ \E t \in Tests : \/ SpawnTest(w, t) \/ SpawnTestFails(w, t) \/ NotePid(w, t)
                        \/ Settle(w, t) \/ SettleKilled(w, t)
                        \/ AppendRecord(w, t) \/ ClearEntry(w, t)

SupStep ==
    \/ WipeInflight \/ harvestInflight \/ MarkCrash \/ clearInflight \/ Continue \/ GiveUp
    \/ Finish \/ Stall \/ ChildExit
    \/ \E w \in Workers : spawnWorker(w)

Start == \E selection \in Selections, fresh \in BOOLEAN : Launch(selection, fresh)

Environment ==
    \/ CtrlC \/ spawnWorkerFails \/ Restart
    \/ \E w \in Workers : Wedge(w) \/ WorkerDies(w)
    \/ \E p \in Pids : OrphanEnds(p)
    \/ \E t \in Tests : Vanish(t)

Next == Start \/ SupStep \/ (\E w \in Workers : WorkerStep(w)) \/ Environment

Spec == Init /\ [][Next]_vars

\* A process that can take its next step takes it: the supervisor and the
\* workers are event loops, and runOne's timers settle every test.  Nothing
\* is assumed of wedging, faults or launches.
Fairness == WF_vars(SupStep) /\ \A w \in Workers : WF_vars(WorkerStep(w))
FairSpec == Spec /\ Fairness

-----------------------------------------------------------------------------
(* Properties.                                                             *)

(***************************************************************************)
(* What readInflight finds is enough to reap: a test process whose pid was *)
(* noted stays listed in inflight.json until it has ended or has been sent *)
(* SIGKILL, whoever dies in between (corpus-worker.mjs writeInflight       *)
(* against run-corpus.mjs harvestInflight and reapPid).                    *)
(***************************************************************************)
ReapableFromDisk == \A p \in noted : \E e \in inflight : e.pid = p

(***************************************************************************)
(* A test in flight when its worker died is not forgotten before the       *)
(* supervisor has dealt with it: it is in inflight.json or it has a        *)
(* record, across restarts between two steps of a harvest.                 *)
(***************************************************************************)
SuspectsKept == suspects \subseteq Recorded \cup {e.test : e \in inflight}

(***************************************************************************)
(* The sweep steps over a poison test: when inflight.json is cleared, one  *)
(* of the tests that were in flight when the worker died has a record, so  *)
(* the same set is not hit again; after a restart all of them have.        *)
(***************************************************************************)
StepsOver ==
    [][sup = "mark" /\ sup' = "judge" /\ suspects # {} =>
         IF result = "none" THEN suspects \subseteq Recorded
                            ELSE suspects \cap Recorded # {}]_vars

(***************************************************************************)
(* Only suspects are blamed: a test that comes to read as a crash was in   *)
(* flight when a worker died, and inflight.json has not been cleared since *)
(* then.  Otherwise a harvest would report a crash of a test no worker was *)
(* running, and the sweep would step over it.                              *)
(***************************************************************************)
BlamesOnlySuspects ==
    [][\A t \in Tests : readLedger'[t] = "crash" /\ readLedger[t] # "crash" => t \in suspects]_vars

(***************************************************************************)
(* No test process is started for a test that has a record, whoever wrote  *)
(* the record: the ledger a worker read when it booted (lines 100-101) is  *)
(* still good when it takes the test.                                      *)
(***************************************************************************)
NeverRerun ==
    [][\A p \in Pids : proc'[p] # proc[p] => proc'[p] \notin Recorded]_vars

(***************************************************************************)
(* A result is never replaced by another one, neither by a second run of   *)
(* the test nor by a crash mark for a test that had finished: whatever     *)
(* torn line hides a record, the test goes through "none" first.           *)
(***************************************************************************)
NoOverwrite ==
    [][\A t \in Recorded : readLedger[t] # readLedger'[t] => t \notin Recorded']_vars

\* The tests whose append returns in this step, in a worker or in the harvest.
Appended ==
    {t \in Tests : \E w \in Workers : stage[w][t] \in {"ran", "killed"}
                                      /\ stage'[w][t] = "appended"}
      \cup IF sup = "mark" /\ sup' = "mark" THEN targets \ targets' ELSE {}

(***************************************************************************)
(* What a torn line costs: the record that was torn and the next one to be *)
(* appended, a test's or a crash mark, which lands on the torn line and is *)
(* dropped with it (corpus-lib.mjs:45-50; the comment there, lines 41-42,  *)
(* has only the partial line skipped).  That append ends the line, so the  *)
(* one after it is safe, and no step but --fresh loses any other record.   *)
(***************************************************************************)
TornLineCostsTwo ==
    [][launches' = launches =>
         LET lost == (Recorded \cup Appended) \ Recorded' IN
           /\ lost \subseteq {tail.test} \cup Appended
           /\ lost \cap Appended # {} => tail # Clean /\ tail' = Clean]_vars

(***************************************************************************)
(* Every cycle of main's loop counts: from one launch of a worker to the   *)
(* next, either every test of the sweep gets its record, or a budget       *)
(* shrinks that is never used up while the loop goes on: MaxNoProgress     *)
(* cycles for each test without a record, and the fruitless cycles left.   *)
(* The bound on the workers of one start follows (CorpusCycles).           *)
(***************************************************************************)
Budget(recorded, fruitless) ==
    (Cardinality(Tests) - recorded) * MaxNoProgress + (MaxNoProgress - fruitless)
EveryCycleCounts ==
    [][sup = "judge" /\ sup' = "loop" /\ result # "none" =>
          \/ all \subseteq Recorded
          \/ Budget(Cardinality(Recorded), noProgress') \in 1 .. Budget(before, noProgress) - 1
      ]_vars

(***************************************************************************)
(* A sweep ends: every wedge is met by the stall watchdog, and poison,     *)
(* dying workers, failing kills and spawns cannot keep the loop of main    *)
(* going for ever.                                                         *)
(***************************************************************************)
SweepEnds == SupRuns ~> ~SupRuns

(***************************************************************************)
(* The detailed system implements the sweep: results are written once, by  *)
(* a running sweep only, and the report is what the ledger says.           *)
(***************************************************************************)
Phase == CASE sup = "off" -> "idle"
           [] sup \in {"finished", "aborted"} -> sup
           [] OTHER -> "running"
Abstract == INSTANCE Sweep WITH results <- readLedger, asked <- all, phase <- Phase
ImplementsSweep == Abstract!Spec

-----------------------------------------------------------------------------
(* What the documentation says and the code does not do.                   *)

(***************************************************************************)
(* run-corpus.mjs:198: the sweep is aborted for want of progress.  (Marks  *)
(* made by the harvest of a cycle do not count as its progress.)           *)
(***************************************************************************)
AbortsOnlyWithoutProgress ==
    [][sup = "judge" /\ sup' = "aborted" => Cardinality(Recorded) <= before]_vars

(***************************************************************************)
(* README.md:47-48: a re-run skips what is already done, so Ctrl-C is      *)
(* safe.  (Done is a test that has run and has its result in the ledger;   *)
(* one that is only marked crash has not run to an end.)                   *)
(***************************************************************************)
DoneIsNotRerun ==
    [][\A p \in Pids : proc'[p] # proc[p] /\ proc'[p] # 0
         => readLedger[proc'[p]] \notin {"ran", "killed"}]_vars
=============================================================================
