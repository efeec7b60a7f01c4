----------------------------- MODULE Introspect -----------------------------
(***************************************************************************)
(* The runtime autopsy (introspect-serve.mjs): a chain of child processes, *)
(* run one after the other, the probe first, then the runs of the flag     *)
(* matrix, then the red-wall tests; a report that grows in memory and is   *)
(* served from there, and that save() mirrors to results/introspect.json.  *)
(* The code between two awaits runs without interruption, so an action     *)
(* goes from one await to the next.                                        *)
(***************************************************************************)
EXTENDS Naturals

CONSTANTS MatrixRuns,   \* calls of run in flagMatrix: 7
          TestRuns,     \* ids of redwall.txt that exist
          MaxLaunches   \* bound: how often the container starts the command

ASSUME IntrospectAssumption ==
    MatrixRuns \in Nat \ {0} /\ TestRuns \in Nat \ {0} /\ MaxLaunches \in Nat

Last == 1 + MatrixRuns + TestRuns
Jobs == 1..Last
Matrix == 2..(1 + MatrixRuns)
TestJobs == (2 + MatrixRuns)..Last

VARIABLES
  up,          \* the process: down, up, or wedged with its container
  child,       \* of each job: none (any more), alive, failed to spawn, or
               \* stubborn: alive, and SIGKILL will not end it
  job,         \* the job whose run is awaited
  phase,       \* waiting, settled, rejected, threw or over
  result,      \* what run resolved with
  outcome,     \* of each job, as kept by main and flagMatrix
  status,      \* REPORT.status
  disk,        \* introspect.json, Torn when its writer died at it
  launches

vars == <<up, child, job, phase, result, outcome, status, disk, launches>>

\* run resolves with exit code 0, with another code (-1 after a spawn error),
\* or killed: PASS, FAIL and TIMEOUT in the report.
Results == {"zero", "other", "killed"}
NoOutcome == [j \in Jobs |-> "none"]
Torn == [status |-> "torn", jobs |-> NoOutcome]
Nothing == [status |-> "none", jobs |-> NoOutcome]

\* REPORT: the flag matrix is added when all of it is there.
Report == [status |-> status,
           jobs |-> [j \in Jobs |-> IF j \in Matrix /\ job \in Matrix THEN "none"
                                    ELSE outcome[j]]]

TypeOK ==
    /\ up \in {"down", "up", "wedged"}
    /\ child \in [Jobs -> {"none", "alive", "stubborn", "failed"}]
    /\ job \in Jobs
    /\ phase \in {"waiting", "settled", "rejected", "threw", "over"}
    /\ result \in Results
    /\ outcome \in [Jobs -> Results \cup {"none"}]
    /\ status \in {"RUNNING", "DONE", "ERROR"}
    /\ disk \in [status : {"none", "torn", "RUNNING", "DONE", "ERROR"},
                 jobs : [Jobs -> Results \cup {"none"}]]
    /\ launches \in 0..MaxLaunches

Init ==
    /\ up = "down"
    /\ child = [j \in Jobs |-> "none"]
    /\ job = 1 /\ phase = "over" /\ result = "zero"
    /\ outcome = NoOutcome
    /\ status = "RUNNING"
    /\ disk = Nothing
    /\ launches = 0

-----------------------------------------------------------------------------
\* run, up to its await.  When spawn throws, finish reads t before its
\* declaration: the promise is rejected.
StartRun(j) ==
    /\ job' = j
    /\ \/ /\ \E c \in {"alive", "stubborn", "failed"} : child' = [child EXCEPT ![j] = c]
          /\ phase' = "waiting"
       \/ phase' = "rejected" /\ UNCHANGED child

Launch ==
    /\ up = "down" /\ launches < MaxLaunches
    /\ launches' = launches + 1
    /\ up' = "up"
    /\ StartRun(1)
    /\ UNCHANGED <<result, outcome, status, disk>>

Running(j) == child[j] \in {"alive", "stubborn"}

\* finish: the first call settles the run.
finish(r) == result' = r /\ phase' = "settled"
Waiting == up = "up" /\ phase = "waiting"

OnClose(code) ==
    /\ Waiting /\ Running(job)
    /\ child' = [child EXCEPT ![job] = "none"]
    /\ finish(code)
    /\ UNCHANGED <<up, job, outcome, status, disk, launches>>

OnError ==
    /\ Waiting /\ child[job] = "failed"
    /\ finish("other")
    /\ UNCHANGED <<up, child, job, outcome, status, disk, launches>>

\* SIGKILL to the child, which may not work.
Kill == child' = IF child[job] = "alive" THEN [child EXCEPT ![job] = "none"] ELSE child

TimeoutWithoutKill ==
    /\ Waiting
    /\ finish("killed")
    /\ UNCHANGED <<up, child, job, outcome, status, disk, launches>>
TimeoutWithoutFinish ==
    /\ Waiting
    /\ Kill
    /\ phase' = IF child[job] = "stubborn" THEN phase ELSE "settled"
    /\ result' = "killed"
    /\ UNCHANGED <<up, job, outcome, status, disk, launches>>
Timeout ==
    /\ Waiting
    /\ Kill
    /\ finish("killed")
    /\ UNCHANGED <<up, job, outcome, status, disk, launches>>

saveTooEarly == disk' = Report
save == disk' = Report'

\* The runs main saves after: all but those inside flagMatrix.
Saves == job \notin Matrix \/ job + 1 \notin Matrix

\* The test of the loop over the tests.
HasNextOrLast == job <= Last
HasNext == job < Last

\* main goes on with the run's result, up to the next run.  The test's file
\* may have gone since the list was made, and readFileSync throws.
Record ==
    /\ up = "up" /\ phase = "settled" /\ HasNext
    /\ outcome' = [outcome EXCEPT ![job] = result]
    /\ \/ StartRun(job + 1)
       \/ /\ job + 1 \in TestJobs
          /\ phase' = "threw" /\ job' = job + 1 /\ UNCHANGED child
    /\ UNCHANGED <<up, result, status, launches>>
    /\ IF Saves THEN save ELSE UNCHANGED disk

\* The two saves at the end are one.
Done ==
    /\ up = "up" /\ phase = "settled" /\ job = Last
    /\ outcome' = [outcome EXCEPT ![job] = result]
    /\ status' = "DONE"
    /\ phase' = "over"
    /\ UNCHANGED <<up, child, job, result, launches>>
    /\ save

\* The catch at the end of main.
Catch ==
    /\ up = "up" /\ phase \in {"rejected", "threw"}
    /\ status' = "ERROR"
    /\ phase' = "over"
    /\ UNCHANGED <<up, child, job, result, outcome, launches>>
    /\ save

-----------------------------------------------------------------------------
\* A child that survived its SIGKILL ends late; its run is settled.
SurvivorEnds(j) ==
    /\ Running(j) /\ ~(phase = "waiting" /\ j = job)
    /\ child' = [child EXCEPT ![j] = "none"]
    /\ UNCHANGED <<up, job, phase, result, outcome, status, disk, launches>>

\* A child wedges the container.
Wedge ==
    /\ Waiting /\ \E j \in Jobs : Running(j)
    /\ up' = "wedged"
    /\ UNCHANGED <<child, job, phase, result, outcome, status, disk, launches>>

\* The container stops, maybe while save is writing.
Stop ==
    /\ up # "down"
    /\ up' = "down"
    /\ child' = [j \in Jobs |-> "none"]
    /\ \/ UNCHANGED disk
       \/ /\ up = "up" /\ phase \in {"settled", "rejected", "threw"}
          /\ phase = "settled" => Saves
          /\ disk' = Torn
    /\ job' = 1 /\ phase' = "over" /\ result' = "zero"
    /\ outcome' = NoOutcome
    /\ status' = "RUNNING"
    /\ UNCHANGED launches

Step == OnError \/ Timeout \/ Record \/ Done \/ Catch

Next == \/ Launch \/ Step \/ Wedge \/ Stop
        \/ \E c \in {"zero", "other"} : OnClose(c)
        \/ \E j \in Jobs : SurvivorEnds(j)

\* The process is an event loop and run's timer is always armed.  That a child
\* ends, and that its pipes are closed, is not assumed.
Spec == Init /\ [][Next]_vars
FairSpec == Spec /\ WF_vars(Step)

-----------------------------------------------------------------------------
(***************************************************************************)
(* While a child runs that may wedge the container, and when main is over, *)
(* everything the report says so far is on the disk too: the probe's data  *)
(* and each test's result, "a later test that wedges WC can't cost us the  *)
(* probe data" (introspect-serve.mjs:8-9).                                 *)
(***************************************************************************)
NothingLost ==
    up # "down" =>
      /\ phase = "waiting" /\ job > 1 /\ job \notin Matrix => disk = Report
      /\ phase = "waiting" /\ job > 1 => disk.jobs[1] = outcome[1] /\ outcome[1] # "none"
      /\ phase = "over" => disk = Report

(***************************************************************************)
(* A job's verdict is not spoilt by the children of earlier ones: those    *)
(* still running are the ones SIGKILL does not end.                        *)
(***************************************************************************)
OneAtATime == \A j \in Jobs \ {job} : child[j] # "alive"

(***************************************************************************)
(* The report gets done, or says that it cannot: no child that neither     *)
(* ends nor can be killed keeps main waiting (introspect-serve.mjs:6-7).   *)
(***************************************************************************)
ReportEnds == up = "up" ~> (up = "up" => status # "RUNNING")
=============================================================================
