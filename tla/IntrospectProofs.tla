--------------------------- MODULE IntrospectProofs ---------------------------
(***************************************************************************)
(* Proofs about Introspect, for any number of matrix runs, tests and       *)
(* launches: what the report says is on the disk when it matters, and no   *)
(* child runs beside a later one unless SIGKILL does not end it.           *)
(***************************************************************************)
EXTENDS Introspect, TLAPS

\* The probe's outcome is on the disk from the second job on, whatever the
\* phase: main goes through the matrix without saving.
ProbeIsSaved ==
    up # "down" /\ phase # "over" /\ job > 1 =>
        disk.jobs[1] = outcome[1] /\ outcome[1] # "none"

TestsAreSaved ==
    up # "down" /\ phase = "waiting" /\ job > 1 /\ job \notin Matrix => disk = Report

EndIsSaved == up # "down" /\ phase = "over" => disk = Report

Quiet == phase # "waiting" => \A j \in Jobs : child[j] # "alive"

DownIsOver == up = "down" => phase = "over"

Saved == ProbeIsSaved /\ TestsAreSaved /\ EndIsSaved

IInv == TypeOK /\ Saved /\ Quiet /\ OneAtATime /\ DownIsOver

\* The jobs in numbers.
LEMMA JobTypes ==
    /\ Last \in Nat /\ Last > 2
    /\ 1 \in Jobs /\ 1 \notin Matrix
    /\ \A j \in Jobs : j \in Nat /\ j >= 1
    /\ \A j \in Jobs : j < Last => j + 1 \in Jobs
    /\ \A j \in TestJobs : j \in Jobs
  BY IntrospectAssumption DEF Last, Jobs, Matrix, TestJobs

\* The report depends on three variables only.
LEMMA SameReport == UNCHANGED <<status, outcome, job>> => Report' = Report
  BY DEF Report

\* What a start of a child does to the invariant's types and children.
LEMMA StartRunEffect ==
    ASSUME TypeOK, NEW j \in Jobs, StartRun(j), \A k \in Jobs : child[k] # "alive"
    PROVE  /\ job' \in Jobs /\ job' = j
           /\ phase' \in {"waiting", "rejected"}
           /\ child' \in [Jobs -> {"none", "alive", "stubborn", "failed"}]
           /\ OneAtATime' /\ Quiet'
  BY DEF TypeOK, StartRun, OneAtATime, Quiet

\* The initial state satisfies the invariant.
LEMMA Initially == Init => IInv
<1> SUFFICES ASSUME Init PROVE IInv
  OBVIOUS
<1>1. TypeOK
  BY JobTypes, IntrospectAssumption DEF Init, TypeOK, Nothing, NoOutcome, Results
<1> QED
  BY <1>1 DEF Init, IInv, Saved, ProbeIsSaved, TestsAreSaved, EndIsSaved, Quiet, OneAtATime,
              DownIsOver

\* The first child of a launch finds nothing running.
LEMMA LaunchKeeps == IInv /\ Launch => IInv'
<1> SUFFICES ASSUME IInv, Launch PROVE IInv'
  OBVIOUS
<1>1. StartRun(1) /\ 1 \in Jobs /\ \A k \in Jobs : child[k] # "alive"
  BY JobTypes DEF Launch, IInv, DownIsOver, Quiet
<1>2. /\ job' \in Jobs /\ job' = 1
      /\ phase' \in {"waiting", "rejected"}
      /\ child' \in [Jobs -> {"none", "alive", "stubborn", "failed"}]
      /\ OneAtATime' /\ Quiet'
  BY <1>1, StartRunEffect DEF IInv
<1>3. TypeOK'
  BY <1>2, IntrospectAssumption DEF IInv, TypeOK, Launch
<1>4. Saved' /\ DownIsOver'
  BY <1>2 DEF Saved, ProbeIsSaved, TestsAreSaved, EndIsSaved, DownIsOver, Launch
<1> QED
  BY <1>2, <1>3, <1>4 DEF IInv

\* A run that settles leaves the report alone and, if it was a timeout, its
\* child killed.
LEMMA SettleKeeps ==
    IInv /\ (OnError \/ Timeout \/ \E c \in {"zero", "other"} : OnClose(c)) => IInv'
<1> SUFFICES ASSUME IInv, OnError \/ Timeout \/ \E c \in {"zero", "other"} : OnClose(c)
             PROVE  IInv'
  OBVIOUS
<1>1. /\ up = "up" /\ phase = "waiting" /\ phase' = "settled"
      /\ UNCHANGED <<up, job, outcome, status, disk, launches>>
  BY DEF OnError, Timeout, OnClose, Waiting, finish
<1>2. TypeOK'
  BY <1>1 DEF IInv, TypeOK, OnError, Timeout, OnClose, finish, Kill, Results
<1>3. \A j \in Jobs : child'[j] # "alive"
  BY DEF IInv, TypeOK, OneAtATime, OnError, Timeout, OnClose, Kill, Running
<1>4. Saved'
  BY <1>1 DEF IInv, Saved, ProbeIsSaved, TestsAreSaved, EndIsSaved
<1> QED
  BY <1>1, <1>2, <1>3, <1>4 DEF IInv, Quiet, OneAtATime, DownIsOver

\* main keeps a result, saves when it has to, and starts the next child.
LEMMA RecordKeeps == IInv /\ Record => IInv'
<1> SUFFICES ASSUME IInv, Record PROVE IInv'
  OBVIOUS
<1>1. /\ job + 1 \in Jobs /\ up = "up" /\ phase = "settled"
      /\ \A k \in Jobs : child[k] # "alive"
  BY JobTypes DEF Record, HasNext, IInv, TypeOK, Quiet
<1>2. /\ job' = job + 1
      /\ phase' \in {"waiting", "rejected", "threw"}
      /\ child' \in [Jobs -> {"none", "alive", "stubborn", "failed"}]
      /\ OneAtATime' /\ Quiet'
  <2>1. CASE StartRun(job + 1)
    BY <1>1, <2>1, StartRunEffect DEF IInv
  <2>2. CASE phase' = "threw" /\ job' = job + 1 /\ UNCHANGED child
    BY <1>1, <2>2 DEF IInv, TypeOK, OneAtATime, Quiet
  <2> QED
    BY <2>1, <2>2 DEF Record
<1>3. outcome' = [outcome EXCEPT ![job] = result] /\ UNCHANGED <<up, result, status, launches>>
  BY DEF Record
<1>4. IF Saves THEN disk' = Report' ELSE disk' = disk
  BY DEF Record, save
<1>5. outcome' \in [Jobs -> Results \cup {"none"}] /\ outcome'[job] # "none"
  BY <1>3 DEF IInv, TypeOK, Results
<1>6. Report' \in [status : {"RUNNING", "DONE", "ERROR"}, jobs : [Jobs -> Results \cup {"none"}]]
  BY <1>3, <1>5 DEF IInv, TypeOK, Report
<1>7. TypeOK'
  BY <1>1, <1>2, <1>3, <1>4, <1>5, <1>6 DEF IInv, TypeOK
<1>8. ProbeIsSaved'
  <2> Report'.jobs[1] = outcome'[1]
    BY JobTypes DEF Report
  <2>1. CASE Saves /\ job = 1
    BY <1>4, <1>5, <2>1 DEF ProbeIsSaved
  <2>2. CASE job # 1
    <3>1. outcome'[1] = outcome[1] /\ outcome[1] # "none" /\ disk.jobs[1] = outcome[1]
      BY <1>1, <1>3, <2>2, JobTypes DEF IInv, TypeOK, Saved, ProbeIsSaved
    <3> QED
      BY <1>4, <3>1 DEF ProbeIsSaved
  <2>3. job = 1 => Saves
    BY JobTypes DEF Saves
  <2> QED
    BY <2>1, <2>2, <2>3
<1>9. TestsAreSaved'
  <2>1. job + 1 \notin Matrix => Saves
    BY DEF Saves
  <2> QED
    BY <1>2, <1>4, <2>1 DEF TestsAreSaved
<1> QED
  BY <1>1, <1>2, <1>3, <1>7, <1>8, <1>9 DEF IInv, Saved, EndIsSaved, DownIsOver

\* The last save, and the one of the catch.
LEMMA EndKeeps == IInv /\ (Done \/ Catch) => IInv'
<1> SUFFICES ASSUME IInv, Done \/ Catch PROVE IInv'
  OBVIOUS
<1>1. /\ up = "up" /\ phase' = "over" /\ phase \in {"settled", "rejected", "threw"}
      /\ UNCHANGED <<up, child, job, result, launches>>
      /\ status' \in {"DONE", "ERROR"}
      /\ disk' = Report'
  BY DEF Done, Catch, save
<1>2. outcome' \in [Jobs -> Results \cup {"none"}]
  BY DEF Done, Catch, IInv, TypeOK
<1>3. Report' \in [status : {"RUNNING", "DONE", "ERROR"}, jobs : [Jobs -> Results \cup {"none"}]]
  BY <1>1, <1>2 DEF IInv, TypeOK, Report
<1>4. TypeOK'
  BY <1>1, <1>2, <1>3 DEF IInv, TypeOK
<1> QED
  BY <1>1, <1>4 DEF IInv, Saved, ProbeIsSaved, TestsAreSaved, EndIsSaved, Quiet, OneAtATime,
                    DownIsOver

\* What the program does not control.
LEMMA EnvironmentKeeps ==
    IInv /\ (Wedge \/ Stop \/ \E j \in Jobs : SurvivorEnds(j)) => IInv'
<1> SUFFICES ASSUME IInv PROVE (Wedge \/ Stop \/ \E j \in Jobs : SurvivorEnds(j)) => IInv'
  OBVIOUS
<1>1. ASSUME Wedge PROVE IInv'
  <2>1. /\ up = "up" /\ up' = "wedged"
        /\ UNCHANGED <<child, job, phase, result, outcome, status, disk, launches>>
    BY <1>1 DEF Wedge, Waiting
  <2>2. Report' = Report
    BY <2>1, SameReport
  <2> QED
    BY <2>1, <2>2 DEF IInv, TypeOK, Saved, ProbeIsSaved, TestsAreSaved, EndIsSaved, Quiet,
                      OneAtATime, DownIsOver
<1>2. ASSUME NEW j \in Jobs, SurvivorEnds(j) PROVE IInv'
  <2>1. /\ child' = [child EXCEPT ![j] = "none"]
        /\ UNCHANGED <<up, job, phase, result, outcome, status, disk, launches>>
    BY <1>2 DEF SurvivorEnds
  <2>2. Report' = Report
    BY <2>1, SameReport
  <2>3. TypeOK' /\ Quiet' /\ OneAtATime'
    BY <2>1 DEF IInv, TypeOK, Quiet, OneAtATime
  <2> QED
    BY <2>1, <2>2, <2>3 DEF IInv, Saved, ProbeIsSaved, TestsAreSaved, EndIsSaved, DownIsOver
<1>3. ASSUME Stop PROVE IInv'
  <2>1. disk' \in {disk, Torn}
    BY <1>3 DEF Stop
  <2>2. TypeOK'
    BY <1>3, <2>1, JobTypes DEF IInv, TypeOK, Stop, Torn, NoOutcome, Results
  <2> QED
    BY <1>3, <2>2 DEF Stop, IInv, Saved, ProbeIsSaved, TestsAreSaved, EndIsSaved, Quiet,
                      OneAtATime, DownIsOver
<1> QED
  BY <1>1, <1>2, <1>3

\* Every step keeps the invariant.
LEMMA StepKeeps == IInv /\ [Next]_vars => IInv'
<1> SUFFICES ASSUME IInv, [Next]_vars PROVE IInv'
  OBVIOUS
<1>1. CASE UNCHANGED vars
  <2>1. Report' = Report
    BY <1>1, SameReport DEF vars
  <2> QED
    BY <1>1, <2>1 DEF vars, IInv, TypeOK, Saved, ProbeIsSaved, TestsAreSaved, EndIsSaved,
                      Quiet, OneAtATime, DownIsOver
<1>2. CASE Next
  BY <1>2, LaunchKeeps, SettleKeeps, RecordKeeps, EndKeeps, EnvironmentKeeps DEF Next, Step
<1> QED
  BY <1>1, <1>2

\* The invariant holds in every reachable state.
LEMMA Invariant == Spec => []IInv
  BY Initially, StepKeeps, PTL DEF Spec

(***************************************************************************)
(* Type correctness, for any number of matrix runs and tests.             *)
(***************************************************************************)
THEOREM TypeCorrect == Spec => []TypeOK
<1>1. IInv => TypeOK
  BY DEF IInv
<1> QED
  BY <1>1, Invariant, PTL

(***************************************************************************)
(* A child that wedges the container, or a stop between two saves, costs   *)
(* nothing the report said before that child was started, the flag matrix  *)
(* under way excepted.                                                     *)
(***************************************************************************)
THEOREM FinishedWorkIsSafe == Spec => []NothingLost
<1>1. IInv => NothingLost
  BY DEF IInv, Saved, ProbeIsSaved, TestsAreSaved, EndIsSaved, NothingLost
<1> QED
  BY <1>1, Invariant, PTL

(***************************************************************************)
(* No test runs beside a child of an earlier job that SIGKILL would end.   *)
(***************************************************************************)
THEOREM JobsDoNotOverlap == Spec => []OneAtATime
<1>1. IInv => OneAtATime
  BY DEF IInv
<1> QED
  BY <1>1, Invariant, PTL
=============================================================================
