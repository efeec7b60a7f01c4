----------------------------- MODULE HarnessProofs -----------------------------
(***************************************************************************)
(* Proofs about Harness, for any table of probes and any timers.  The      *)
(* invariant says that the rows before the probe under way are filled,     *)
(* that the process leaves only when there is no probe left, and that a    *)
(* server is registered with setCleanup before its callback of listen, or  *)
(* else is the refused probe's, which does not answer while it is up.      *)
(***************************************************************************)
EXTENDS Harness, TLAPS

RowsBefore == \A i \in Probes : i < cur => row[i] # "none"
LeavesLast == harness = "exited" => cur > Len(Kinds)
Ready == \A i \in Probes : body[i] = "listening" => \/ Kinds[i] = "refused"
                                                   \/ "server" \in cleanup[i]
Registered ==
    \A i \in Probes : "server" \in open[i] =>
      \/ "server" \in cleanup[i] /\ body[i] # "idle"
      \/ Kinds[i] = "refused" /\ body[i] \in {"closing", "over"}

IInv == TypeOK /\ RowsBefore /\ LeavesLast /\ Ready /\ Registered

\* The table is a sequence of kinds, so the probes are numbered from 1 on.
LEMMA TableTypes == Len(Kinds) \in Nat /\ \A i \in Probes : i \in Nat /\ Kinds[i] \in AllKinds
  BY HarnessAssumption DEF Probes

\* The initial state satisfies the invariant.
LEMMA Initially == Init => IInv
  BY TableTypes, HarnessAssumption DEF Init, IInv, TypeOK, RowsBefore, LeavesLast, Ready,
                                       Registered, Probes, Places, Handles

\* The steps of serve-matrix.mjs leave the probes alone.
LEMMA ServerKeeps == IInv /\ (Spawn \/ SpawnError \/ OnClose) => IInv'
  BY DEF IInv, TypeOK, RowsBefore, LeavesLast, Ready, Registered, Spawn, SpawnError, OnClose,
         bodyVars, childVars

\* A probe starts with nothing open.
LEMMA StartKeeps == IInv /\ StartProbe => IInv'
<1> SUFFICES ASSUME IInv, StartProbe PROVE IInv'
  OBVIOUS
<1>1. TypeOK'
  <2>1. BodyAtStart(Kinds[cur]) \in {"importing", "listening", "waiting"}
    BY DEF BodyAtStart
  <2> QED
    BY <2>1 DEF IInv, TypeOK, StartProbe, Places, Handles
<1>2. RowsBefore' /\ LeavesLast'
  BY DEF IInv, RowsBefore, LeavesLast, StartProbe
<1>3. Registered' /\ Ready'
  <2>1. \A i \in Probes : i # cur => cleanup'[i] = cleanup[i] /\ body'[i] = body[i]
    BY DEF IInv, TypeOK, StartProbe
  <2>2. "server" \notin open[cur]
    BY DEF IInv, Registered, StartProbe
  <2>3. /\ body'[cur] = "listening" => Kinds[cur] \in {"server", "cross", "refused"}
        /\ Kinds[cur] \in {"server", "cross"} => cleanup'[cur] = {"server"}
    BY TableTypes DEF IInv, TypeOK, StartProbe, BodyAtStart, AllKinds
  <2> QED
    BY <2>1, <2>2, <2>3 DEF IInv, Ready, Registered, StartProbe
<1> QED
  BY <1>1, <1>2, <1>3 DEF IInv

\* What the end of a race does to the rows and to what is open.
LEMMA ConcludeKeeps ==
  ASSUME IInv, Turns, NEW r \in {"OK", "FAIL", "HANG"}, Conclude(r),
         UNCHANGED <<harness, status, cleanup, childVars>>,
         body' \in [Probes -> Places],
         \A i \in Probes : body'[i] \in {body[i], "over"}
  PROVE  IInv'
<1>1. cur \in Probes /\ cur + 1 \in 1..(Len(Kinds) + 1)
  BY TableTypes DEF Turns, Probes
<1>2. TypeOK'
  <2>1. open' \in [Probes -> SUBSET Handles] /\ row' \in [Probes -> {"none", "OK", "FAIL", "HANG"}]
    BY DEF IInv, TypeOK, Conclude, Row
  <2>2. age' \in 0..PROBE_MS
    BY HarnessAssumption DEF Conclude, Row
  <2> QED
    BY <1>1, <2>1, <2>2 DEF IInv, TypeOK, Conclude, Row, childVars
<1>3. RowsBefore'
  BY <1>1, TableTypes DEF IInv, TypeOK, RowsBefore, Conclude, Row, Probes
<1>4. LeavesLast'
  BY DEF Turns, LeavesLast
<1>5. Registered' /\ Ready'
  BY <1>1 DEF IInv, TypeOK, Ready, Registered, Conclude, Row
<1> QED
  BY <1>2, <1>3, <1>4, <1>5 DEF IInv

\* The timer of a probe.
LEMMA TimeoutKeeps == IInv /\ Timeout => IInv'
<1> SUFFICES ASSUME IInv, Timeout PROVE IInv'
  OBVIOUS
<1>1. Turns /\ Conclude("HANG") /\ UNCHANGED <<harness, status, body, cleanup, childVars>>
  BY DEF Timeout
<1>2. body' \in [Probes -> Places]
  BY <1>1 DEF IInv, TypeOK
<1> QED
  BY <1>1, <1>2, ConcludeKeeps

\* An answer, in time or late.
LEMMA AnswerKeeps ==
  ASSUME IInv, NEW i \in Probes, NEW r \in {"OK", "FAIL"}, Answer(i, r)
  PROVE  IInv'
<1>1. Turns /\ UNCHANGED <<harness, status, cleanup, childVars>>
  BY DEF Answer
<1>2. body' \in [Probes -> Places]
  BY DEF Answer, IInv, TypeOK, Places
<1>3. \A j \in Probes : body'[j] \in {body[j], "over"}
  BY DEF Answer, IInv, TypeOK
<1>4. CASE i = cur
  <2>1. Conclude(r)
    BY <1>4 DEF Answer
  <2> QED
    BY <1>1, <1>2, <1>3, <2>1, ConcludeKeeps
<1>5. CASE i # cur
  <2>1. UNCHANGED <<row, open, cur, age>>
    BY <1>5 DEF Answer
  <2> QED
    BY <1>1, <1>2, <1>3, <2>1
       DEF IInv, TypeOK, RowsBefore, LeavesLast, Ready, Registered, childVars
<1> QED
  BY <1>4, <1>5

\* Callbacks that settle nothing.
LEMMA BodyKeeps ==
  ASSUME IInv, NEW i \in Probes, Escapes(i) \/ Imported(i) \/ Listening(i) \/ Closed(i)
  PROVE  IInv'
<1>1. TypeOK'
  <2>1. CASE Listening(i)
    <3>1. /\ body' \in [Probes -> Places] /\ open' \in [Probes -> SUBSET Handles]
          /\ child' \in [Probes -> {"none", "running", "killed", "ended"}]
      BY <2>1 DEF Listening, IInv, TypeOK, Places, Handles
    <3> QED
      BY <2>1, <3>1 DEF Listening, IInv, TypeOK
  <2>2. CASE Closed(i)
    <3>1. /\ body' \in [Probes -> Places] /\ open' \in [Probes -> SUBSET Handles]
          /\ cleanup' \in [Probes -> SUBSET Handles]
      BY <2>2 DEF Closed, IInv, TypeOK, Places, Handles
    <3> QED
      BY <2>2, <3>1 DEF Closed, IInv, TypeOK, childVars
  <2>3. CASE Escapes(i)
    <3>1. body' \in [Probes -> Places]
      BY <2>3 DEF Escapes, IInv, TypeOK, Places
    <3> QED
      BY <2>3, <3>1 DEF Escapes, IInv, TypeOK, childVars
  <2>4. CASE Imported(i)
    <3>1. body' \in [Probes -> Places] /\ cleanup' \in [Probes -> SUBSET Handles]
      BY <2>4 DEF Imported, IInv, TypeOK, Places, Handles
    <3> QED
      BY <2>4, <3>1 DEF Imported, IInv, TypeOK, childVars
  <2> QED
    BY <2>1, <2>2, <2>3, <2>4
<1>2. RowsBefore' /\ LeavesLast'
  BY DEF IInv, RowsBefore, LeavesLast, Escapes, Imported, Listening, Closed
<1>3. Registered' /\ Ready'
  <2>1. CASE Listening(i)
    BY <2>1 DEF IInv, TypeOK, Ready, Registered, Listening
  <2>2. CASE Closed(i)
    BY <2>2 DEF IInv, TypeOK, Ready, Registered, Closed
  <2>3. CASE Escapes(i)
    BY <2>3 DEF IInv, TypeOK, Ready, Registered, Escapes
  <2>4. CASE Imported(i)
    BY <2>4 DEF IInv, TypeOK, Ready, Registered, Imported
  <2> QED
    BY <2>1, <2>2, <2>3, <2>4
<1> QED
  BY <1>1, <1>2, <1>3 DEF IInv

\* Children and the clock; a kill timer that is due is not passed.
LEMMA TimeKeeps ==
  ASSUME IInv, Tick \/ \E i \in Probes : Kill(i) \/ ChildEnds(i)
  PROVE  IInv'
<1>1. TypeOK'
  <2>1. CASE Tick
    BY <2>1, HarnessAssumption DEF IInv, TypeOK, Tick, Punctual, KillIsDue, bodyVars
  <2>2. CASE \E i \in Probes : Kill(i) \/ ChildEnds(i)
    BY <2>2 DEF IInv, TypeOK, Kill, ChildEnds, bodyVars
  <2> QED
    BY <2>1, <2>2
<1>2. UNCHANGED <<harness, cur, row, body, cleanup, open>>
  BY DEF Tick, Kill, ChildEnds, bodyVars
<1> QED
  BY <1>1, <1>2 DEF IInv, RowsBefore, LeavesLast, Ready, Registered

\* process.exit, after the last probe, or a death before.
LEMMA ExitKeeps == IInv /\ (ExitHarness \/ HarnessDies) => IInv'
  BY TableTypes DEF IInv, TypeOK, RowsBefore, LeavesLast, Ready, Registered, ExitHarness,
                    HarnessDies, childVars, Probes

\* Every step keeps the invariant.
LEMMA StepKeeps == IInv /\ [Next]_vars => IInv'
<1> SUFFICES ASSUME IInv, [Next]_vars PROVE IInv'
  OBVIOUS
<1>1. CASE UNCHANGED vars
  BY <1>1 DEF vars, IInv, TypeOK, RowsBefore, LeavesLast, Ready, Registered
<1>2. CASE Next
  BY <1>2, ServerKeeps, StartKeeps, ExitKeeps, TimeoutKeeps, AnswerKeeps, BodyKeeps, TimeKeeps
     DEF Next, Timers
<1> QED
  BY <1>1, <1>2

\* The invariant holds in every reachable state.
LEMMA Invariant == Spec => []IInv
  BY Initially, StepKeeps, PTL DEF Spec

(***************************************************************************)
(* Type correctness, for any table of probes and any timers.              *)
(***************************************************************************)
THEOREM TypeCorrect == Spec => []TypeOK
<1>1. IInv => TypeOK
  BY DEF IInv
<1> QED
  BY <1>1, Invariant, PTL

(***************************************************************************)
(* The matrix that is served as DONE has a line for every probe, for any   *)
(* table of probes.                                                        *)
(***************************************************************************)
THEOREM MatrixIsComplete == Spec => []DoneIsComplete
<1>1. IInv => DoneIsComplete
  BY TableTypes DEF IInv, TypeOK, RowsBefore, LeavesLast, DoneIsComplete, Probes
<1> QED
  BY <1>1, Invariant, PTL

(***************************************************************************)
(* For any table of probes, no server outlives the race of its probe, but  *)
(* that of a refused probe that hung: all others are registered when their *)
(* callback of listen comes, and a refused one does not answer before its  *)
(* server is closed.                                                       *)
(***************************************************************************)
THEOREM ProbesCleanUp == Spec => LeavesNoServer
<1>1. IInv /\ [Next]_vars
        => [cur' # cur /\ "server" \in open'[cur]
              => Kinds[cur] = "refused" /\ row'[cur] = "HANG"]_vars
  <2> SUFFICES ASSUME IInv, Next, cur' # cur, "server" \in open'[cur]
               PROVE  Kinds[cur] = "refused" /\ row'[cur] = "HANG"
    OBVIOUS
  <2>1. \/ Timeout
        \/ \E i \in Probes, r \in {"OK", "FAIL"} : Answer(i, r) /\ i = cur
    BY DEF Next, Timers, Spawn, SpawnError, OnClose, StartProbe, ExitHarness, HarnessDies, Tick,
           Kill, Escapes, Imported, Listening, Closed, ChildEnds, Answer
  <2>2. PICK r \in {"OK", "FAIL", "HANG"} : Turns /\ Conclude(r) /\ row'[cur] = r
    BY <2>1 DEF Timeout, Answer, Conclude, Row, Turns, IInv, TypeOK
  <2>3. "server" \in open[cur] /\ "server" \notin cleanup[cur] /\ cur \in Probes
    BY <2>2 DEF Conclude, Turns, IInv, TypeOK
  <2>4. Kinds[cur] = "refused" /\ body[cur] \in {"closing", "over"}
    BY <2>3 DEF IInv, Registered
  <2>5. Timeout
    BY <2>1, <2>4 DEF Answer, MayAnswer
  <2> QED
    BY <2>4, <2>5, <2>3 DEF Timeout, Conclude, Row, IInv, TypeOK
<1> QED
  BY <1>1, Invariant, PTL DEF Spec, LeavesNoServer

-----------------------------------------------------------------------------
(***************************************************************************)
(* The kill timer of a cluster child.  The child is started with its probe *)
(* and grows old with it, so its kill is due before the probe's timer.     *)
(***************************************************************************)
NotYet(i) == child[i] = "none" /\ childAge[i] = 0 /\ row[i] = "none"
Ahead == \A i \in Probes : /\ i > cur => body[i] = "idle"
                           /\ body[i] = "idle" => NotYet(i)
StartsAtZero == cur \in Probes /\ body[cur] = "idle" => age = 0
InStep ==
    \A i \in Probes : Kinds[i] = "cluster" /\ child[i] = "running"
                       => row[i] # "HANG" /\ (i = cur => childAge[i] = age)

KillSet == Ahead /\ StartsAtZero /\ InStep

\* The end of a race; a child that is still running has not been timed out.
LEMMA ConcludeKeepsKill ==
  ASSUME IInv, KillSet, Turns, NEW r \in {"OK", "FAIL", "HANG"}, Conclude(r),
         UNCHANGED childVars,
         \A i \in Probes : body'[i] = "idle" <=> body[i] = "idle",
         r = "HANG" /\ Kinds[cur] = "cluster" => child[cur] # "running"
  PROVE  KillSet'
<1>1. cur \in Probes /\ \A i \in Probes : i # cur => row'[i] = row[i]
  BY DEF Turns, Conclude, Row, IInv, TypeOK
<1>2. body[cur] # "idle" /\ row'[cur] = r /\ cur' = cur + 1 /\ age' = 0
  BY <1>1 DEF Turns, Conclude, Row, IInv, TypeOK
<1>3. \A i \in Probes : i > cur => body[i] = "idle" /\ NotYet(i)
  BY DEF KillSet, Ahead
<1>4. \A i \in Probes : i > cur' => i > cur
  BY <1>1, <1>2, TableTypes
<1>5. cur' \in Probes => cur' > cur
  BY <1>1, <1>2, TableTypes
<1>6. Ahead'
  BY <1>1, <1>2, <1>3, <1>4 DEF KillSet, Ahead, NotYet, childVars
<1>7. StartsAtZero'
  BY <1>2 DEF StartsAtZero
<1>8. InStep'
  BY <1>1, <1>2, <1>3, <1>5 DEF KillSet, InStep, NotYet, childVars
<1> QED
  BY <1>6, <1>7, <1>8 DEF KillSet

\* Every step keeps it.
LEMMA KillKeeps == IInv /\ KillSet /\ [Next]_vars => KillSet'
<1> SUFFICES ASSUME IInv, KillSet, [Next]_vars PROVE KillSet'
  OBVIOUS
<1>1. CASE UNCHANGED vars \/ Spawn \/ SpawnError \/ OnClose \/ ExitHarness \/ HarnessDies
  BY <1>1 DEF vars, Spawn, SpawnError, OnClose, ExitHarness, HarnessDies, bodyVars, childVars,
              KillSet, Ahead, NotYet, StartsAtZero, InStep
<1>2. CASE StartProbe
  <2>1. /\ cur \in Probes /\ NotYet(cur) /\ age = 0 /\ UNCHANGED <<cur, age, row, childAge>>
        /\ body'[cur] # "idle"
        /\ \A i \in Probes : i # cur => body'[i] = body[i] /\ child'[i] = child[i]
    BY <1>2 DEF StartProbe, BodyAtStart, IInv, TypeOK, KillSet, Ahead, StartsAtZero
  <2>2. Ahead'
    BY <2>1, TableTypes DEF KillSet, Ahead, NotYet
  <2>3. StartsAtZero' /\ InStep'
    BY <2>1 DEF KillSet, StartsAtZero, InStep, NotYet
  <2> QED
    BY <2>2, <2>3 DEF KillSet
<1>3. CASE Timeout
  <2>1. /\ Turns /\ Conclude("HANG") /\ UNCHANGED <<body, childVars>> /\ age = PROBE_MS
    BY <1>3 DEF Timeout
  <2>2. Kinds[cur] = "cluster" => child[cur] # "running"
    <3>1. cur \in Probes /\ childAge[cur] \in 0..KILL_MS
      BY <2>1 DEF Turns, IInv, TypeOK
    <3>2. childAge[cur] # PROBE_MS
      BY <3>1, HarnessAssumption
    <3> QED
      BY <2>1, <3>1, <3>2 DEF KillSet, InStep
  <2> QED
    BY <2>1, <2>2, ConcludeKeepsKill
<1>4. ASSUME NEW i \in Probes, NEW r \in {"OK", "FAIL"}, Answer(i, r) PROVE KillSet'
  <2>1. \A j \in Probes : body'[j] = "idle" <=> body[j] = "idle"
    BY <1>4 DEF Answer, MayAnswer, IInv, TypeOK
  <2>2. CASE i = cur
    <3>1. Conclude(r) /\ Turns /\ UNCHANGED childVars
      BY <1>4, <2>2 DEF Answer
    <3> QED
      BY <2>1, <3>1, ConcludeKeepsKill
  <2>3. CASE i # cur
    <3>1. UNCHANGED <<row, cur, age, child, childAge>>
      BY <1>4, <2>3 DEF Answer, childVars
    <3> QED
      BY <2>1, <3>1 DEF KillSet, Ahead, NotYet, StartsAtZero, InStep
  <2> QED
    BY <2>2, <2>3
<1>5. ASSUME NEW i \in Probes, Escapes(i) \/ Imported(i) \/ Listening(i) \/ Closed(i) PROVE KillSet'
  <2>1. UNCHANGED <<row, cur, age, childAge>> /\ body[i] # "idle"
    BY <1>5 DEF Escapes, Imported, Listening, Closed, childVars
  <2>2. \A j \in Probes : body'[j] = "idle" <=> body[j] = "idle"
    BY <1>5 DEF Escapes, Imported, Listening, Closed, IInv, TypeOK
  <2>3. \A j \in Probes : child'[j] # child[j] => j = i /\ Kinds[j] = "cross"
    BY <1>5 DEF Escapes, Imported, Listening, Closed, IInv, TypeOK, childVars
  <2> QED
    BY <2>1, <2>2, <2>3 DEF KillSet, Ahead, NotYet, StartsAtZero, InStep
<1>6. ASSUME NEW i \in Probes, Kill(i) \/ ChildEnds(i) PROVE KillSet'
  <2>1. UNCHANGED <<row, cur, age, childAge, body>> /\ child[i] # "none"
    BY <1>6 DEF Kill, KillIsDue, ChildEnds, bodyVars
  <2>2. \A j \in Probes : child'[j] = child[j] \/ (j = i /\ child'[j] # "running")
    BY <1>6 DEF Kill, ChildEnds, IInv, TypeOK
  <2> QED
    BY <2>1, <2>2 DEF KillSet, Ahead, NotYet, StartsAtZero, InStep
<1>7. CASE Tick
  <2>1. /\ UNCHANGED <<row, cur, body, child>> /\ age' = age + 1 /\ body[cur] # "idle"
        /\ \A i \in Probes : childAge'[i] = IF child[i] = "running" THEN childAge[i] + 1
                                                                   ELSE childAge[i]
    BY <1>7 DEF Tick, Turns, bodyVars
  <2> QED
    BY <2>1 DEF KillSet, Ahead, NotYet, StartsAtZero, InStep
<1> QED
  BY <1>1, <1>2, <1>3, <1>4, <1>5, <1>6, <1>7 DEF Next, Timers

(***************************************************************************)
(* For any timers a time apart, a cluster probe that hangs has had its     *)
(* child killed, or seen it end.                                           *)
(***************************************************************************)
THEOREM HungProbesHaveNoChild == Spec => []ChildIsKilledFirst
<1>1. Init => KillSet
  BY TableTypes DEF Init, KillSet, Ahead, NotYet, StartsAtZero, InStep
<1>2. KillSet => ChildIsKilledFirst
  BY DEF KillSet, InStep, ChildIsKilledFirst
<1> QED
  BY <1>1, <1>2, KillKeeps, Invariant, PTL DEF Spec
=============================================================================
