-------------------------------- MODULE Probe --------------------------------
(***************************************************************************)
(* The runtime probe (introspect-probe.mjs), and the driver's wait for it  *)
(* (the first run of introspect-serve.mjs).  The probe calls its sub-      *)
(* probes one after the other; those that return a promise go on beside    *)
(* each other when the calls are over; one JSON object is printed when all *)
(* of them have settled.  What a sub-probe finds out about the engine is   *)
(* left open; kept are how it can fail, what it waits for, and the time it *)
(* takes.                                                                  *)
(*                                                                         *)
(* There is one thread: microtasks run before immediates and timers.  Time *)
(* passes while the event loop has nothing to do, and in synchronous code  *)
(* that takes its time or does not return, gc() included: meanwhile no     *)
(* timer of the probe fires.                                               *)
(***************************************************************************)
EXTENDS Naturals, Sequences

CONSTANTS Kinds,      \* the sub-probes in the order of their calls
          Heads,      \* those that are the first of a safe block
          Rounds,     \* how often a gc sub-probe calls gc: 10
          GcCap,      \* the timer of gcOnce: 2000
          DriverCap   \* the timer of the driver's run: 35000

\* sync:    returns a value.
\* gc:      awaits gc in a loop.
\* modules: awaits link and evaluate of a module.
\* hooks:   awaits an async function of its own, which settles in microtasks.
AllKinds == {"sync", "gc", "modules", "hooks"}

ASSUME ProbeAssumption ==
    /\ Kinds \in Seq(AllKinds)
    /\ Heads \subseteq 1..Len(Kinds)
    /\ Rounds \in Nat \ {0} /\ GcCap \in Nat /\ DriverCap \in Nat

Probes == 1..Len(Kinds)
End == Len(Kinds) + 1

VARIABLES
  now,      \* time since the driver spawned the probe
  spent,    \* of it, the time spent in synchronous code
  at,       \* the next call; End: at Promise.all; End + 1: awaiting it
  value,    \* R, by sub-probe
  task,     \* where the code of each sub-probe with a promise is
  round,    \* the loop counter of each gc sub-probe
  due,      \* when the last timer of its gcOnce fires
  out,      \* how much of the JSON has reached the driver
  printed,  \* what it says of each sub-probe
  process,  \* the probe: runs, blocked in a call, ended, crashed or killed
  driver,   \* REPORT.probe: waiting, data or probeError
  failed    \* ghost: the sub-probes that failed, or whose block did

taskVars == <<task, round, due>>
endVars == <<out, printed, process, driver>>
clocks == <<now, spent>>
vars == <<now, spent, at, value, task, round, due, out, printed, process, driver, failed>>

Micro == {"link", "evaluate", "resolved", "rejected"}
Values == {"none", "pending", "value", "error"}

TypeOK ==
    /\ now \in 0..DriverCap
    /\ spent \in 0..now
    /\ at \in 1..(End + 1)
    /\ value \in [Probes -> Values]
    /\ task \in [Probes -> Micro \cup {"none", "immediate", "race", "hung", "filled"}]
    /\ round \in [Probes -> 0..(Rounds - 1)]
    /\ due \in [Probes -> 0..(DriverCap + GcCap)]
    /\ out \in {"nothing", "part", "all"}
    /\ printed \in [Probes -> Values]
    /\ process \in {"runs", "blocked", "ended", "crashed", "killed"}
    /\ driver \in {"waiting", "data", "probeError"}
    /\ failed \in SUBSET Probes

Init ==
    /\ now = 0 /\ spent = 0 /\ at = 1
    /\ value = [k \in Probes |-> "none"]
    /\ task = [k \in Probes |-> "none"]
    /\ round = [k \in Probes |-> 0]
    /\ due = [k \in Probes |-> 0]
    /\ out = "nothing" /\ printed = [k \in Probes |-> "none"]
    /\ process = "runs" /\ driver = "waiting"
    /\ failed = {}

-----------------------------------------------------------------------------
(* The calls, without an await between them.                               *)

Calling(kinds) == process = "runs" /\ at \in Probes /\ Kinds[at] \in kinds

\* The statements of a safe block before its first sub-probe throw: none of
\* its sub-probes is called.  (Rethrows: without the catch of safe.)
BlockThrowsRethrows ==
    /\ Calling(AllKinds) /\ at \in Heads
    /\ process' = "ended"
    /\ UNCHANGED <<clocks, at, value, taskVars, out, printed, driver, failed>>
BlockThrows ==
    /\ Calling(AllKinds) /\ at \in Heads
    /\ \E next \in (at + 1)..End :
         /\ next \in Heads \cup {End}
         /\ \A k \in (at + 1)..(next - 1) : k \notin Heads
         /\ at' = next
         /\ value' = [k \in Probes |-> IF k \in at..(next - 1) THEN "error" ELSE value[k]]
         /\ failed' = failed \cup at..(next - 1)
    /\ UNCHANGED <<clocks, taskVars, endVars>>

\* safeInto, when the sub-probe returns a value or throws.
Fills(k, v) == /\ value' = [value EXCEPT ![k] = v]
               /\ failed' = IF v = "error" THEN failed \cup {k} ELSE failed

\* Synchronous code may take its time.
Takes ==
    \E t \in now..DriverCap : now' = t /\ spent' = spent + (t - now)

CallSync ==
    /\ Calling({"sync"})
    /\ \E v \in {"value", "error"} : Fills(at, v)
    /\ at' = at + 1
    /\ Takes
    /\ UNCHANGED <<taskVars, endVars>>

\* safeInto, when it returns a promise: up to its first await, unless it
\* returns or throws before.
Pends(k, first) == /\ value' = [value EXCEPT ![k] = "pending"]
                   /\ task' = [task EXCEPT ![k] = first]

FirstAwait(kind) ==
    CASE kind = "gc" -> {"immediate"} [] kind = "modules" -> {"link"} [] kind = "hooks" -> {}

CallAsync ==
    /\ Calling({"gc", "modules", "hooks"})
    /\ \E first \in FirstAwait(Kinds[at]) \cup {"resolved", "rejected"} : Pends(at, first)
    /\ at' = at + 1
    /\ UNCHANGED <<clocks, round, due, endVars, failed>>

\* main awaits Promise.all.
AwaitAll ==
    /\ process = "runs" /\ at = End
    /\ at' = End + 1
    /\ UNCHANGED <<clocks, value, taskVars, endVars, failed>>

-----------------------------------------------------------------------------
(* What goes on while main awaits.                                         *)

Awaiting == process = "runs" /\ at = End + 1
NoMicro == \A k \in Probes : task[k] \notin Micro
Becomes(k, states) == \E s \in states : task' = [task EXCEPT ![k] = s]

\* link and evaluate settle in microtasks, or never.
Link(k) ==
    /\ Awaiting /\ task[k] = "link"
    /\ Becomes(k, {"evaluate", "rejected", "hung"})
    /\ UNCHANGED <<clocks, at, value, round, due, endVars, failed>>
Evaluate(k) ==
    /\ Awaiting /\ task[k] = "evaluate"
    /\ Becomes(k, {"resolved", "rejected", "hung"})
    /\ UNCHANGED <<clocks, at, value, round, due, endVars, failed>>

\* After the immediate, gcOnce: the timer is armed, and then gc is called, in
\* a microtask; the call returns now or later, maybe with a promise.
StartGcUncapped(k) ==
    /\ Awaiting /\ task[k] = "immediate" /\ NoMicro
    /\ Becomes(k, {"race"})
    /\ due' = [due EXCEPT ![k] = DriverCap + GcCap]
    /\ Takes
    /\ UNCHANGED <<at, value, round, endVars, failed>>
StartGc(k) ==
    /\ Awaiting /\ task[k] = "immediate" /\ NoMicro
    /\ Becomes(k, {"race"})
    /\ due' = [due EXCEPT ![k] = now + GcCap]
    /\ Takes
    /\ UNCHANGED <<at, value, round, endVars, failed>>

\* gcOnce settles, because gc has returned or thrown, its promise has settled,
\* or the timer is due: the object is gone, or it was the last round, or once more.
LastRoundOffByOne(k) == round[k] = Rounds
LastRound(k) == round[k] + 1 = Rounds
GcSettles(k) ==
    /\ Awaiting /\ task[k] = "race" /\ NoMicro
    /\ \/ Becomes(k, {"resolved", "rejected"}) /\ UNCHANGED round
       \/ /\ ~LastRound(k)
          /\ Becomes(k, {"immediate"})
          /\ round' = [round EXCEPT ![k] = @ + 1]
    /\ UNCHANGED <<clocks, at, value, due, endVars, failed>>

\* The callbacks safeInto has put on the promise.
Settle(k) ==
    /\ Awaiting /\ task[k] \in {"resolved", "rejected"}
    /\ Fills(k, IF task[k] = "resolved" THEN "value" ELSE "error")
    /\ Becomes(k, {"filled"})
    /\ UNCHANGED <<clocks, at, round, due, endVars>>

AnySettled == \A k \in Probes : task[k] \in {"none", "filled", "race"}
AllSettled == \A k \in Probes : task[k] \in {"none", "filled"}

PrintReport ==
    /\ Awaiting /\ AllSettled /\ out = "nothing"
    /\ out' = "part"
    /\ printed' = value
    /\ UNCHANGED <<clocks, at, value, taskVars, process, driver, failed>>
Flush ==
    /\ process = "runs" /\ out = "part"
    /\ out' = "all"
    /\ UNCHANGED <<clocks, at, value, taskVars, printed, process, driver, failed>>

\* Node leaves when no timer is armed, also the timers that lost their race.
NoTimer == \A k \in Probes : due[k] <= now
Exit ==
    /\ process = "runs" /\ out = "all" /\ NoTimer
    /\ process' = "ended"
    /\ UNCHANGED <<clocks, at, value, taskVars, out, printed, driver, failed>>

-----------------------------------------------------------------------------
(* The engine and the driver.                                              *)

\* Node may leave a top-level await that cannot settle (exit code 13).
ExitUnsettled ==
    /\ Awaiting /\ NoTimer
    /\ \A k \in Probes : task[k] \in {"none", "filled", "hung"}
    /\ \E k \in Probes : task[k] = "hung"
    /\ process' = "ended"
    /\ UNCHANGED <<clocks, at, value, taskVars, out, printed, driver, failed>>

\* A sub-probe may bring the process down, or not come back from a call.
Crash ==
    /\ process = "runs"
    /\ process' = "crashed"
    /\ UNCHANGED <<clocks, at, value, taskVars, out, printed, driver, failed>>
Block ==
    /\ process = "runs" /\ out = "nothing"
    /\ process' = "blocked"
    /\ UNCHANGED <<clocks, at, value, taskVars, out, printed, driver, failed>>

\* The driver's JSON.parse of what has arrived, whether killed or not.
Parse == driver' = IF out = "all" THEN "data" ELSE "probeError"

OnClose ==
    /\ driver = "waiting" /\ process \in {"ended", "crashed", "killed"}
    /\ Parse
    /\ UNCHANGED <<clocks, at, value, taskVars, out, printed, process, failed>>

\* The SIGKILL may not work.
DriverTimeoutIfOutput ==
    /\ driver = "waiting" /\ now = DriverCap /\ out # "nothing"
    /\ Parse
    /\ process' \in {process, "killed"}
    /\ UNCHANGED <<clocks, at, value, taskVars, out, printed, failed>>
DriverTimeout ==
    /\ driver = "waiting" /\ now = DriverCap
    /\ Parse
    /\ process' \in {process, "killed"}
    /\ UNCHANGED <<clocks, at, value, taskVars, out, printed, failed>>

\* Nothing is ready in the probe, and neither of the timers is due.
Quiet ==
    /\ Awaiting
    /\ \A k \in Probes : task[k] \in {"none", "race", "hung", "filled"}
    /\ \A k \in Probes : task[k] = "race" => now < due[k]
    /\ AllSettled => out = "all" /\ ~NoTimer
Tick ==
    /\ driver = "waiting" /\ now < DriverCap
    /\ \/ Quiet /\ UNCHANGED spent
       \/ process = "blocked" /\ spent' = spent + 1
    /\ now' = now + 1
    /\ UNCHANGED <<at, value, taskVars, endVars, failed>>

-----------------------------------------------------------------------------
Step ==
    \/ BlockThrows \/ CallSync \/ CallAsync \/ AwaitAll
    \/ PrintReport \/ Flush \/ Exit \/ OnClose \/ DriverTimeout \/ Tick
    \/ \E k \in Probes : \/ Link(k) \/ Evaluate(k)
                         \/ StartGc(k) \/ GcSettles(k) \/ Settle(k)

Next == Step \/ ExitUnsettled \/ Crash \/ Block

\* Both are event loops, and time goes on.  That Node notices an await that
\* cannot settle is not assumed.
Spec == Init /\ [][Next]_vars
FairSpec == Spec /\ WF_vars(Step)

-----------------------------------------------------------------------------
(***************************************************************************)
(* gc calls that never settle cost the probe's data no more than Rounds *  *)
(* GcCap of the driver's time, however many loops await them and however   *)
(* their timers are late ("resolves even if a gc() probe wedges",          *)
(* introspect-serve.mjs:73): the data is lost only to the end of the       *)
(* process, to an engine operation without a cap that never settles, or to *)
(* synchronous code that takes the rest of that time, gc calls that block  *)
(* included.                                                               *)
(***************************************************************************)
DataSurvivesGc ==
    driver = "probeError" =>
      \/ process = "crashed"
      \/ \E k \in Probes : task[k] = "hung"
      \/ DriverCap <= spent + Rounds * GcCap

(***************************************************************************)
(* The JSON has an entry for each sub-probe, none of them the placeholder  *)
(* of a pending one, and an error only where that sub-probe or its block   *)
(* failed, "one failure can't blank the report" (introspect-probe.mjs:     *)
(* 14-15), although async sub-probes fill in their entries in any order.   *)
(***************************************************************************)
ReportIsWhole ==
    out # "nothing" =>
      \A k \in Probes : /\ printed[k] \in {"value", "error"}
                        /\ printed[k] = "error" <=> k \in failed

(***************************************************************************)
(* The driver gets past the probe, though it crashes, awaits what never    *)
(* settles, blocks in a call, or survives the SIGKILL (introspect-serve    *)
(* .mjs:6-7).                                                              *)
(***************************************************************************)
DriverGoesOn == <>(driver # "waiting")
=============================================================================
