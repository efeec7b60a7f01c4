---------------------------- MODULE RunOneProofs ----------------------------
(***************************************************************************)
(* Proofs about RunOne, for every timeout, reap time and grace time.       *)
(***************************************************************************)
EXTENDS RunOne, TLAPS

(***************************************************************************)
(* The inductive invariant.  SettlesInTime is not inductive: it needs the  *)
(* chain of timers behind it.  Until runOne settles, either the kill timer *)
(* is armed for Timeout, or it has fired and the reap timer is armed for   *)
(* Timeout + Reap; the clock cannot pass an armed timer.  VerdictIsTrue    *)
(* needs that a settled runOne has no kill timer left, and that an error   *)
(* event is handled in the tick of the spawn, before the cap.              *)
(***************************************************************************)
Chain ==
    \/ timer["kill"] = Timeout /\ timer["reap"] = Off /\ ~killed /\ now <= Timeout
    \/ timer["kill"] = Off /\ killed /\ timer["reap"] = Timeout + Reap /\ now <= Timeout + Reap

ErrorIsEarly == "error" \in events => now = 0 /\ ~killed

NotStarted == now = 0 /\ events = {} /\ timer = AllOff /\ ~settled /\ ~killed

IInv == /\ TypeOK
        /\ child = "new" => NotStarted
        /\ child # "new" /\ ~settled => Chain
        /\ settled => timer["kill"] = Off
        /\ ErrorIsEarly
        /\ VerdictIsTrue

\* The record that c and status make is not NoRec, and well typed.
LEMMA RecordIsARecord ==
    ASSUME NEW status \in {"pass", "skip", "fail", "timeout"}, NEW c \in Codes
    PROVE  /\ [status |-> status, code |-> c] # NoRec
           /\ [status |-> status, code |-> c]
                \in [status : {"none", "pass", "skip", "fail", "timeout"}, code : Codes]
<1>1. [status |-> status, code |-> c].status # NoRec.status
  BY DEF NoRec
<1> QED
  BY <1>1

\* hardKill keeps the types of what it changes and does not undo the spawn.
LEMMA HardKillEffect ==
    ASSUME TypeOK, child # "new",
           NEW pending \in SUBSET {"error", "exit", "close"}, hardKill(pending)
    PROVE  /\ child' \in {"alive", "dead", "closed", "failed"}
           /\ code' \in Codes
           /\ group' \in BOOLEAN
           /\ events' \in SUBSET {"error", "exit", "close"}
           /\ events' \subseteq pending \cup {"exit"}
<1>1. CASE child = "alive" /\ killable
  BY <1>1 DEF hardKill, TypeOK, Codes
<1>2. CASE ~(child = "alive" /\ killable)
  BY <1>2 DEF hardKill, TypeOK
<1> QED
  BY <1>1, <1>2

\* The verdict of the close callback and of the grace timer fits the code
\* they saw.
Fits(status, c) == /\ status = "timeout" <=> killed
                   /\ status \in {"pass", "skip"} => c = "zero"
                   /\ status = "fail" => c # "zero"

\* It is the case for what they report.
LEMMA VerdictFits ==
    ASSUME TypeOK
    PROVE  Verdict \in {"pass", "skip", "fail", "timeout"} /\ Fits(Verdict, code)
BY DEF TypeOK, Verdict, classify, Fits

\* A callback that ends in finalize keeps the invariant, if what it reports
\* fits: it settles an open runOne and disarms the timers, and leaves a
\* settled one with its record.
LEMMA FinalizeStep ==
    ASSUME IInv, child # "new",
           NEW status \in {"pass", "skip", "fail", "timeout"}, NEW c \in Codes,
           ~settled => Fits(status, c),
           NEW pending \in SUBSET events,
           NEW left \in [Timers -> Nat], settled => left["kill"] = Off,
           finalize(status, c, pending, left),
           UNCHANGED <<now, killable, skipLine, killed>>
    PROVE  IInv'
<1>1. CASE settled
  <2>1. UNCHANGED <<now, killable, skipLine, killed, rec, child, code, group>>
        /\ events' = pending /\ timer' = left
    BY <1>1 DEF finalize
  <2> QED
    BY <1>1, <2>1 DEF IInv, TypeOK, VerdictIsTrue, settled, ErrorIsEarly
<1>2. CASE ~settled
  <2>1. rec' = [status |-> status, code |-> c] /\ timer' = AllOff /\ hardKill(pending)
    BY <1>2 DEF finalize
  <2>2. settled'
        /\ rec' \in [status : {"none", "pass", "skip", "fail", "timeout"}, code : Codes]
    BY <2>1, RecordIsARecord DEF settled, NoRec
  <2>3. TypeOK /\ TypeOK' /\ child' # "new"
    <3>1. TypeOK
      BY DEF IInv
    <3> QED
      BY <2>1, <2>2, <3>1, HardKillEffect DEF TypeOK, AllOff, Timers, Off
  <2>4. timer'["kill"] = Off
    BY <2>1 DEF AllOff, Timers, Off
  <2>5. VerdictIsTrue'
    BY <1>2, <2>1 DEF VerdictIsTrue, Fits
  <2>6. ErrorIsEarly'
    BY <2>1, <2>3, HardKillEffect DEF TypeOK, IInv, ErrorIsEarly
  <2> QED
    BY <2>2, <2>3, <2>4, <2>5, <2>6 DEF IInv
<1> QED
  BY <1>1, <1>2

\* The invariant holds at the start.
LEMMA Initial == Init => IInv
<1> SUFFICES ASSUME Init PROVE IInv
  OBVIOUS
<1>1. TypeOK
  BY DEF Init, TypeOK, NoRec, Codes, AllOff, Timers, Off
<1>2. NotStarted /\ VerdictIsTrue /\ ErrorIsEarly
  BY DEF Init, NotStarted, VerdictIsTrue, ErrorIsEarly, settled
<1> QED
  BY <1>1, <1>2 DEF IInv, Init, NotStarted

\* And every step keeps it: one step per action.
LEMMA Inductive == IInv /\ [Next]_vars => IInv'
<1> SUFFICES ASSUME IInv, [Next]_vars PROVE IInv'
  OBVIOUS
<1> USE RunOneAssumption
<1>a. TypeOK
  BY DEF IInv
<1>1. CASE SpawnThrows
  <2>1. settled' /\ rec' = [status |-> "fail", code |-> "none"]
        /\ rec' \in [status : {"none", "pass", "skip", "fail", "timeout"}, code : Codes]
    BY <1>1, RecordIsARecord DEF SpawnThrows, settled, NoRec, Codes
  <2> QED
    BY <1>1, <2>1 DEF SpawnThrows, IInv, TypeOK, NotStarted, VerdictIsTrue, AllOff, Timers,
                      ErrorIsEarly
<1>2. CASE Spawn
  <2>1. ~settled' /\ timer'["kill"] = Timeout /\ timer'["reap"] = Off /\ timer' \in [Timers -> Nat]
    BY <1>2 DEF Spawn, IInv, TypeOK, NotStarted, settled, NoRec, AllOff, Timers, Off
  <2>2. TypeOK'
    BY <1>2, <2>1 DEF Spawn, IInv, TypeOK
  <2>3. Chain' /\ child' # "new"
    BY <1>2, <2>1 DEF Spawn, IInv, NotStarted, Chain
  <2> QED
    BY <1>2, <2>1, <2>2, <2>3 DEF IInv, VerdictIsTrue, Spawn, NotStarted, ErrorIsEarly
<1>b. timer \in [Timers -> Nat] /\ (settled => timer["kill"] = Off)
      /\ events \in SUBSET {"error", "exit", "close"} /\ code \in Codes
  BY DEF IInv, TypeOK
<1>3. CASE OnError
  <2>1. child # "new" /\ ~killed
    BY <1>3 DEF OnError, IInv, ErrorIsEarly, NotStarted
  <2>2. finalize("fail", "none", events \ {"error"}, timer)
        /\ UNCHANGED <<now, killable, skipLine, killed>>
    BY <1>3 DEF OnError
  <2> QED
    BY <1>b, <2>1, <2>2, FinalizeStep DEF Fits, Codes
<1>4. CASE OnExit
  <2>1. child # "new" /\ timer' \in [Timers -> Nat]
        /\ timer'["kill"] = timer["kill"] /\ timer'["reap"] = timer["reap"]
    BY <1>4 DEF OnExit, IInv, TypeOK, NotStarted, Timers
  <2> QED
    BY <1>4, <2>1 DEF OnExit, IInv, TypeOK, Chain, VerdictIsTrue, settled, ErrorIsEarly
<1>5. CASE OnClose
  <2>1. child # "new"
    BY <1>5 DEF OnClose, IInv, NotStarted
  <2>2. finalize(Verdict, code, events \ {"close"}, timer)
        /\ UNCHANGED <<now, killable, skipLine, killed>>
    BY <1>5 DEF OnClose
  <2> QED
    BY <1>a, <1>b, <2>1, <2>2, VerdictFits, FinalizeStep
<1>6. CASE OnData
  BY <1>6 DEF OnData, IInv, TypeOK, NotStarted, Chain, VerdictIsTrue, settled, ErrorIsEarly
<1>7. CASE GraceFires
  <2>1. child # "new"
    BY <1>7 DEF GraceFires, Due, IInv, NotStarted, AllOff, Timers, Off
  <2>2. finalize(Verdict, code, events, Without("grace"))
        /\ UNCHANGED <<now, killable, skipLine, killed>>
    BY <1>7 DEF GraceFires
  <2>3. Without("grace") \in [Timers -> Nat] /\ Without("grace")["kill"] = timer["kill"]
    BY <1>b DEF Without, Timers, Off
  <2> QED
    BY <1>a, <1>b, <2>1, <2>2, <2>3, VerdictFits, FinalizeStep
<1>8. CASE KillFires
  <2>1. child # "new" /\ ~settled /\ Timeout <= now
    BY <1>8, <1>b DEF KillFires, Due, IInv, NotStarted, Chain, AllOff, Timers, Off
  <2>2. hardKill(events) /\ killed' /\ UNCHANGED <<now, killable, skipLine, rec>>
        /\ timer' = [Without("kill") EXCEPT !["reap"] = now + Reap]
    BY <1>8 DEF KillFires
  <2>3. timer' \in [Timers -> Nat] /\ timer'["kill"] = Off /\ timer'["reap"] = now + Reap
    BY <1>a, <2>2 DEF TypeOK, Without, Timers, Off
  <2>4. now = Timeout
    BY <1>a, <2>1, <1>8 DEF IInv, Chain, KillFires, Due, Off, TypeOK
  <2>5. TypeOK' /\ child' # "new" /\ events' \subseteq events \cup {"exit"}
    BY <1>a, <1>b, <2>1, <2>2, <2>3, HardKillEffect DEF TypeOK
  <2>6. ErrorIsEarly'
    BY <2>1, <2>5, <1>a DEF IInv, ErrorIsEarly, TypeOK
  <2> QED
    BY <2>1, <2>2, <2>3, <2>4, <2>5, <2>6 DEF IInv, Chain, VerdictIsTrue, settled
<1>9. CASE ReapFires
  <2>1. child # "new"
    BY <1>9 DEF ReapFires, Due, IInv, NotStarted, AllOff, Timers, Off
  <2>2. finalize("timeout", "none", events, Without("reap"))
        /\ UNCHANGED <<now, killable, skipLine, killed>>
    BY <1>9 DEF ReapFires
  <2>3. Without("reap") \in [Timers -> Nat] /\ Without("reap")["kill"] = timer["kill"]
    BY <1>b DEF Without, Timers, Off
  <2>4. ~settled => killed
    BY <1>9, <2>1 DEF ReapFires, Due, IInv, Chain
  <2> QED
    BY <1>a, <1>b, <2>1, <2>2, <2>3, <2>4, FinalizeStep DEF Fits, Codes
<1>10. ASSUME NEW c \in Codes \ {"none"}, ChildEnds(c) PROVE IInv'
  BY <1>10 DEF ChildEnds, IInv, TypeOK, NotStarted, Chain, VerdictIsTrue, settled, ErrorIsEarly
<1>11. CASE Forks
  BY <1>11 DEF Forks, IInv, TypeOK, NotStarted, Chain, VerdictIsTrue, settled, ErrorIsEarly
<1>12. CASE GroupEnds
  BY <1>12 DEF GroupEnds, IInv, TypeOK, NotStarted, Chain, VerdictIsTrue, settled, ErrorIsEarly
<1>13. CASE Prints
  BY <1>13 DEF Prints, IInv, TypeOK, NotStarted, Chain, VerdictIsTrue, settled, ErrorIsEarly
<1>14. CASE PipesClose
  BY <1>14 DEF PipesClose, IInv, TypeOK, NotStarted, Chain, VerdictIsTrue, settled, ErrorIsEarly
<1>15. CASE Tick
  BY <1>15 DEF Tick, Due, IInv, TypeOK, NotStarted, Chain, VerdictIsTrue, settled,
               ErrorIsEarly, Timers, Off
<1>16. CASE UNCHANGED vars
  BY <1>16 DEF vars, IInv, TypeOK, NotStarted, Chain, VerdictIsTrue, settled, ErrorIsEarly
<1> QED
  BY <1>1, <1>2, <1>3, <1>4, <1>5, <1>6, <1>7, <1>8, <1>9, <1>10, <1>11, <1>12, <1>13,
     <1>14, <1>15, <1>16 DEF Next

(***************************************************************************)
(* What RunOne keeps, in one place: its types, the time bound of its slot, *)
(* and the truth of its records.                                           *)
(***************************************************************************)
LEMMA Invariance == Spec => []IInv
<1>1. Init => IInv
  BY Initial
<1>2. IInv /\ [Next]_vars => IInv'
  BY Inductive
<1> QED
  BY <1>1, <1>2, PTL DEF Spec

(***************************************************************************)
(* The state of runOne is always well typed.                               *)
(***************************************************************************)
THEOREM TypeCorrect == Spec => []TypeOK
<1>1. IInv => TypeOK
  BY DEF IInv
<1> QED
  BY <1>1, Invariance, PTL

(***************************************************************************)
(* runOne gives its slot back at most Timeout + Reap after the spawn,      *)
(* whatever the child, its pipes and SIGKILL do.                           *)
(***************************************************************************)
THEOREM SlotIsGivenBack == Spec => []SettlesInTime
<1>1. IInv => SettlesInTime
  BY RunOneAssumption DEF IInv, TypeOK, NotStarted, Chain, SettlesInTime
<1> QED
  BY <1>1, Invariance, PTL

(***************************************************************************)
(* Whatever order the callbacks and timers come in, the record of a        *)
(* settled test is true to what happened to its process.                   *)
(***************************************************************************)
THEOREM RecordIsTrue == Spec => []VerdictIsTrue
<1>1. IInv => VerdictIsTrue
  BY DEF IInv
<1> QED
  BY <1>1, Invariance, PTL

(***************************************************************************)
(* The first callback to settle runOne is the last one to decide.          *)
(***************************************************************************)
THEOREM FirstOneDecides == Spec => SettlesOnce
<1>1. IInv /\ [Next]_vars => [settled => rec' = rec]_vars
  <2> SUFFICES ASSUME IInv, Next, settled PROVE rec' = rec
    BY DEF vars
  <2>1. child # "new"
    BY DEF IInv, NotStarted
  <2> QED
    BY <2>1 DEF Next, SpawnThrows, Spawn, OnError, OnExit, OnClose, OnData, GraceFires,
                KillFires, ReapFires, ChildEnds, Forks, GroupEnds, Prints, PipesClose, Tick,
                finalize
<1> QED
  BY <1>1, Invariance, PTL DEF Spec, SettlesOnce

\* A settled test leaves nothing behind; it needs that before the spawn there
\* is no group, and that a settled runOne has been past the spawn.
Reaped == /\ child = "new" => ~group
          /\ LeavesNothingRunning

\* finalize reaps what a test that is not settled still has.
LEMMA FinalizeReaps ==
    ASSUME Reaped, child # "new", group \in BOOLEAN, UNCHANGED killable,
           NEW status, NEW c, NEW pending, NEW left,
           [status |-> status, code |-> c] # NoRec,
           finalize(status, c, pending, left)
    PROVE  Reaped'
<1>1. CASE settled
  BY <1>1 DEF finalize, Reaped, LeavesNothingRunning, settled
<1>2. CASE ~settled
  <2>1. hardKill(pending)
    BY <1>2 DEF finalize
  <2>2. killable => child' # "alive" /\ ~group'
    BY <2>1 DEF hardKill
  <2>3. child' # "new"
    BY <2>1 DEF hardKill
  <2> QED
    BY <2>2, <2>3 DEF Reaped, LeavesNothingRunning
<1> QED
  BY <1>1, <1>2

\* Every step keeps Reaped.
LEMMA ReapedStep == IInv /\ Reaped /\ [Next]_vars => Reaped'
<1> SUFFICES ASSUME IInv, Reaped, [Next]_vars PROVE Reaped'
  OBVIOUS
<1>t. TypeOK /\ (child = "new" => ~settled)
  BY DEF IInv, NotStarted
<1>e. events # {} => child # "new"
  BY DEF IInv, NotStarted
<1>d. \A x \in Timers : Due(x) => child # "new"
  BY DEF IInv, NotStarted, AllOff, Due
<1>1. CASE OnError
  <2>1. [status |-> "fail", code |-> "none"] # NoRec
    BY RecordIsARecord DEF Codes
  <2> QED
    BY <1>1, <1>t, <1>e, <2>1, FinalizeReaps DEF OnError, TypeOK
<1>2. CASE OnClose \/ GraceFires
  <2>1. [status |-> Verdict, code |-> code] # NoRec
    BY <1>t, VerdictFits, RecordIsARecord DEF TypeOK
  <2>2. child # "new"
    BY <1>2, <1>e, <1>d DEF OnClose, GraceFires, Timers
  <2> QED
    BY <1>2, <1>t, <2>1, <2>2, FinalizeReaps DEF OnClose, GraceFires, TypeOK
<1>3. CASE ReapFires
  <2>1. [status |-> "timeout", code |-> "none"] # NoRec
    BY RecordIsARecord DEF Codes
  <2> QED
    BY <1>3, <1>t, <1>d, <2>1, FinalizeReaps DEF ReapFires, TypeOK, Timers
<1>4. CASE KillFires
  <2>1. child # "new"
    BY <1>4, <1>d DEF KillFires, Timers
  <2>2. hardKill(events) /\ UNCHANGED <<killable, rec>>
    BY <1>4 DEF KillFires
  <2> QED
    BY <1>t, <2>1, <2>2 DEF hardKill, Reaped, LeavesNothingRunning, settled, TypeOK
<1>5. CASE SpawnThrows \/ Spawn
  BY <1>5, <1>t DEF SpawnThrows, Spawn, Reaped, LeavesNothingRunning, settled
<1>6. CASE OnExit \/ OnData \/ GroupEnds \/ Prints \/ Tick
  BY <1>6 DEF OnExit, OnData, GroupEnds, Prints, Tick, Reaped, LeavesNothingRunning, settled
<1>7. CASE Forks \/ PipesClose \/ \E c \in Codes \ {"none"} : ChildEnds(c)
  BY <1>7 DEF Forks, PipesClose, ChildEnds, Reaped, LeavesNothingRunning, settled
<1>8. CASE UNCHANGED vars
  BY <1>8 DEF vars, Reaped, LeavesNothingRunning, settled
<1> QED
  BY <1>1, <1>2, <1>3, <1>4, <1>5, <1>6, <1>7, <1>8 DEF Next

(***************************************************************************)
(* Where SIGKILL works, a settled test leaves neither its own process nor  *)
(* one of its group running, whatever it forked and whoever settled it.    *)
(***************************************************************************)
THEOREM NothingIsLeftRunning == Spec => []LeavesNothingRunning
<1>1. Init => Reaped
  BY DEF Init, Reaped, LeavesNothingRunning, settled
<1>2. Reaped => LeavesNothingRunning
  BY DEF Reaped
<1> QED
  BY <1>1, <1>2, ReapedStep, Invariance, PTL DEF Spec

-----------------------------------------------------------------------------
(* runOne against Corpus.  The invariant it takes is about the order of    *)
(* the events: only a spawn that failed emits an error, and it does so     *)
(* before the cap, so a killed test was started; exit, close and the grace *)
(* timer come after the end of the child.                                  *)

Order == /\ "error" \in events => child = "failed"
         /\ child = "failed" /\ timer["kill"] # Off => "error" \in events
         /\ child = "failed" => ~killed
         /\ events \cap {"exit", "close"} # {} => child \in {"dead", "closed"}
         /\ timer["grace"] # Off => child \in {"dead", "closed"}

\* The callbacks that end in finalize keep the order of the events.
LEMMA FinalizeKeepsOrder ==
    ASSUME TypeOK, Order, child # "failed" \/ ~killed, UNCHANGED killed,
           NEW status, NEW c, NEW pending \in SUBSET events, NEW left \in [Timers -> Nat],
           left["grace"] \in {timer["grace"], Off}, left["kill"] \in {timer["kill"], Off},
           settled => timer["kill"] = Off,
           finalize(status, c, pending, left)
    PROVE  Order'
<1>1. CASE settled
  BY <1>1 DEF finalize, Order, Timers, Off
<1>2. CASE ~settled
  <2>1. timer' = AllOff /\ hardKill(pending)
    BY <1>2 DEF finalize
  <2>2. timer'["grace"] = Off /\ timer'["kill"] = Off
    BY <2>1 DEF AllOff, Timers, Off
  <2>3. CASE child = "alive" /\ killable
    <3>1. child' = "dead" /\ events' = pending \cup {"exit"}
      BY <2>1, <2>3 DEF hardKill
    <3> QED
      BY <2>2, <2>3, <3>1 DEF Order
  <2>4. CASE ~(child = "alive" /\ killable)
    <3>1. child' = child /\ events' = pending
      BY <2>1, <2>4 DEF hardKill
    <3> QED
      BY <2>2, <3>1 DEF Order
  <2> QED
    BY <2>3, <2>4
<1> QED
  BY <1>1, <1>2

\* The order holds at the start.
LEMMA OrderInitially == Init => Order
BY DEF Init, Order, AllOff, Timers, Off

\* And every step keeps it.
LEMMA OrderStep == IInv /\ Order /\ [Next]_vars => Order'
<1> SUFFICES ASSUME IInv, Order, [Next]_vars PROVE Order'
  OBVIOUS
<1>t. TypeOK /\ timer \in [Timers -> Nat] /\ events \in SUBSET {"error", "exit", "close"}
  BY DEF IInv, TypeOK
<1>f. (child # "failed" \/ ~killed) /\ (settled => timer["kill"] = Off)
  BY DEF Order, IInv
<1>1. CASE SpawnThrows \/ Spawn
  <2>1. child = "new" /\ NotStarted
    BY <1>1 DEF SpawnThrows, Spawn, IInv
  <2>2. timer'["grace"] = Off /\ (child' = "failed" /\ timer'["kill"] # Off => "error" \in events')
    BY <1>1, <2>1 DEF SpawnThrows, Spawn, NotStarted, AllOff, Timers, Off
  <2> QED
    BY <1>1, <2>1, <2>2 DEF SpawnThrows, Spawn, NotStarted, Order
<1>2. CASE OnError
  BY <1>2, <1>t, <1>f, FinalizeKeepsOrder DEF OnError
<1>3. CASE OnClose
  BY <1>3, <1>t, <1>f, FinalizeKeepsOrder DEF OnClose
<1>w. \A x \in Timers : /\ Without(x) \in [Timers -> Nat]
                        /\ Without(x)["grace"] \in {timer["grace"], Off}
                        /\ Without(x)["kill"] \in {timer["kill"], Off}
  BY <1>t DEF Without, Timers, Off
<1>4. CASE GraceFires
  BY <1>4, <1>t, <1>f, <1>w, FinalizeKeepsOrder DEF GraceFires, Timers
<1>5. CASE ReapFires
  BY <1>5, <1>t, <1>f, <1>w, FinalizeKeepsOrder DEF ReapFires, Timers
<1>6. CASE OnExit
  <2>1. child' \in {"dead", "closed"} /\ events' \subseteq events /\ UNCHANGED <<child, killed>>
    BY <1>6 DEF OnExit, Order
  <2> QED
    BY <2>1 DEF Order
<1>7. CASE KillFires
  <2>1. hardKill(events) /\ killed' /\ timer'["grace"] = timer["grace"] /\ timer'["kill"] = Off
    BY <1>7, <1>t DEF KillFires, Without, Timers, Off
  <2>2. "error" \notin events /\ child # "failed"
    <3>1. child # "new" /\ ~settled /\ timer["kill"] # Off /\ timer["kill"] <= now
      BY <1>7 DEF KillFires, Due, IInv, NotStarted, AllOff, Timers, Off
    <3>2. timer["kill"] = Timeout /\ Timeout \in Nat \ {0} /\ now \in Nat
      BY <3>1, RunOneAssumption DEF IInv, Chain, TypeOK
    <3>3. now # 0
      BY <3>1, <3>2
    <3> QED
      BY <3>1, <3>3 DEF IInv, ErrorIsEarly, Order
  <2>3. CASE child = "alive" /\ killable
    BY <2>1, <2>2, <2>3 DEF hardKill, Order
  <2>4. CASE ~(child = "alive" /\ killable)
    BY <2>1, <2>2, <2>4 DEF hardKill, Order
  <2> QED
    BY <2>3, <2>4
<1>8. CASE \E c \in Codes \ {"none"} : ChildEnds(c)
  BY <1>8 DEF ChildEnds, Order
<1>9. CASE PipesClose
  BY <1>9 DEF PipesClose, Order
<1>10. CASE OnData \/ Forks \/ GroupEnds \/ Prints \/ Tick
  BY <1>10 DEF OnData, Forks, GroupEnds, Prints, Tick, Order
<1>11. CASE UNCHANGED vars
  BY <1>11 DEF vars, Order
<1> QED
  BY <1>1, <1>2, <1>3, <1>4, <1>5, <1>6, <1>7, <1>8, <1>9, <1>10, <1>11 DEF Next

\* What a step must do for Corpus to see nothing of it.
LEMMA SeesNothing ==
    ASSUME settled' = settled, rec' = rec, Started' = Started,
           settled => (child = "alive" <=> child' = "alive")
    PROVE  UNCHANGED Seen!vars
<1>1. Stage' = Stage
  BY DEF Stage
<1> QED
  BY <1>1 DEF Seen!vars

\* What it must do to be the end of a child that had survived.
LEMMA SeesOrphanEnd ==
    ASSUME settled, settled', rec' = rec, Started, Started', child = "alive", child' # "alive"
    PROVE  Seen!OrphanEnds(1)
<1>1. Stage' = Stage /\ Stage \notin {"spawned", "running"}
  BY DEF Stage
<1> QED
  BY <1>1 DEF Seen!OrphanEnds, Seen!At, Seen!endGroups, Seen!Ended, Seen!fileVars,
              Seen!supVars, Seen!workerVars, Seen!envVars

\* What it must do to settle as a test that has ended, or was never started.
LEMMA SeesSettle ==
    ASSUME ~settled, settled', rec'.status # "timeout", Started' = Started, child' # "alive"
    PROVE  Seen!Settle(1, 1)
<1>1. Stage = "running" /\ Stage' = "ran"
  BY DEF Stage
<1> QED
  BY <1>1 DEF Seen!Settle, Seen!Idle, Seen!Busy, Seen!endGroups, Seen!Ended, Seen!GroupOf,
              Seen!fileVars, Seen!supVars, Seen!envVars

\* What it must do to settle as a test that its cap has killed, or failed to.
LEMMA SeesSettleKilled ==
    ASSUME ~settled, settled', rec'.status = "timeout", Started, Started'
    PROVE  Seen!SettleKilled(1, 1)
<1>1. Stage = "running" /\ Stage' = "killed"
  BY DEF Stage
<1> QED
  BY <1>1 DEF Seen!SettleKilled, Seen!Idle, Seen!Busy, Seen!hardKill, Seen!Ended, Seen!GroupOf,
              Seen!fileVars, Seen!supVars, Seen!envVars

\* What SettlesAsInCorpus says of a step.
FitsStep == \/ ~settled /\ (Seen!Settle(1, 1) \/ Seen!SettleKilled(1, 1))
            \/ rec' = rec /\ (Seen!OrphanEnds(1) \/ UNCHANGED Seen!vars)

\* A callback that ends in finalize takes such a step, if it reports the cap
\* only of a test that was started, and anything else only of one that has
\* ended or was never started.
LEMMA FinalizeFits ==
    ASSUME NEW status \in {"pass", "skip", "fail", "timeout"}, NEW c \in Codes,
           ~settled /\ status = "timeout" => child # "failed",
           ~settled /\ status # "timeout" => child # "alive",
           NEW pending, NEW left, finalize(status, c, pending, left)
    PROVE  FitsStep
<1>1. CASE settled
  <2>1. rec' = rec /\ child' = child
    BY <1>1 DEF finalize
  <2>2. settled' = settled /\ Started' = Started
    BY <2>1 DEF settled, Started
  <2> QED
    BY <2>1, <2>2, SeesNothing DEF FitsStep
<1>2. CASE ~settled
  <2>1. rec' = [status |-> status, code |-> c] /\ hardKill(pending)
    BY <1>2 DEF finalize
  <2>2. settled' /\ rec'.status = status
    BY <2>1, RecordIsARecord DEF settled, NoRec
  <2>3. child' = child \/ (child = "alive" /\ child' = "dead")
    BY <2>1 DEF hardKill
  <2>4. Started' = Started
    BY <2>3 DEF Started
  <2>5. CASE status = "timeout"
    BY <1>2, <2>2, <2>4, <2>5, SeesSettleKilled DEF FitsStep, Started
  <2>6. CASE status # "timeout"
    BY <1>2, <2>2, <2>3, <2>4, <2>6, SeesSettle DEF FitsStep
  <2> QED
    BY <2>5, <2>6
<1> QED
  BY <1>1, <1>2

\* What the close callback and the grace timer report of a child that has
\* ended is fit for that.
LEMMA VerdictFitsChild ==
    ASSUME IInv, child \in {"dead", "closed"}
    PROVE  /\ Verdict \in {"pass", "skip", "fail", "timeout"} /\ code \in Codes
           /\ ~settled /\ Verdict = "timeout" => child # "failed"
           /\ ~settled /\ Verdict # "timeout" => child # "alive"
BY VerdictFits DEF IInv, TypeOK

\* Every step after the spawn is one that Corpus has.
LEMMA EveryStepFits == IInv /\ Order /\ [Next]_vars /\ child # "new" => FitsStep
<1> SUFFICES ASSUME IInv, Order, [Next]_vars, child # "new" PROVE FitsStep
  OBVIOUS
<1>1. CASE OnError
  <2>1. child = "failed" /\ finalize("fail", "none", events \ {"error"}, timer)
    BY <1>1 DEF OnError, Order
  <2> QED
    BY <2>1, FinalizeFits DEF Codes
<1>2. CASE OnClose
  <2>1. child \in {"dead", "closed"} /\ finalize(Verdict, code, events \ {"close"}, timer)
    BY <1>2 DEF OnClose, Order
  <2> QED
    BY <2>1, VerdictFitsChild, FinalizeFits
<1>3. CASE GraceFires
  <2>1. child \in {"dead", "closed"} /\ finalize(Verdict, code, events, Without("grace"))
    BY <1>3 DEF GraceFires, Due, Order
  <2> QED
    BY <2>1, VerdictFitsChild, FinalizeFits
<1>4. CASE ReapFires
  <2>1. ~settled => killed
    BY <1>4 DEF ReapFires, Due, IInv, Chain
  <2>2. ~settled => child # "failed"
    BY <2>1 DEF Order
  <2>3. finalize("timeout", "none", events, Without("reap"))
    BY <1>4 DEF ReapFires
  <2> QED
    BY <2>2, <2>3, FinalizeFits DEF Codes
<1>5. CASE KillFires
  <2>1. ~settled /\ rec' = rec /\ hardKill(events)
    BY <1>5 DEF KillFires, Due, IInv
  <2>2. child' = child \/ (child = "alive" /\ child' = "dead")
    BY <2>1 DEF hardKill
  <2>3. settled' = settled /\ Started' = Started
    BY <2>1, <2>2 DEF settled, Started
  <2> QED
    BY <2>1, <2>3, SeesNothing DEF FitsStep
<1>6. CASE \E c \in Codes \ {"none"} : ChildEnds(c)
  <2>1. child = "alive" /\ child' = "dead" /\ rec' = rec
    BY <1>6 DEF ChildEnds
  <2>2. settled' = settled /\ Started /\ Started'
    BY <2>1 DEF settled, Started
  <2>3. CASE settled
    BY <2>1, <2>2, <2>3, SeesOrphanEnd DEF FitsStep
  <2>4. CASE ~settled
    BY <2>1, <2>2, <2>4, SeesNothing DEF FitsStep
  <2> QED
    BY <2>3, <2>4
<1>7. CASE PipesClose
  <2>1. child = "dead" /\ child' = "closed" /\ rec' = rec
    BY <1>7 DEF PipesClose
  <2>2. settled' = settled /\ Started' = Started
    BY <2>1 DEF settled, Started
  <2> QED
    BY <2>1, <2>2, SeesNothing DEF FitsStep
<1>8. CASE OnExit \/ OnData \/ Forks \/ GroupEnds \/ Prints \/ Tick \/ UNCHANGED vars
  <2>1. child' = child /\ rec' = rec
    BY <1>8 DEF OnExit, OnData, Forks, GroupEnds, Prints, Tick, vars
  <2>2. settled' = settled /\ Started' = Started
    BY <2>1 DEF settled, Started
  <2> QED
    BY <2>1, <2>2, SeesNothing DEF FitsStep
<1>9. ~SpawnThrows /\ ~Spawn
  BY DEF SpawnThrows, Spawn
<1> QED
  BY <1>1, <1>2, <1>3, <1>4, <1>5, <1>6, <1>7, <1>8, <1>9 DEF Next

(***************************************************************************)
(* The two descriptions of a test fit, for every cap and every grace: in   *)
(* whatever order the events and timers of runOne come, Corpus has the     *)
(* step that it looks like from outside, and the first one to settle it is *)
(* the last one to decide.                                                 *)
(***************************************************************************)
THEOREM FitsCorpus == Spec => SettlesAsInCorpus
<1>1. IInv /\ Order /\ [Next]_vars => [child # "new" => FitsStep]_vars
  BY EveryStepFits
<1> QED
  BY <1>1, OrderInitially, OrderStep, Invariance, PTL DEF Spec, SettlesAsInCorpus, FitsStep
=============================================================================
