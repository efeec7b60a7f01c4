------------------------------- MODULE RunOne -------------------------------
(***************************************************************************)
(* One call of runOne (corpus-worker.mjs): a test as a process of its own, *)
(* the events Node emits about it, and the three timers that make sure its *)
(* slot of the pool is given back.  Time is counted in ticks; the worker's *)
(* event loop is responsive: a timer fires in the tick it is due and an    *)
(* event is handled in the tick it is emitted, in any order within it.     *)
(* (A worker that is not is the supervisor's business: Corpus, StallWatch.) *)
(***************************************************************************)
EXTENDS Naturals

CONSTANTS Timeout,   \* TEST_TIMEOUT_MS
          Reap,      \* 3000 ms after the kill
          Grace,     \* 250 ms after the exit event
          MaxTime    \* bound of the clock

ASSUME RunOneAssumption == /\ Timeout \in Nat \ {0}
                           /\ Reap \in Nat \ {0}
                           /\ Grace \in Nat \ {0}
                           /\ MaxTime \in Nat

VARIABLES now,
          killable,  \* does SIGKILL end this test's processes?  Not known.
          child,     \* new, alive, dead, closed (all its output read), failed
          code,      \* exit code: "zero", "other", "signal", "none" before
          group,     \* does its group hold other live processes?
          skipLine,  \* the line common.skip prints: none, printed, read
          events,    \* emitted by Node and not yet handled
          timer,     \* when each timer is due, Off if it is not set
          killed,
          rec        \* what runOne resolved with, NoRec before

vars == <<now, killable, child, code, group, skipLine, events, timer, killed, rec>>

Off == 0
Timers == {"kill", "reap", "grace"}
AllOff == [x \in Timers |-> Off]
NoRec == [status |-> "none", code |-> "none"]
Codes == {"none", "zero", "other", "signal"}

settled == rec # NoRec

TypeOK ==
    /\ now \in Nat
    /\ killable \in BOOLEAN
    /\ child \in {"new", "alive", "dead", "closed", "failed"}
    /\ code \in Codes
    /\ group \in BOOLEAN
    /\ skipLine \in {"none", "printed", "read"}
    /\ events \in SUBSET {"error", "exit", "close"}
    /\ timer \in [Timers -> Nat]
    /\ killed \in BOOLEAN
    /\ rec \in [status : {"none", "pass", "skip", "fail", "timeout"}, code : Codes]

Init ==
    /\ now = 0
    /\ killable \in BOOLEAN
    /\ child = "new" /\ code = "none" /\ group = FALSE
    /\ skipLine = "none"
    /\ events = {}
    /\ timer = AllOff
    /\ killed = FALSE
    /\ rec = NoRec

-----------------------------------------------------------------------------
(* The code.  pending is the event queue without the event being handled.  *)

\* SIGKILL to the group, then to the child; a child that ends makes Node
\* emit its exit event.
hardKillChildOnly(pending) ==
    IF child = "alive" /\ killable
      THEN /\ child' = "dead" /\ code' = "signal"
           /\ events' = pending \cup {"exit"}
           /\ UNCHANGED group
      ELSE events' = pending /\ UNCHANGED <<child, code, group>>
hardKill(pending) ==
    /\ group' = (group /\ ~killable)
    /\ IF child = "alive" /\ killable
         THEN child' = "dead" /\ code' = "signal" /\ events' = pending \cup {"exit"}
         ELSE events' = pending /\ UNCHANGED <<child, code>>

classify == IF code # "zero" THEN "fail"
            ELSE IF skipLine = "read" THEN "skip" ELSE "pass"

\* What the close callback and the grace timer report.
VerdictIsCode == IF killed THEN "timeout" ELSE code
Verdict == IF killed THEN "timeout" ELSE classify

\* The first call settles, later ones return; left is what is left of the
\* timers when the caller is one of them.
finalizeEachTime(status, c, pending, left) ==
    /\ rec' = [status |-> status, code |-> c]
    /\ timer' = AllOff
    /\ hardKill(pending)
finalizeKeepingTimers(status, c, pending, left) ==
    /\ rec' = IF settled THEN rec ELSE [status |-> status, code |-> c]
    /\ timer' = left
    /\ IF settled THEN events' = pending /\ UNCHANGED <<child, code, group>>
                  ELSE hardKill(pending)
finalize(status, c, pending, left) ==
    IF settled
      THEN /\ events' = pending
           /\ timer' = left
           /\ UNCHANGED <<rec, child, code, group>>
      ELSE /\ rec' = [status |-> status, code |-> c]
           /\ timer' = AllOff
           /\ hardKill(pending)

\* spawn throws: runOne settles at once, without timers.
SpawnThrows ==
    /\ child = "new"
    /\ child' = "failed"
    /\ rec' = [status |-> "fail", code |-> "none"]
    /\ UNCHANGED <<now, killable, code, group, skipLine, events, timer, killed>>

\* spawn returns; it may have failed and emit 'error' later.
Spawn ==
    /\ child = "new"
    /\ \/ child' = "alive" /\ UNCHANGED events
       \/ child' = "failed" /\ events' = {"error"}
    /\ timer' = [timer EXCEPT !["kill"] = now + Timeout]
    /\ UNCHANGED <<now, killable, code, group, skipLine, killed, rec>>

OnError ==
    /\ "error" \in events
    /\ finalize("fail", "none", events \ {"error"}, timer)
    /\ UNCHANGED <<now, killable, skipLine, killed>>

\* The exit callback arms the grace timer, settled or not.
OnExit ==
    /\ "exit" \in events
    /\ events' = events \ {"exit"}
    /\ timer' = [timer EXCEPT !["grace"] = now + Grace]
    /\ UNCHANGED <<now, killable, child, code, group, skipLine, killed, rec>>

OnClose ==
    /\ "close" \in events
    /\ finalize(Verdict, code, events \ {"close"}, timer)
    /\ UNCHANGED <<now, killable, skipLine, killed>>

Due(x) == timer[x] # Off /\ timer[x] <= now
Without(x) == [timer EXCEPT ![x] = Off]

GraceFires ==
    /\ Due("grace")
    /\ finalize(Verdict, code, events, Without("grace"))
    /\ UNCHANGED <<now, killable, skipLine, killed>>

\* The per-test cap.
KillFiresWithoutReap ==
    /\ Due("kill")
    /\ killed' = TRUE
    /\ hardKill(events)
    /\ timer' = Without("kill")
    /\ UNCHANGED <<now, killable, skipLine, rec>>
KillFires ==
    /\ Due("kill")
    /\ killed' = TRUE
    /\ hardKill(events)
    /\ timer' = [Without("kill") EXCEPT !["reap"] = now + Reap]
    /\ UNCHANGED <<now, killable, skipLine, rec>>

ReapFires ==
    /\ Due("reap")
    /\ finalize("timeout", "none", events, Without("reap"))
    /\ UNCHANGED <<now, killable, skipLine, killed>>

-----------------------------------------------------------------------------
(* The test process, its pipes, and time.                                  *)

\* It ends, by itself or because another process killed it.
ChildEnds(c) ==
    /\ child = "alive"
    /\ child' = "dead" /\ code' = c
    /\ events' = events \cup {"exit"}
    /\ UNCHANGED <<now, killable, group, skipLine, timer, killed, rec>>

Forks ==
    /\ child = "alive"
    /\ group' = TRUE
    /\ UNCHANGED <<now, killable, child, code, skipLine, events, timer, killed, rec>>

GroupEnds ==
    /\ group
    /\ group' = FALSE
    /\ UNCHANGED <<now, killable, child, code, skipLine, events, timer, killed, rec>>

Prints ==
    /\ child = "alive" /\ skipLine = "none"
    /\ skipLine' = "printed"
    /\ UNCHANGED <<now, killable, child, code, group, events, timer, killed, rec>>

\* The data callbacks.
OnData ==
    /\ skipLine = "printed"
    /\ skipLine' = "read"
    /\ UNCHANGED <<now, killable, child, code, group, events, timer, killed, rec>>

\* Node emits close after exit, when the pipes are read to their end.  It may
\* never come: a process the test left behind can hold them open.
PipesClose ==
    /\ child = "dead" /\ "exit" \notin events
    /\ skipLine # "printed"
    /\ child' = "closed"
    /\ events' = events \cup {"close"}
    /\ UNCHANGED <<now, killable, code, group, skipLine, timer, killed, rec>>

Tick ==
    /\ child # "new"
    /\ now < MaxTime
    /\ events = {}
    /\ \A x \in Timers : ~Due(x)
    /\ now' = now + 1
    /\ UNCHANGED <<killable, child, code, group, skipLine, events, timer, killed, rec>>

Next ==
    \/ SpawnThrows \/ Spawn
    \/ OnError \/ OnExit \/ OnClose \/ OnData
    \/ GraceFires \/ KillFires \/ ReapFires
    \/ \E c \in Codes \ {"none"} : ChildEnds(c)
    \/ Forks \/ GroupEnds \/ Prints \/ PipesClose
    \/ Tick

Spec == Init /\ [][Next]_vars

-----------------------------------------------------------------------------
(* Properties.                                                             *)

(***************************************************************************)
(* A test cannot wedge its slot: Timeout + Reap after the spawn runOne has *)
(* resolved, whether or not the child can be killed, its exit is noticed   *)
(* or its pipes are ever closed (corpus-worker.mjs:31-32).                 *)
(***************************************************************************)
SettlesInTime == now > Timeout + Reap => settled

(***************************************************************************)
(* The record says what happened: timeout if and only if the cap was       *)
(* reached before runOne settled, pass and skip only for exit code 0, and  *)
(* fail never for exit code 0; no callback that runs late, and no timer    *)
(* left armed, makes a settled record untrue.                              *)
(***************************************************************************)
VerdictIsTrue ==
    settled => /\ rec.status = "timeout" <=> killed
               /\ rec.status \in {"pass", "skip"} => rec.code = "zero"
               /\ rec.status = "fail" => rec.code # "zero"

(***************************************************************************)
(* runOne resolves once: of the callbacks and timers that race to settle   *)
(* it, the first one decides.                                              *)
(***************************************************************************)
SettlesOnce == [][settled => rec' = rec]_vars

(***************************************************************************)
(* A settled test leaves nothing running, neither its process nor one it   *)
(* left behind in its group, if SIGKILL works at all.                      *)
(***************************************************************************)
LeavesNothingRunning == settled /\ killable => child # "alive" /\ ~group

(***************************************************************************)
(* What Corpus makes of a call of runOne.  Until it settles, its test is   *)
(* running there, on a group that was started if the spawn worked; once it *)
(* has settled, the record decides on the stage, and of the group only a   *)
(* child that survived its SIGKILL is left.  The rest of the system stands *)
(* still.                                                                  *)
(***************************************************************************)
Stage == IF ~settled THEN "running" ELSE IF rec.status = "timeout" THEN "killed" ELSE "ran"
Started == child # "failed"
Seen == INSTANCE Corpus WITH
    Tests <- {1}, Workers <- {1}, NoWorker <- 0, Pids <- {1}, NoPid <- 0, Concurrency <- 1,
    MaxNoProgress <- 1, Selections <- {{1}}, Wedgers <- {}, Faults <- {"killFails"},
    MaxLaunches <- 1,
    stage <- [w \in {1} |-> [t \in {1} |-> Stage]],
    pid <- [w \in {1} |-> [t \in {1} |-> IF Started THEN 1 ELSE 0]],
    proc <- [p \in {1} |-> IF Started /\ (settled => child = "alive") THEN 1 ELSE 0],
    noted <- IF Started /\ ~settled THEN {1} ELSE {},
    ledger <- [t \in {1} |-> "none"], tail <- [test |-> 0, status |-> "none"],
    inflight <- {}, present <- {1}, poison <- {}, life <- [w \in {1} |-> "live"],
    sup <- "watch", all <- {1}, child <- 1, result <- "none", targets <- {}, before <- 0,
    grew <- FALSE, noProgress <- 0, report <- [t \in {1} |-> "none"], launches <- 1,
    suspects <- {}

(***************************************************************************)
(* runOne and Corpus fit: after the spawn, whatever callbacks and timers   *)
(* do, the call settles once, in a step that is Settle or SettleKilled of  *)
(* Corpus; all else that Corpus sees is the end of a child that had        *)
(* survived.  So a test that settles without its cap being reached has     *)
(* ended, and no late callback changes the record it settled with.         *)
(***************************************************************************)
SettlesAsInCorpus ==
    [][child # "new" =>
          \/ ~settled /\ (Seen!Settle(1, 1) \/ Seen!SettleKilled(1, 1))
          \/ rec' = rec /\ (Seen!OrphanEnds(1) \/ UNCHANGED Seen!vars)]_vars
=============================================================================
