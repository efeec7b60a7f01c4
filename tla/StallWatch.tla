----------------------------- MODULE StallWatch -----------------------------
(***************************************************************************)
(* The stall watchdog of runWorkerOnce (run-corpus.mjs) over one worker:   *)
(* every Poll it counts the ledger, and when the count has not grown for   *)
(* more than StallMs it kills the worker.  The worker is seen as its lanes *)
(* (runPool), each with one test at a time; a lane of a responsive worker  *)
(* appends its record at most Slot after it took the test (RunOne,         *)
(* SettlesInTime) and takes the next one in the same tick.  A wedged       *)
(* worker does nothing any more; one that lingers has come to its end, but *)
(* a child that survived its SIGKILL keeps Node from leaving.  Time is     *)
(* counted in ticks.                                                       *)
(***************************************************************************)
EXTENDS Naturals, FiniteSets

CONSTANTS Lanes,     \* the lanes runPool may have
          BootTime,  \* longest time from the spawn to the first test
          Slot,      \* longest time a responsive lane spends on a test
          StallMs,   \* STALL_MS
          Tails,     \* how a worker may find the end of the ledger
          Poll,      \* 3000 ms
          MaxTests,  \* bound: tests to run
          MaxTime    \* bound of the clock

ASSUME StallWatchAssumption ==
    /\ IsFiniteSet(Lanes) /\ Lanes # {}
    /\ BootTime \in Nat /\ Slot \in Nat \ {0} /\ Poll \in Nat \ {0}
    /\ StallMs \in Nat
    /\ Tails \subseteq {"clean", "junk", "whole"}
    /\ MaxTests \in Nat /\ MaxTime \in Nat

VARIABLES now,
          worker,    \* boot, live, lingers, wedged, exited, killed
          lanes,     \* those it has: as many as CONCURRENCY says
          since,     \* when each lane took its test, Free if it has none
          left,      \* tests no lane has taken
          tail,      \* what follows the ledger's last newline: nothing, part of
                     \* a record, or all of one (ProgressFile)
          count,     \* tests readLedger finds a record of
          lastCount, lastGrow, nextPoll,  \* the watchdog
          found,     \* ghost: the tail as the worker found it
          lastLife   \* ghost: the last tick in which the worker did something

vars == <<now, worker, lanes, since, left, tail, count, lastCount, lastGrow, nextPoll,
          found, lastLife>>

Free == MaxTime + 1
Busy == {l \in Lanes : since[l] # Free}

TypeOK ==
    /\ now \in 0..MaxTime
    /\ worker \in {"boot", "live", "lingers", "wedged", "exited", "killed"}
    /\ lanes \in SUBSET Lanes
    /\ since \in [Lanes -> 0..Free]
    /\ left \in 0..MaxTests
    /\ {tail, found} \subseteq {"clean", "junk", "whole"}
    /\ count \in Nat
    /\ lastCount \in Nat
    /\ lastGrow \in 0..MaxTime
    /\ nextPoll \in Nat
    /\ lastLife \in 0..MaxTime

Init ==
    /\ now = 0
    /\ worker = "boot"
    /\ lanes \in (SUBSET Lanes) \ {{}}
    /\ since = [l \in Lanes |-> Free]
    /\ left \in 0..MaxTests
    /\ tail \in Tails /\ found = tail
    /\ count = IF tail = "whole" THEN 1 ELSE 0
    /\ lastCount = count /\ lastGrow = 0 /\ nextPoll = Poll
    /\ lastLife = 0

ledgerVars == <<tail, count>>
watchVars == <<lastCount, lastGrow, nextPoll, found, lanes>>

Boot == /\ worker = "boot"
        /\ worker' = "live"
        /\ lastLife' = now
        /\ UNCHANGED <<now, since, left, ledgerVars, watchVars>>

\* The test of runPool's loop.
Available == left > 0

Take(l) == /\ worker = "live" /\ since[l] = Free /\ Available
           /\ since' = [since EXCEPT ![l] = now]
           /\ left' = left - 1
           /\ lastLife' = now
           /\ UNCHANGED <<now, worker, ledgerVars, watchVars>>

\* appendLine of ProgressFile, for a test without a record: behind a torn
\* record the new one is lost, and a whole one that was torn goes with it.
appendRecord == /\ tail' = "clean"
                /\ \/ tail = "clean" /\ count' = count + 1
                   \/ tail = "junk"  /\ count' = count
                   \/ tail = "whole" /\ count' = count - 1

Append(l) == /\ worker = "live" /\ since[l] # Free
             /\ since' = [since EXCEPT ![l] = Free]
             /\ appendRecord
             /\ lastLife' = now
             /\ UNCHANGED <<now, worker, left, watchVars>>

\* Every lane has returned: Node leaves, when it does not wait for a child
\* that is still there although its test has a record.
Exit == /\ worker \in {"live", "lingers"} /\ left = 0 /\ Busy = {}
        /\ worker' = "exited"
        /\ UNCHANGED <<now, since, left, ledgerVars, watchVars, lastLife>>

\* The worker has appended a record.
Recorded == tail # found \/ (found = "clean" /\ count > 0)
Linger == /\ worker = "live" /\ left = 0 /\ Busy = {} /\ Recorded
          /\ worker' = "lingers"
          /\ UNCHANGED <<now, since, left, ledgerVars, watchVars, lastLife>>

\* The callback of setInterval.  The window is over when strictly more than
\* StallMs have passed since the count last grew.
TooLongOrEqual(grow) == now - grow >= StallMs
TooLong(grow) == now - grow > StallMs

NotShrunk == count >= lastCount
Grown == count > lastCount

Watch ==
    /\ worker \in {"boot", "live", "lingers", "wedged"}
    /\ now = nextPoll
    /\ nextPoll' = nextPoll + Poll
    /\ lastCount' = IF Grown THEN count ELSE lastCount
    /\ lastGrow' = IF Grown THEN now ELSE lastGrow
    /\ worker' = IF TooLong(lastGrow') THEN "killed" ELSE worker
    /\ UNCHANGED <<now, lanes, since, left, ledgerVars, found, lastLife>>

Wedge == /\ worker \in {"boot", "live", "lingers"}
         /\ worker' = "wedged"
         /\ UNCHANGED <<now, since, left, ledgerVars, watchVars, lastLife>>

\* A responsive worker does not let its time pass.
Punctual ==
    \/ worker = "boot" /\ now < BootTime
    \/ worker = "live" /\ (Busy # {} \/ left > 0)
         /\ (\A l \in lanes : IF since[l] = Free THEN left = 0 ELSE now < since[l] + Slot)
    \/ worker \in {"lingers", "wedged"}

Tick == /\ Punctual
        /\ now < nextPoll
        /\ now < MaxTime
        /\ now' = now + 1
        /\ UNCHANGED <<worker, since, left, ledgerVars, watchVars, lastLife>>

Next == \/ Boot \/ Exit \/ Linger \/ Watch \/ Wedge \/ Tick
        \/ \E l \in lanes : Take(l) \/ Append(l)

Spec == Init /\ [][Next]_vars

-----------------------------------------------------------------------------
\* The worker can do nothing that makes the ledger grow (Stuck of Corpus).
Stuck == worker \in {"lingers", "wedged"}

\* The records one lane may have to append, at one Slot each, before the
\* count exceeds the one the watchdog began with.
SlotsToGrow == CASE found = "clean" -> Slot
                 [] found = "junk"  -> Slot + Slot
                 [] found = "whole" -> Slot + Slot + Slot

(***************************************************************************)
(* A worker that makes progress is not killed, provided STALL_MS covers    *)
(* the boot and one slot, and two or three if the ledger it was given ends *)
(* in a torn record: the watchdog's step then kills only a worker that is  *)
(* stuck, however slow the tests and wherever the polls fall.              *)
(* run-corpus.mjs:51 chooses max(90 s, 2 * TIMEOUT + 15 s) for slots of    *)
(* TIMEOUT + 3 s: two, not three, and line 30 asks for less than one.      *)
(***************************************************************************)
KillsOnlyStuck ==
    [][worker' = "killed" /\ worker # "killed" /\ StallMs >= BootTime + SlotsToGrow
         => Stuck]_vars

(***************************************************************************)
(* A stuck worker is killed in time: it is not still there StallMs and two *)
(* polls after it last did something.                                      *)
(***************************************************************************)
KillsInTime == Stuck => now <= lastLife + StallMs + 2 * Poll
=============================================================================
