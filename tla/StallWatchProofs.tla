-------------------------- MODULE StallWatchProofs --------------------------
(***************************************************************************)
(* Proofs about StallWatch: the watchdog is right about a worker, for      *)
(* every number of lanes and tests and every ledger it may be given, when  *)
(* StallMs covers the slots that ledger asks for, and it is not late, for  *)
(* every StallMs.                                                          *)
(***************************************************************************)
EXTENDS StallWatch, Integers, TLAPS

Watched == worker \in {"boot", "live", "lingers", "wedged"}

\* The appends that leave the count where it is or lower it, for a torn line.
Wasted(t) == IF t = "clean" THEN 0 ELSE IF t = "junk" THEN 1 ELSE 2

\* The appends after which the count is lastCount again.
Missing == lastCount - count + Wasted(tail)

\* That many slots.
Slots(n) == IF n = 0 THEN 0 ELSE IF n = 1 THEN Slot ELSE Slot + Slot

\* What the appends still missing may take, and those the torn line cost at
\* first, counted from a tick t in which a lane was at the start of its slot.
InWindow(t) == t + Slots(Missing) <= lastGrow + BootTime + Slots(Wasted(found))

\* As long as a worker has not booted, or found a torn line, it has not
\* appended anything.
CountedOnce ==
    /\ count <= lastCount => Missing \in 0..2
    /\ tail # "clean" => tail = found /\ count = lastCount
    /\ tail = "whole" => count > 0
    /\ worker = "boot" => tail = found /\ count = lastCount

\* While the ledger has not grown since the watchdog looked, every lane that
\* is busy took its test so early that the appends still missing fit into the
\* window, and a lane that is free has just given one back.
SinceLastGrow ==
    worker = "live" /\ count <= lastCount =>
        /\ \A l \in Busy : InWindow(since[l])
        /\ Busy = {} => InWindow(now)
        /\ \A l \in lanes \ Busy : left > 0 => InWindow(now)

\* The next poll is near, and was not far off when the count last grew.
PollIsNear == Watched => /\ lastGrow <= now /\ lastLife <= now
                         /\ now <= nextPoll
                         /\ nextPoll <= now + Poll
                         /\ nextPoll <= lastGrow + StallMs + Poll
                         /\ lastGrow <= lastLife + Poll
                         /\ count > lastCount => nextPoll <= lastLife + Poll

IInv == /\ TypeOK
        /\ CountedOnce
        /\ lanes # {} /\ Busy \subseteq lanes
        /\ worker = "boot" => now <= BootTime /\ Busy = {} /\ lastGrow = 0
        /\ worker = "live" => \A l \in Busy : since[l] <= now /\ now <= since[l] + Slot
        /\ SinceLastGrow
        /\ PollIsNear

\* The invariant holds at the start.
LEMMA Initial == Init => IInv
<1> SUFFICES ASSUME Init PROVE IInv
  OBVIOUS
<1> USE StallWatchAssumption DEF Init
<1>1. TypeOK
  BY DEF TypeOK, Free
<1>2. Busy = {}
  BY DEF Busy
<1>3. CountedOnce
  BY <1>1 DEF CountedOnce, Missing, Wasted, TypeOK
<1> QED
  BY <1>1, <1>2, <1>3 DEF IInv, SinceLastGrow, PollIsNear, Watched

\* Slots are counted from 0 to 2, and each is one Slot longer than the last.
LEMMA SlotsAdd ==
    /\ \A n \in 0..2 : Slots(n) \in Nat
    /\ \A n \in 1..2 : Slots(n) = Slots(n - 1) + Slot
    /\ Slots(0) = 0
BY StallWatchAssumption DEF Slots

\* A worker that is responsive appends what is missing, and one record more,
\* inside the window.
LEMMA NotTooLong ==
    ASSUME IInv, worker \in {"boot", "live"}, StallMs >= BootTime + SlotsToGrow,
           NEW grow, grow = IF count > lastCount THEN now ELSE lastGrow
    PROVE  ~TooLong(grow)
<1> USE StallWatchAssumption
<1>1. TypeOK /\ SinceLastGrow /\ CountedOnce
  BY DEF IInv
<1>2. CASE count > lastCount
  BY <1>1, <1>2 DEF TypeOK, TooLong
<1>3. SlotsToGrow = Slots(Wasted(found)) + Slot /\ SlotsToGrow \in Nat
      /\ Slots(Wasted(found)) \in Nat
  BY <1>1 DEF SlotsToGrow, Slots, Wasted, TypeOK
<1>4. CASE ~(count > lastCount)
  <2>1. Slots(Missing) \in Nat
    BY <1>1, <1>4, SlotsAdd DEF CountedOnce, TypeOK
  <2>2. CASE worker = "boot"
    BY <1>1, <1>3, <1>4, <2>2 DEF IInv, TypeOK, TooLong
  <2>3. CASE worker = "live" /\ Busy = {}
    <3>1. InWindow(now)
      BY <1>1, <1>4, <2>3 DEF SinceLastGrow, TypeOK
    <3> QED
      BY <1>1, <1>3, <1>4, <2>1, <3>1 DEF InWindow, TypeOK, TooLong
  <2>4. CASE worker = "live" /\ Busy # {}
    <3>1. PICK l \in Busy : TRUE
      BY <2>4
    <3>2. now <= since[l] + Slot /\ InWindow(since[l])
      BY <1>1, <1>4, <2>4, <3>1 DEF IInv, SinceLastGrow, TypeOK
    <3>3. since[l] \in Nat
      BY <1>1, <3>1 DEF TypeOK, Busy, Free
    <3> QED
      BY <1>1, <1>3, <1>4, <2>1, <3>2, <3>3 DEF InWindow, TypeOK, TooLong
  <2> QED
    BY <2>2, <2>3, <2>4
<1> QED
  BY <1>1, <1>2, <1>4 DEF TypeOK

\* And every step keeps it: one step per action.
LEMMA Inductive == IInv /\ [Next]_vars => IInv'
<1> SUFFICES ASSUME IInv, [Next]_vars PROVE IInv'
  OBVIOUS
<1> USE StallWatchAssumption
<1>a. TypeOK /\ CountedOnce /\ SinceLastGrow /\ PollIsNear /\ lanes # {} /\ Busy \subseteq lanes
  BY DEF IInv
<1>b. Slots(Wasted(found)) \in Nat /\ (count <= lastCount => Slots(Missing) \in Nat)
  BY <1>a, SlotsAdd DEF CountedOnce, TypeOK, Wasted
<1>1. CASE Boot
  <2>1. TypeOK' /\ Busy' = Busy /\ Busy = {}
    BY <1>1, <1>a DEF Boot, IInv, TypeOK, Busy, ledgerVars, watchVars
  <2>2. CountedOnce' /\ Missing' = Missing /\ Missing = Wasted(found)
    BY <1>1, <1>a DEF Boot, TypeOK, CountedOnce, Missing, Wasted, ledgerVars, watchVars
  <2>3. SinceLastGrow'
    BY <1>1, <1>a, <1>b, <2>1, <2>2
       DEF Boot, IInv, TypeOK, SinceLastGrow, InWindow, Slots, ledgerVars, watchVars
  <2>4. PollIsNear'
    BY <1>1, <1>a DEF Boot, TypeOK, PollIsNear, Watched, ledgerVars, watchVars
  <2> QED
    BY <1>1, <1>a, <2>1, <2>2, <2>3, <2>4 DEF Boot, IInv, ledgerVars, watchVars
<1>2. ASSUME NEW l \in lanes, Take(l) PROVE IInv'
  <2>0. l \in Lanes
    BY <1>a DEF TypeOK
  <2>1. TypeOK' /\ now # Free
    BY <1>2, <1>a, <2>0 DEF Take, Available, TypeOK, ledgerVars, watchVars, Free
  <2>2. Busy' = Busy \cup {l} /\ l \notin Busy /\ since'[l] = now
        /\ \A k \in Busy : since'[k] = since[k]
    BY <1>2, <1>a, <2>0, <2>1 DEF Take, Available, TypeOK, Busy, Free
  <2>3. CountedOnce' /\ Missing' = Missing
    BY <1>2, <1>a DEF Take, TypeOK, CountedOnce, Missing, Wasted, ledgerVars, watchVars
  <2>4. SinceLastGrow'
    <3> SUFFICES ASSUME count <= lastCount
                 PROVE  /\ \A k \in Busy' : InWindow(since[k])'
                        /\ \A k \in lanes \ Busy' : left' > 0 => InWindow(now)'
      BY <1>2, <2>2 DEF Take, SinceLastGrow, ledgerVars, watchVars
    <3>1. InWindow(now)
      BY <1>2, <1>a, <2>2 DEF Take, Available, SinceLastGrow
    <3>2. \A k \in Busy : InWindow(since[k])
      BY <1>2, <1>a DEF Take, SinceLastGrow
    <3> QED
      BY <1>2, <2>2, <2>3, <3>1, <3>2 DEF Take, InWindow, Slots, ledgerVars, watchVars
  <2>5. PollIsNear'
    BY <1>2, <1>a DEF Take, Available, TypeOK, PollIsNear, Watched, ledgerVars, watchVars
  <2>6. \A k \in Busy' : since'[k] <= now' /\ now' <= since'[k] + Slot
    BY <1>2, <1>a, <2>2 DEF IInv, Take, Available, TypeOK
  <2> QED
    BY <1>2, <1>a, <2>1, <2>2, <2>3, <2>4, <2>5, <2>6
       DEF IInv, Take, Available, ledgerVars, watchVars
<1>3. ASSUME NEW l \in lanes, Append(l) PROVE IInv'
  <2>0. l \in Lanes /\ l \in Busy
    BY <1>3, <1>a DEF TypeOK, Append, Busy
  <2>1. TypeOK'
    BY <1>3, <1>a, <2>0 DEF Append, appendRecord, CountedOnce, TypeOK, watchVars, Free
  <2>2. Busy' = Busy \ {l} /\ \A k \in Busy' : since'[k] = since[k]
    BY <1>3, <1>a, <2>0 DEF Append, TypeOK, Busy
  <2>3. Missing' = Missing - 1 /\ Missing \in Int /\ tail' = "clean"
    BY <1>3, <1>a DEF Append, appendRecord, Missing, Wasted, TypeOK, CountedOnce, watchVars
  <2>4. lastCount' = lastCount /\ tail \in {"clean", "junk", "whole"}
    BY <1>3, <1>a DEF Append, TypeOK, watchVars
  <2>5. count' <= lastCount' => Missing' \in 0..1 /\ Missing \in 1..2 /\ count <= lastCount
    <3>1. CASE tail = "clean"
      BY <1>3, <1>a, <2>4, <3>1
         DEF Append, appendRecord, Missing, Wasted, TypeOK, CountedOnce
    <3>2. CASE tail = "junk"
      BY <1>3, <1>a, <2>4, <3>2
         DEF Append, appendRecord, Missing, Wasted, TypeOK, CountedOnce
    <3>3. CASE tail = "whole"
      BY <1>3, <1>a, <2>4, <3>3
         DEF Append, appendRecord, Missing, Wasted, TypeOK, CountedOnce
    <3> QED
      BY <2>4, <3>1, <3>2, <3>3
  <2>6. CountedOnce'
    BY <1>3, <2>3, <2>5 DEF Append, CountedOnce
  <2>7. SinceLastGrow'
    <3> SUFFICES ASSUME count' <= lastCount'
                 PROVE  /\ \A k \in Busy' : InWindow(since[k])'
                        /\ InWindow(now)'
      BY DEF SinceLastGrow
    <3>1. Missing \in 1..2 /\ count <= lastCount
      BY <2>5
    <3>2. Slots(Missing) = Slots(Missing') + Slot /\ Slots(Missing') \in Nat
      BY <2>3, <3>1, SlotsAdd
    <3>3. \A k \in Busy : InWindow(since[k]) /\ since[k] \in Nat
      BY <1>3, <1>a, <3>1 DEF Append, SinceLastGrow, TypeOK, Busy, Free
    <3>4. now <= since[l] + Slot
      BY <1>3, <2>0 DEF IInv, Append
    <3>5. \A k \in Busy : since[k] + Slots(Missing') <= lastGrow + BootTime + Slots(Wasted(found))
      BY <1>a, <1>b, <3>2, <3>3 DEF InWindow, TypeOK
    <3>6. now + Slots(Missing') <= lastGrow + BootTime + Slots(Wasted(found))
      BY <1>a, <1>b, <2>0, <3>2, <3>3, <3>4 DEF InWindow, TypeOK
    <3>7. UNCHANGED <<now, lastGrow, found>>
      BY <1>3 DEF Append, watchVars
    <3> QED
      BY <2>2, <3>5, <3>6, <3>7 DEF InWindow, Slots, Wasted
  <2>8. PollIsNear'
    BY <1>3, <1>a DEF Append, TypeOK, PollIsNear, Watched, watchVars
  <2> QED
    BY <1>3, <1>a, <2>1, <2>2, <2>6, <2>7, <2>8 DEF IInv, Append, watchVars
<1>4. CASE Exit
  <2>1. TypeOK' /\ Busy' = Busy /\ CountedOnce'
    BY <1>4, <1>a DEF Exit, TypeOK, Busy, CountedOnce, Missing, Wasted, ledgerVars, watchVars
  <2> QED
    BY <1>4, <1>a, <2>1
       DEF Exit, IInv, SinceLastGrow, PollIsNear, Watched, ledgerVars, watchVars
<1>5. CASE Linger
  <2>1. TypeOK' /\ Busy' = Busy /\ CountedOnce'
    BY <1>5, <1>a DEF Linger, TypeOK, Busy, CountedOnce, Missing, Wasted, ledgerVars, watchVars
  <2> QED
    BY <1>5, <1>a, <2>1
       DEF Linger, IInv, TypeOK, SinceLastGrow, PollIsNear, Watched, ledgerVars, watchVars
<1>6. CASE Watch
  <2>1. TypeOK' /\ Busy' = Busy
    BY <1>6, <1>a DEF Watch, Grown, TypeOK, Busy, ledgerVars
  <2>2. worker' = worker \/ worker' = "killed"
    BY <1>6 DEF Watch
  <2>3. CASE Grown
    <3>1. lastCount' = count' /\ count' = count /\ lastGrow' = now /\ tail' = tail
          /\ found' = found /\ tail = "clean"
      BY <1>6, <1>a, <2>3 DEF Watch, Grown, ledgerVars, CountedOnce, TypeOK
    <3>2. CountedOnce' /\ Missing' = 0
      BY <1>6, <1>a, <2>1, <2>2, <2>3, <3>1 DEF CountedOnce, Missing, Wasted, TypeOK, Grown
    <3>3. SinceLastGrow'
      <4> SUFFICES ASSUME worker' = "live"
                   PROVE  /\ \A k \in Busy : InWindow(since[k])'
                          /\ InWindow(now)'
        BY <2>1 DEF SinceLastGrow
      <4>1. UNCHANGED <<now, since>> /\ \A k \in Busy : since[k] <= now /\ since[k] \in Nat
        BY <1>6, <1>a, <2>2 DEF Watch, IInv, TypeOK, Busy, Free
      <4> QED
        BY <1>a, <1>b, <3>1, <3>2, <4>1 DEF InWindow, Slots, Wasted, TypeOK
    <3>4. worker' = "boot" => lastGrow' = 0
      BY <1>6, <1>a, <2>2, <2>3 DEF CountedOnce, Grown, TypeOK
    <3>5. PollIsNear'
      BY <1>6, <1>a, <2>3, <3>1 DEF Watch, Grown, TypeOK, PollIsNear, Watched, TooLong
    <3> QED
      BY <1>6, <1>a, <2>1, <3>2, <3>3, <3>4, <3>5 DEF IInv, Watch, TypeOK
  <2>4. CASE ~Grown
    <3>1. UNCHANGED <<lastCount, ledgerVars, lastGrow, found>>
      BY <1>6, <2>4 DEF Watch
    <3>2. CountedOnce' /\ Missing' = Missing
      BY <1>a, <2>2, <3>1 DEF CountedOnce, Missing, Wasted, ledgerVars
    <3>3. SinceLastGrow'
      BY <1>6, <1>a, <2>1, <2>2, <3>1, <3>2
         DEF Watch, SinceLastGrow, InWindow, Slots, ledgerVars
    <3>4. PollIsNear'
      BY <1>6, <1>a, <2>4, <3>1
         DEF Watch, Grown, TypeOK, PollIsNear, Watched, TooLong, ledgerVars
    <3> QED
      BY <1>6, <1>a, <2>1, <2>2, <3>1, <3>2, <3>3, <3>4 DEF IInv, Watch, TypeOK
  <2> QED
    BY <2>3, <2>4
<1>7. CASE Wedge
  <2>1. TypeOK' /\ Busy' = Busy /\ CountedOnce'
    BY <1>7, <1>a DEF Wedge, TypeOK, Busy, CountedOnce, Missing, Wasted, ledgerVars, watchVars
  <2> QED
    BY <1>7, <1>a, <2>1
       DEF Wedge, IInv, TypeOK, SinceLastGrow, PollIsNear, Watched, ledgerVars, watchVars
<1>8. CASE Tick
  <2>1. TypeOK' /\ Busy' = Busy
    BY <1>8, <1>a DEF Tick, TypeOK, Busy, ledgerVars, watchVars
  <2>2. CountedOnce' /\ Missing' = Missing
    BY <1>8, <1>a DEF Tick, CountedOnce, Missing, Wasted, TypeOK, ledgerVars, watchVars
  <2>3. worker = "live" => Busy # {} /\ \A l \in lanes \ Busy : left = 0
    BY <1>8, <1>a DEF Tick, Punctual, TypeOK, Busy
  <2>4. SinceLastGrow'
    BY <1>8, <1>a, <2>1, <2>2, <2>3
       DEF Tick, SinceLastGrow, InWindow, Slots, ledgerVars, watchVars, TypeOK
  <2>5. PollIsNear'
    BY <1>8, <1>a DEF Tick, TypeOK, PollIsNear, Watched, ledgerVars, watchVars
  <2>6. worker' = "live" => \A l \in Busy' : since'[l] <= now' /\ now' <= since'[l] + Slot
    BY <1>8, <1>a, <2>1 DEF IInv, Tick, Punctual, TypeOK, Busy
  <2> QED
    BY <1>8, <1>a, <2>1, <2>2, <2>4, <2>5, <2>6
       DEF IInv, Tick, Punctual, TypeOK, ledgerVars, watchVars
<1>9. CASE UNCHANGED vars
  <2>1. TypeOK' /\ Busy' = Busy /\ CountedOnce' /\ Missing' = Missing
    BY <1>9, <1>a DEF vars, TypeOK, Busy, CountedOnce, Missing, Wasted
  <2>2. SinceLastGrow'
    BY <1>9, <1>a, <2>1 DEF vars, SinceLastGrow, InWindow, Slots
  <2> QED
    BY <1>9, <1>a, <2>1, <2>2 DEF vars, IInv, PollIsNear, Watched
<1> QED
  BY <1>1, <1>2, <1>3, <1>4, <1>5, <1>6, <1>7, <1>8, <1>9 DEF Next

\* The invariant in every reachable state.
LEMMA Invariance == Spec => []IInv
<1>1. Init => IInv
  BY Initial
<1>2. IInv /\ [Next]_vars => IInv'
  BY Inductive
<1> QED
  BY <1>1, <1>2, PTL DEF Spec

(***************************************************************************)
(* Type correctness, for any lanes, tests and timers.                      *)
(***************************************************************************)
THEOREM TypeCorrect == Spec => []TypeOK
<1>1. IInv => TypeOK
  BY DEF IInv
<1> QED
  BY <1>1, Invariance, PTL

(***************************************************************************)
(* The watchdog never kills a worker that is booting or making progress,   *)
(* if STALL_MS is at least the boot time and the time of one slot, or of   *)
(* two or three when the ledger ends in a torn record.                     *)
(***************************************************************************)
THEOREM NoFalseStall == Spec => KillsOnlyStuck
<1>1. IInv /\ [Next]_vars =>
        [worker' = "killed" /\ worker # "killed" /\ StallMs >= BootTime + SlotsToGrow
           => Stuck]_vars
  <2> SUFFICES ASSUME IInv, Next, worker' = "killed", worker # "killed",
                      StallMs >= BootTime + SlotsToGrow
               PROVE  Stuck
    BY DEF vars
  <2>1. Watch
    BY DEF Next, Boot, Take, Append, Exit, Linger, Wedge, Tick
  <2>2. TooLong(lastGrow') /\ lastGrow' = IF count > lastCount THEN now ELSE lastGrow
    BY <2>1 DEF Watch, Grown
  <2>3. worker \notin {"boot", "live"}
    BY <2>2, NotTooLong
  <2> QED
    BY <2>1, <2>3 DEF Watch, Stuck
<1> QED
  BY <1>1, Invariance, PTL DEF Spec, KillsOnlyStuck

(***************************************************************************)
(* A stuck worker is killed at most StallMs and two polls after it last   *)
(* did something.                                                          *)
(***************************************************************************)
THEOREM NoLateStall == Spec => []KillsInTime
<1>1. IInv => KillsInTime
  BY StallWatchAssumption
     DEF IInv, TypeOK, PollIsNear, Watched, Stuck, KillsInTime
<1> QED
  BY <1>1, Invariance, PTL
=============================================================================
