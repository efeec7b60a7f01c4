----------------------------- MODULE ProbeProofs -----------------------------
(***************************************************************************)
(* Proofs about Probe, for any sequence of sub-probes and blocks, and any  *)
(* timers.                                                                 *)
(***************************************************************************)
EXTENDS Probe, TLAPS

(***************************************************************************)
(* The inductive invariant behind DataSurvivesGc.  The clock is ahead of   *)
(* the time spent in synchronous code by what the probe has waited, and    *)
(* that is at most Waits(r) for a gc sub-probe that has done r rounds: each*)
(* race is over when its timer is due, and what makes the timer late is    *)
(* time spent.  So the clock gets further ahead than Waits(Rounds) only if *)
(* some sub-probe hangs.                                                   *)
(***************************************************************************)
Waits(r) == r * GcCap
Hangs == \E k \in Probes : task[k] = "hung"

OnTime(k) ==
    /\ task[k] = "immediate" => now <= spent + Waits(round[k])
    /\ task[k] = "race" => /\ now <= spent + Waits(round[k] + 1)
                          /\ due[k] <= spent + Waits(round[k] + 1)
    /\ due[k] <= spent + Waits(Rounds)

InTime ==
    /\ TypeOK
    /\ at # End + 1 => now = spent /\ \A k \in Probes : task[k] \notin {"race", "hung"}
    /\ \A k \in Probes : OnTime(k)
    /\ now <= spent + Waits(Rounds) \/ Hangs

Losses ==
    /\ process = "ended" => out = "all" \/ Hangs
    /\ process = "killed" => driver # "waiting"
    /\ DataSurvivesGc

\* Lengths and bounds are numbers.
LEMMA Numbers ==
    /\ Rounds \in Nat \ {0} /\ GcCap \in Nat /\ DriverCap \in Nat
    /\ Len(Kinds) \in Nat /\ End \in Nat
    /\ Probes = 1..Len(Kinds) /\ End = Len(Kinds) + 1
    /\ \A k \in Probes : Kinds[k] \in AllKinds
BY ProbeAssumption DEF Probes, End

\* Later rounds have waited longer, by a timer's length each.
LEMMA LongerWaits ==
    ASSUME NEW r \in 0..(Rounds - 1)
    PROVE  /\ Waits(r) \in Nat /\ Waits(r + 1) \in Nat /\ Waits(Rounds) \in Nat
           /\ Waits(r) + GcCap = Waits(r + 1)
           /\ Waits(r + 1) <= Waits(Rounds)
<1>1. r \in Nat /\ Rounds - (r + 1) \in Nat
  BY Numbers
<1>2. \A a, b \in Nat : a * b \in Nat
  OBVIOUS
<1>3. (r + 1) * GcCap = r * GcCap + GcCap
  BY <1>1, Numbers
<1>4. Rounds * GcCap = (r + 1) * GcCap + (Rounds - (r + 1)) * GcCap
  BY <1>1, Numbers
<1>5. r * GcCap \in Nat /\ (r + 1) * GcCap \in Nat /\ Rounds * GcCap \in Nat
      /\ (Rounds - (r + 1)) * GcCap \in Nat
  BY <1>1, <1>2, Numbers
<1> QED
  BY <1>1, <1>3, <1>4, <1>5, Numbers DEF Waits

LEMMA AllWaits == Waits(Rounds) \in Nat
<1>1. 0 \in 0..(Rounds - 1)
  BY Numbers
<1> QED
  BY <1>1, LongerWaits

\* What synchronous code takes is spent, and no more.
LEMMA TakesTime ==
    ASSUME TypeOK, Takes
    PROVE  \E d \in Nat : /\ now' = now + d /\ spent' = spent + d
                         /\ now' \in 0..DriverCap /\ spent' \in 0..now'
<1>1. PICK t \in now..DriverCap : now' = t /\ spent' = spent + (t - now)
  BY DEF Takes
<1>2. now \in Nat /\ spent \in 0..now /\ t - now \in Nat /\ t = now + (t - now)
  BY Numbers DEF TypeOK
<1> QED
  BY <1>1, <1>2, Numbers

\* The first thing awaited is an immediate or link, unless the promise has
\* settled when it is returned.
LEMMA AsyncPends ==
    ASSUME CallAsync
    PROVE  /\ at \in Probes
           /\ \E first \in {"immediate", "link", "resolved", "rejected"} : Pends(at, first)
<1>1. at \in Probes /\ Kinds[at] \in {"gc", "modules", "hooks"}
  BY DEF CallAsync, Calling
<1>2. FirstAwait(Kinds[at]) \subseteq {"immediate", "link"}
  <2>1. CASE Kinds[at] = "gc"
    BY <2>1 DEF FirstAwait
  <2>2. CASE Kinds[at] = "modules"
    BY <2>2 DEF FirstAwait
  <2>3. CASE Kinds[at] = "hooks"
    BY <2>3 DEF FirstAwait
  <2> QED
    BY <1>1, <2>1, <2>2, <2>3
<1> QED
  BY <1>1, <1>2 DEF CallAsync

LEMMA InTimeInit == Init => InTime /\ Losses
<1> SUFFICES ASSUME Init PROVE InTime /\ Losses
  OBVIOUS
<1>1. 0 \in 0..DriverCap /\ 0 \in 0..0 /\ 1 \in 1..(End + 1) /\ 0 \in 0..(Rounds - 1)
      /\ 0 \in 0..(DriverCap + GcCap)
  BY Numbers
<1>2. TypeOK
  BY <1>1 DEF Init, TypeOK, Micro, Values
<1>3. \A k \in Probes : OnTime(k)
  BY AllWaits, Numbers DEF Init, OnTime
<1> QED
  BY <1>2, <1>3, Numbers, AllWaits DEF Init, InTime, Losses, DataSurvivesGc

\* A call keeps it: time may be spent, but no timer is armed yet.
LEMMA CallsInTime ==
    ASSUME InTime, BlockThrows \/ CallSync \/ CallAsync \/ AwaitAll
    PROVE  InTime'
<1>0. at \in Probes \/ at = End
  BY DEF BlockThrows, CallSync, CallAsync, AwaitAll, Calling
<1>1. at # End + 1 /\ now = spent /\ at \in 1..End
  BY <1>0, Numbers DEF InTime
<1>2. round' = round /\ due' = due
  BY DEF BlockThrows, CallSync, CallAsync, AwaitAll, taskVars
<1>3. PICK d \in Nat : /\ now' = now + d /\ spent' = spent + d
                       /\ now' \in 0..DriverCap /\ spent' \in 0..now'
  <2>1. CASE CallSync
    BY <2>1, TakesTime DEF CallSync, InTime
  <2>2. CASE UNCHANGED clocks
    <3>1. 0 \in Nat /\ now' = now + 0 /\ spent' = spent + 0
      BY <2>2 DEF clocks, InTime, TypeOK
    <3>2. now' \in 0..DriverCap /\ spent' \in 0..now'
      BY <2>2 DEF clocks, InTime, TypeOK
    <3> QED
      BY <3>1, <3>2
  <2> QED
    BY <2>1, <2>2 DEF BlockThrows, CallAsync, AwaitAll
<1>4. \A k \in Probes : task'[k] \in {task[k], "immediate", "link", "resolved", "rejected"}
  <2>1. CASE CallAsync
    BY <2>1, AsyncPends DEF InTime, TypeOK, Pends
  <2>2. CASE BlockThrows \/ CallSync \/ AwaitAll
    BY <2>2 DEF BlockThrows, CallSync, AwaitAll, taskVars
  <2> QED
    BY <2>1, <2>2
<1>5. TypeOK'
  <2>1. CASE BlockThrows
    <3>1. at' \in 1..(End + 1)
      BY <2>1, <1>1, Numbers DEF BlockThrows
    <3>2. value' \in [Probes -> Values] /\ failed' \in SUBSET Probes
      <4>1. PICK next \in (at + 1)..End :
              /\ value' = [k \in Probes |-> IF k \in at..(next - 1) THEN "error" ELSE value[k]]
              /\ failed' = failed \cup at..(next - 1)
        BY <2>1 DEF BlockThrows
      <4>2. at..(next - 1) \subseteq Probes
        BY <1>1, <4>1, Numbers
      <4> QED
        BY <4>1, <4>2 DEF InTime, TypeOK, Values
    <3> QED
      BY <2>1, <1>3, <3>1, <3>2 DEF BlockThrows, InTime, TypeOK, taskVars, endVars
  <2>2. CASE CallSync
    <3>1. at \in Probes /\ at' \in 1..(End + 1)
      BY <2>2, <1>1, Numbers DEF CallSync, Calling
    <3>2. value' \in [Probes -> Values] /\ failed' \in SUBSET Probes
      BY <2>2, <3>1 DEF CallSync, Fills, InTime, TypeOK, Values
    <3> QED
      BY <1>3, <2>2, <3>1, <3>2 DEF CallSync, InTime, TypeOK, taskVars, endVars
  <2>3. CASE CallAsync
    <3>1. at \in Probes /\ at' \in 1..(End + 1)
      BY <2>3, <1>1, Numbers DEF CallAsync, Calling
    <3>2. PICK first \in {"immediate", "link", "resolved", "rejected"} : Pends(at, first)
      BY <2>3, AsyncPends
    <3> QED
      BY <1>3, <2>3, <3>1, <3>2 DEF CallAsync, Pends, InTime, TypeOK, Values, Micro, endVars
  <2>4. CASE AwaitAll
    <3>1. at' \in 1..(End + 1)
      BY <2>4, Numbers DEF AwaitAll
    <3> QED
      BY <1>3, <2>4, <3>1 DEF AwaitAll, InTime, TypeOK, taskVars, endVars
  <2> QED
    BY <2>1, <2>2, <2>3, <2>4
<1>6. now' = spent' /\ now' \in Nat /\ spent' \in Nat /\ spent <= spent'
  BY <1>1, <1>3, Numbers DEF InTime, TypeOK
<1>7. ASSUME NEW k \in Probes
      PROVE  OnTime(k)' /\ task'[k] \notin {"race", "hung"}
  <2>1. /\ round[k] \in 0..(Rounds - 1) /\ task[k] \notin {"race", "hung"}
        /\ due[k] \in Nat /\ due[k] <= spent + Waits(Rounds)
    BY <1>1, Numbers DEF InTime, TypeOK, OnTime
  <2>2. Waits(round[k]) \in Nat /\ Waits(Rounds) \in Nat
    BY <2>1, LongerWaits
  <2>3. /\ round'[k] = round[k] /\ due'[k] = due[k]
        /\ now' <= spent' + Waits(round[k]) /\ due[k] <= spent' + Waits(Rounds)
    BY <1>1, <1>2, <1>3, <1>6, <2>1, <2>2 DEF InTime, TypeOK
  <2>4. task'[k] \notin {"race", "hung"}
    BY <1>4, <2>1
  <2> QED
    BY <2>3, <2>4 DEF OnTime
<1>8. now' <= spent' + Waits(Rounds)
  BY <1>6, AllWaits
<1> QED
  BY <1>5, <1>6, <1>7, <1>8 DEF InTime, Waits

\* A step of a task keeps it: only StartGc arms a timer, a GcCap from now, and
\* what it may take thereafter is spent.
LEMMA TasksInTime ==
    ASSUME InTime, NEW k \in Probes,
           Link(k) \/ Evaluate(k) \/ StartGc(k) \/ GcSettles(k) \/ Settle(k)
    PROVE  InTime'
<1>1. PICK s \in Micro \cup {"immediate", "race", "hung", "filled"} :
        task' = [task EXCEPT ![k] = s]
  BY DEF Link, Evaluate, StartGc, GcSettles, Settle, Becomes, Micro
<1>2. at = End + 1 /\ at' = at
  BY DEF Link, Evaluate, StartGc, GcSettles, Settle, Awaiting
<1>3. task[k] # "hung"
  BY DEF Link, Evaluate, StartGc, GcSettles, Settle, Micro
<1>4. PICK d \in Nat : /\ now' = now + d /\ spent' = spent + d
                       /\ now' \in 0..DriverCap /\ spent' \in 0..now'
  <2>1. CASE StartGc(k)
    BY <2>1, TakesTime DEF StartGc, InTime
  <2>2. CASE UNCHANGED clocks
    <3>1. 0 \in Nat /\ now' = now + 0 /\ spent' = spent + 0
      BY <2>2 DEF clocks, InTime, TypeOK
    <3>2. now' \in 0..DriverCap /\ spent' \in 0..now'
      BY <2>2 DEF clocks, InTime, TypeOK
    <3> QED
      BY <3>1, <3>2
  <2> QED
    BY <2>1, <2>2 DEF Link, Evaluate, GcSettles, Settle
<1>5. /\ now \in Nat /\ spent \in Nat /\ spent <= now /\ now <= DriverCap
      /\ \A j \in Probes : round[j] \in 0..(Rounds - 1) /\ due[j] \in Nat
  <2>1. now \in 0..DriverCap /\ spent \in 0..now
    BY DEF InTime, TypeOK
  <2>2. \A j \in Probes : round[j] \in 0..(Rounds - 1) /\ due[j] \in 0..(DriverCap + GcCap)
    BY DEF InTime, TypeOK
  <2> QED
    BY <2>1, <2>2, Numbers
<1>6. Hangs => Hangs'
  BY <1>1, <1>3 DEF Hangs, InTime, TypeOK
<1>7. \A j \in Probes \ {k} : task'[j] = task[j] /\ round'[j] = round[j] /\ due'[j] = due[j]
  BY <1>1 DEF Link, Evaluate, StartGc, GcSettles, Settle, InTime, TypeOK
<1>8. \A j \in Probes \ {k} : OnTime(j)'
  <2>1. SUFFICES ASSUME NEW j \in Probes \ {k} PROVE OnTime(j)'
    OBVIOUS
  <2>2. OnTime(j) /\ Waits(round[j]) \in Nat /\ Waits(round[j] + 1) \in Nat /\ Waits(Rounds) \in Nat
    BY <1>5, LongerWaits DEF InTime
  <2>3. task'[j] = task[j] /\ round'[j] = round[j] /\ due'[j] = due[j]
    BY <1>7
  <2>4. /\ task[j] = "immediate" => now + d <= (spent + d) + Waits(round[j])
        /\ task[j] = "race" => /\ now + d <= (spent + d) + Waits(round[j] + 1)
                              /\ due[j] <= (spent + d) + Waits(round[j] + 1)
        /\ due[j] <= (spent + d) + Waits(Rounds)
    BY <1>5, <2>2 DEF OnTime
  <2> QED
    BY <1>4, <2>3, <2>4 DEF OnTime
<1>9. /\ round'[k] \in 0..(Rounds - 1) /\ due'[k] \in 0..(DriverCap + GcCap)
      /\ OnTime(k)'
  <2>0. /\ Waits(round[k]) \in Nat /\ Waits(round[k] + 1) \in Nat /\ Waits(Rounds) \in Nat
        /\ Waits(round[k]) + GcCap = Waits(round[k] + 1)
        /\ Waits(round[k] + 1) <= Waits(Rounds)
    BY <1>5, LongerWaits
  <2>1. CASE StartGc(k)
    <3>1. /\ s = "race" /\ round' = round /\ due'[k] = now + GcCap
          /\ now <= spent + Waits(round[k])
      BY <2>1, <1>1 DEF StartGc, Becomes, InTime, TypeOK, OnTime
    <3>2. task'[k] = "race"
      BY <3>1, <1>1 DEF InTime, TypeOK
    <3>3. /\ now + d <= (spent + d) + Waits(round[k] + 1)
          /\ now + GcCap <= (spent + d) + Waits(round[k] + 1)
          /\ now + GcCap <= (spent + d) + Waits(Rounds)
          /\ now + GcCap \in 0..(DriverCap + GcCap)
      <4> DEFINE w == Waits(round[k])   v == Waits(round[k] + 1)   u == Waits(Rounds)
      <4>1. /\ w \in Nat /\ v \in Nat /\ u \in Nat /\ GcCap \in Nat /\ DriverCap \in Nat
            /\ now \in Nat /\ spent \in Nat /\ now <= DriverCap /\ d \in Nat
        BY <2>0, <1>5, Numbers
      <4>2. now <= spent + w /\ w + GcCap = v /\ v <= u
        BY <3>1, <2>0
      <4> HIDE DEF w, v, u
      <4>3. /\ now + d <= (spent + d) + v
            /\ now + GcCap <= (spent + d) + v
            /\ now + GcCap <= (spent + d) + u
            /\ now + GcCap \in 0..(DriverCap + GcCap)
        BY <4>1, <4>2
      <4> QED
        BY <4>3 DEF w, v, u
    <3> QED
      BY <3>1, <3>2, <3>3, <1>4, <1>5 DEF OnTime
  <2>2. CASE GcSettles(k)
    <3>0. UNCHANGED <<now, spent>>
      BY <2>2 DEF GcSettles, clocks
    <3>1. /\ due' = due /\ now <= spent + Waits(round[k] + 1)
          /\ due[k] <= spent + Waits(Rounds) /\ due[k] \in 0..(DriverCap + GcCap)
      BY <2>2 DEF GcSettles, InTime, OnTime, TypeOK
    <3>2. CASE s = "immediate" /\ round' = [round EXCEPT ![k] = @ + 1] /\ ~LastRound(k)
      <4>1. round'[k] = round[k] + 1 /\ round[k] + 1 \in 0..(Rounds - 1)
        BY <3>2, <1>5, Numbers DEF LastRound, InTime, TypeOK
      <4>2. task'[k] = "immediate"
        BY <3>2, <1>1 DEF InTime, TypeOK
      <4> QED
        BY <3>0, <3>1, <4>1, <4>2 DEF OnTime
    <3>3. CASE s \in {"resolved", "rejected"} /\ round' = round
      BY <3>0, <3>1, <3>3, <1>1, <1>5 DEF OnTime, InTime, TypeOK
    <3> QED
      <4>1. s = task'[k]
        BY <1>1 DEF InTime, TypeOK
      <4> QED
        BY <2>2, <3>2, <3>3, <4>1 DEF GcSettles, Becomes, InTime, TypeOK
  <2>3. CASE Link(k) \/ Evaluate(k) \/ Settle(k)
    <3>1. /\ s \notin {"immediate", "race"} /\ round' = round /\ due' = due
          /\ UNCHANGED <<now, spent>>
      BY <2>3, <1>1 DEF Link, Evaluate, Settle, Becomes, InTime, TypeOK, clocks
    <3> QED
      BY <3>1, <1>1, <1>5 DEF OnTime, InTime, TypeOK
  <2> QED
    BY <2>1, <2>2, <2>3
<1>10. /\ round' \in [Probes -> 0..(Rounds - 1)]
       /\ due' \in [Probes -> 0..(DriverCap + GcCap)]
  BY <1>9 DEF Link, Evaluate, StartGc, GcSettles, Settle, InTime, TypeOK
<1>11. TypeOK'
  <2>1. task' \in [Probes -> Micro \cup {"none", "immediate", "race", "hung", "filled"}]
    BY <1>1 DEF InTime, TypeOK
  <2>2. value' \in [Probes -> Values] /\ failed' \in SUBSET Probes
    BY DEF Link, Evaluate, StartGc, GcSettles, Settle, Fills, InTime, TypeOK, Values
  <2>3. UNCHANGED endVars
    BY DEF Link, Evaluate, StartGc, GcSettles, Settle
  <2> QED
    BY <1>2, <1>4, <1>10, <2>1, <2>2, <2>3 DEF InTime, TypeOK, endVars
<1>12. now' <= spent' + Waits(Rounds) \/ Hangs'
  <2>1. now <= spent + Waits(Rounds) => now + d <= (spent + d) + Waits(Rounds)
    BY <1>5, AllWaits
  <2> QED
    BY <1>4, <1>6, <2>1 DEF InTime
<1> QED
  <2>1. \A j \in Probes : OnTime(j)'
    BY <1>8, <1>9
  <2>2. at' = End + 1 /\ Waits(Rounds)' = Waits(Rounds)
    BY <1>2 DEF Waits
  <2> QED
    BY <1>11, <1>12, <2>1, <2>2 DEF InTime

\* The probe waits only while a race is on or a timer that lost its race keeps
\* the process, neither due, or when a sub-probe hangs; what passes while it
\* is blocked is spent.
LEMMA TickInTime ==
    ASSUME InTime, Losses, Tick
    PROVE  InTime'
<1>1. now' = now + 1 /\ UNCHANGED <<at, task, round, due>>
  BY DEF Tick, taskVars
<1>2. /\ now \in Nat /\ spent \in 0..now /\ now < DriverCap /\ Waits(Rounds) \in Nat
      /\ due \in [Probes -> 0..(DriverCap + GcCap)]
      /\ \A k \in Probes : Waits(round[k]) \in Nat /\ Waits(round[k] + 1) \in Nat
  BY AllWaits, LongerWaits DEF InTime, TypeOK, Tick
<1>3. TypeOK'
  <2>1. now' \in 0..DriverCap /\ spent' \in 0..now'
    BY <1>1, <1>2, Numbers DEF Tick
  <2> QED
    BY <2>1 DEF Tick, InTime, TypeOK, taskVars, endVars
<1>4. CASE process = "blocked" /\ spent' = spent + 1
  <2>1. \A k \in Probes : OnTime(k)'
    <3>1. SUFFICES ASSUME NEW k \in Probes PROVE OnTime(k)'
      OBVIOUS
    <3>2. OnTime(k) /\ due[k] \in Nat
      <4>1. OnTime(k)
        BY DEF InTime
      <4>2. due[k] \in 0..(DriverCap + GcCap)
        BY <1>2
      <4> QED
        BY <4>1, <4>2, Numbers
    <3>3. /\ task[k] = "immediate" => now + 1 <= (spent + 1) + Waits(round[k])
          /\ task[k] = "race" => /\ now + 1 <= (spent + 1) + Waits(round[k] + 1)
                                /\ due[k] <= (spent + 1) + Waits(round[k] + 1)
          /\ due[k] <= (spent + 1) + Waits(Rounds)
      BY <1>2, <3>2 DEF OnTime
    <3> QED
      BY <1>1, <1>4, <3>3 DEF OnTime
  <2>2. now + 1 <= (spent + 1) + Waits(Rounds) \/ Hangs
    BY <1>2 DEF InTime
  <2>3. now = spent => now + 1 = spent + 1
    OBVIOUS
  <2> QED
    BY <1>1, <1>3, <1>4, <2>1, <2>2, <2>3 DEF InTime, Hangs, Waits
<1>5. CASE Quiet /\ UNCHANGED spent
  <2>1. at = End + 1
    BY <1>5 DEF Quiet, Awaiting
  <2>2. \A k \in Probes : OnTime(k)'
    <3>1. SUFFICES ASSUME NEW k \in Probes PROVE OnTime(k)'
      OBVIOUS
    <3>2. task[k] # "immediate" /\ (task[k] = "race" => now < due[k]) /\ OnTime(k)
      BY <1>5 DEF Quiet, InTime
    <3>3. task[k] = "race" => now + 1 <= spent + Waits(round[k] + 1)
      <4>1. due[k] \in Nat /\ spent \in Nat /\ Waits(round[k] + 1) \in Nat
        BY <1>2, Numbers
      <4>2. task[k] = "race" => now < due[k] /\ due[k] <= spent + Waits(round[k] + 1)
        BY <3>2 DEF OnTime
      <4> QED
        BY <1>2, <4>1, <4>2
    <3> QED
      BY <1>1, <1>5, <3>2, <3>3 DEF OnTime
  <2>3. now + 1 <= spent + Waits(Rounds) \/ Hangs
    <3>1. SUFFICES ASSUME ~Hangs PROVE \E k \in Probes : now < due[k]
      <4>1. ASSUME NEW k \in Probes, now < due[k] PROVE now + 1 <= spent + Waits(Rounds)
        <5>1. due[k] \in Nat /\ spent \in Nat /\ now \in Nat /\ Waits(Rounds) \in Nat
          BY <1>2, Numbers
        <5>2. due[k] <= spent + Waits(Rounds)
          BY DEF InTime, OnTime
        <5> QED
          BY <4>1, <5>1, <5>2
      <4> QED
        BY <4>1
    <3>2. CASE \E k \in Probes : task[k] = "race"
      BY <1>5, <3>2 DEF Quiet
    <3>3. CASE \A k \in Probes : task[k] # "race"
      <4>1. AllSettled
        BY <1>5, <3>1, <3>3 DEF Quiet, AllSettled, Hangs
      <4>2. ~NoTimer
        BY <1>5, <4>1 DEF Quiet
      <4> QED
        BY <1>2, <4>2 DEF NoTimer
    <3> QED
      BY <3>2, <3>3
  <2> QED
    BY <1>1, <1>3, <1>5, <2>1, <2>2, <2>3 DEF InTime, Hangs, Waits
<1> QED
  BY <1>4, <1>5 DEF Tick

\* The invariant is inductive.
LEMMA InTimeStep == InTime /\ Losses /\ [Next]_vars => InTime' /\ Losses'
<1> SUFFICES ASSUME InTime, Losses, [Next]_vars PROVE InTime' /\ Losses'
  OBVIOUS
<1>a. ASSUME UNCHANGED <<out, process, driver>>, \A k \in Probes : task[k] = "hung" => task'[k] = "hung",
             spent' >= spent, spent \in Nat, spent' \in Nat
      PROVE  Losses'
  <2>1. Waits(Rounds) \in Nat /\ Waits(Rounds) = Rounds * GcCap
    BY AllWaits DEF Waits
  <2>2. DriverCap <= spent + Rounds * GcCap => DriverCap <= spent' + Rounds * GcCap
    <3>1. \A dc, a, b, w \in Nat : b >= a /\ dc <= a + w => dc <= b + w
      OBVIOUS
    <3> QED
      BY <1>a, <2>1, <3>1, Numbers
  <2> QED
    BY <1>a, <2>2 DEF Losses, DataSurvivesGc, Hangs
<1>b. spent \in Nat
  BY Numbers DEF InTime, TypeOK
<1>1. CASE BlockThrows \/ CallSync \/ CallAsync \/ AwaitAll
  <2>1. UNCHANGED endVars /\ (at \in Probes \/ at = End)
    BY <1>1 DEF BlockThrows, CallSync, CallAsync, AwaitAll, Calling
  <2>2. \A k \in Probes : task[k] # "hung"
    BY <2>1, Numbers DEF InTime
  <2>3. spent' \in Nat /\ spent' >= spent
    BY <1>1, <1>b, TakesTime DEF BlockThrows, CallSync, CallAsync, AwaitAll, clocks, InTime
  <2> QED
    BY <1>1, <1>a, <1>b, <2>1, <2>2, <2>3, CallsInTime DEF endVars
<1>2. CASE \E k \in Probes : \/ Link(k) \/ Evaluate(k)
                             \/ StartGc(k) \/ GcSettles(k) \/ Settle(k)
  <2>1. PICK k \in Probes : Link(k) \/ Evaluate(k) \/ StartGc(k) \/ GcSettles(k) \/ Settle(k)
    BY <1>2
  <2>2. UNCHANGED endVars /\ task[k] # "hung"
    BY <2>1 DEF Link, Evaluate, StartGc, GcSettles, Settle, Micro
  <2>3. \A j \in Probes : task[j] = "hung" => task'[j] = "hung"
    BY <2>1, <2>2 DEF Link, Evaluate, StartGc, GcSettles, Settle, Becomes, InTime, TypeOK
  <2>4. spent' \in Nat /\ spent' >= spent
    BY <2>1, <1>b, TakesTime DEF Link, Evaluate, StartGc, GcSettles, Settle, clocks, InTime
  <2> QED
    BY <1>a, <1>b, <2>1, <2>2, <2>3, <2>4, TasksInTime DEF endVars
<1>3. CASE Tick
  <2>1. UNCHANGED <<task, out, process, driver>> /\ spent' \in Nat /\ spent' >= spent
    BY <1>3, <1>b DEF Tick, taskVars, endVars
  <2> QED
    BY <1>3, <1>a, <1>b, <2>1, TickInTime
<1>4. CASE PrintReport \/ Flush \/ Exit \/ ExitUnsettled \/ Crash \/ Block \/ OnClose
           \/ DriverTimeout \/ UNCHANGED vars
  <2>1. UNCHANGED <<now, spent, at, task, round, due>>
    BY <1>4 DEF PrintReport, Flush, Exit, ExitUnsettled, Crash, Block, OnClose, DriverTimeout,
                taskVars, vars, clocks
  <2>2. TypeOK'
    BY <1>4 DEF PrintReport, Flush, Exit, ExitUnsettled, Crash, Block, OnClose, DriverTimeout,
                taskVars, vars, clocks, Parse, InTime, TypeOK
  <2>3. InTime'
    BY <2>1, <2>2 DEF InTime, OnTime, Hangs
  <2>4. Losses'
    <3>1. CASE PrintReport \/ Flush \/ Exit \/ ExitUnsettled \/ Crash \/ Block \/ UNCHANGED vars
      BY <3>1, <2>1 DEF PrintReport, Flush, Exit, ExitUnsettled, Crash, Block, vars, Losses,
                        DataSurvivesGc, Hangs
    <3>2. CASE OnClose
      BY <3>2, <2>1 DEF OnClose, Parse, InTime, TypeOK, Losses, DataSurvivesGc, Hangs
    <3>3. CASE DriverTimeout
      <4>1. Hangs \/ DriverCap <= spent + Rounds * GcCap
        BY <3>3 DEF DriverTimeout, InTime, Waits
      <4> QED
        BY <3>3, <4>1, <2>1 DEF DriverTimeout, Parse, Losses, DataSurvivesGc, Hangs
    <3> QED
      BY <1>4, <3>1, <3>2, <3>3
  <2> QED
    BY <2>3, <2>4
<1> QED
  BY <1>1, <1>2, <1>3, <1>4 DEF Next, Step

(***************************************************************************)
(* Type correctness of the probe and its driver.                           *)
(***************************************************************************)
THEOREM TypeCorrect == Spec => []TypeOK
<1>1. InTime => TypeOK
  BY DEF InTime
<1> QED
  BY <1>1, InTimeInit, InTimeStep, PTL DEF Spec

(***************************************************************************)
(* For any number of gc loops and any timers, gc calls that never settle   *)
(* take at most Rounds * GcCap of the time until the driver's timer, as    *)
(* long as no uncapped operation hangs; what the data is lost to otherwise *)
(* is time spent in synchronous code, introspect-probe.mjs:40-44 against   *)
(* introspect-serve.mjs:75.                                                *)
(***************************************************************************)
THEOREM DataArrives == Spec => []DataSurvivesGc
<1>1. Losses => DataSurvivesGc
  BY DEF Losses
<1> QED
  BY <1>1, InTimeInit, InTimeStep, PTL DEF Spec

-----------------------------------------------------------------------------
(***************************************************************************)
(* ReportIsWhole by itself says nothing of the time before the JSON is     *)
(* printed.  The invariant follows each entry: empty until its call, the   *)
(* placeholder while its task is on, and then what that sub-probe made of  *)
(* it; nothing changes once all tasks are filled.                          *)
(***************************************************************************)
Entry(k) ==
    /\ task[k] = "none" /\ k >= at => value[k] = "none" /\ k \notin failed
    /\ task[k] = "none" /\ k < at => value[k] \in {"value", "error"}
    /\ task[k] # "none" => k < at
    /\ task[k] \notin {"none", "filled"} => value[k] = "pending" /\ k \notin failed
    /\ task[k] = "filled" => value[k] \in {"value", "error"}
    /\ value[k] = "error" <=> k \in failed

Entries ==
    /\ \A k \in Probes : Entry(k)
    /\ out # "nothing" => at = End + 1 /\ AllSettled /\ printed = value

LEMMA EntriesInit == Init => Entries
BY Numbers DEF Init, Entries, Entry, AllSettled

\* A call fills or marks the entries it is about, the next ones in order.
LEMMA CallsKeepEntries ==
    ASSUME InTime, Entries,
           BlockThrows \/ CallSync \/ CallAsync
    PROVE  Entries'
<1>1. at \in Probes /\ at \in Nat /\ at # End + 1 /\ out = "nothing" /\ out' = out
  <2>1. at \in Probes
    BY DEF BlockThrows, CallSync, CallAsync, Calling
  <2>2. at \in Nat /\ at # End + 1
    BY <2>1, Numbers
  <2> QED
    BY <2>1, <2>2 DEF Entries, BlockThrows, CallSync, CallAsync, endVars
<1>2. SUFFICES ASSUME NEW k \in Probes PROVE Entry(k)'
  BY <1>1 DEF Entries
<1>3. Entry(k) /\ Entry(at) /\ k \in Nat
  BY <1>1, Numbers DEF Entries
<1>4. task[at] = "none"
  BY <1>1, <1>3 DEF Entry
<1>5. CASE BlockThrows
  <2>1. PICK next \in (at + 1)..End :
          /\ at' = next
          /\ value' = [j \in Probes |-> IF j \in at..(next - 1) THEN "error" ELSE value[j]]
          /\ failed' = failed \cup at..(next - 1)
    BY <1>5 DEF BlockThrows
  <2>2. task' = task /\ next \in Nat /\ at < next
    BY <1>1, <1>5, <2>1, Numbers DEF BlockThrows, taskVars
  <2>3. CASE k \in at..(next - 1)
    <3>1. task[k] = "none"
      BY <1>1, <1>3, <2>3 DEF Entry
    <3> QED
      BY <1>1, <2>1, <2>2, <2>3, <3>1 DEF Entry
  <2>4. CASE k \notin at..(next - 1)
    <3>1. value'[k] = value[k] /\ (k \in failed' <=> k \in failed)
          /\ (k < at' <=> k < at)
      BY <1>1, <1>3, <2>1, <2>2, <2>4
    <3> QED
      BY <1>1, <1>3, <2>1, <2>2, <3>1 DEF Entry
  <2> QED
    BY <2>3, <2>4
<1>6. CASE CallSync
  <2>1. PICK v \in {"value", "error"} : Fills(at, v)
    BY <1>6 DEF CallSync
  <2>2. task' = task /\ at' = at + 1
    BY <1>6 DEF CallSync, taskVars
  <2> QED
    BY <1>1, <1>3, <1>4, <2>1, <2>2 DEF Fills, Entry, InTime, TypeOK
<1>7. CASE CallAsync
  <2>1. PICK s \in {"immediate", "link", "resolved", "rejected"} : Pends(at, s)
    BY <1>7, AsyncPends
  <2>2. failed' = failed /\ at' = at + 1
    BY <1>7 DEF CallAsync
  <2> QED
    BY <1>1, <1>3, <1>4, <2>1, <2>2 DEF Pends, Entry, InTime, TypeOK
<1> QED
  BY <1>5, <1>6, <1>7

LEMMA EntriesStep == InTime /\ InTime' /\ Entries /\ [Next]_vars => Entries'
<1> SUFFICES ASSUME InTime, InTime', Entries, [Next]_vars PROVE Entries'
  OBVIOUS
<1>1. CASE BlockThrows \/ CallSync \/ CallAsync
  BY <1>1, CallsKeepEntries
<1>2. CASE \E k \in Probes : \/ Link(k) \/ Evaluate(k)
                             \/ StartGc(k) \/ GcSettles(k) \/ Settle(k)
  <2>1. PICK k \in Probes : \/ Link(k) \/ Evaluate(k)
                            \/ StartGc(k) \/ GcSettles(k) \/ Settle(k)
    BY <1>2
  <2>2. task[k] \notin {"none", "filled"} /\ at' = at /\ at = End + 1 /\ UNCHANGED endVars
    BY <2>1 DEF Link, Evaluate, StartGc, GcSettles, Settle, Awaiting
  <2>3. out = "nothing" /\ out' = "nothing"
    BY <2>2 DEF Entries, AllSettled, endVars
  <2>4. SUFFICES ASSUME NEW j \in Probes PROVE Entry(j)'
    BY <2>3 DEF Entries
  <2>5. Entry(j) /\ Entry(k)
    BY DEF Entries
  <2>6. CASE Settle(k)
    <3>1. PICK v \in {"value", "error"} : Fills(k, v)
      BY <2>6 DEF Settle
    <3> QED
      BY <2>2, <2>5, <2>6, <3>1 DEF Settle, Becomes, Fills, Entry, InTime, TypeOK
  <2>7. CASE Link(k) \/ Evaluate(k) \/ StartGc(k) \/ GcSettles(k)
    <3>1. UNCHANGED <<value, failed>>
      BY <2>7 DEF Link, Evaluate, StartGc, GcSettles
    <3>2. PICK s \in {"evaluate", "rejected", "hung", "resolved", "race", "immediate"} :
            task' = [task EXCEPT ![k] = s]
      BY <2>7 DEF Link, Evaluate, StartGc, GcSettles, Becomes
    <3> QED
      BY <2>2, <2>5, <3>1, <3>2 DEF Entry, InTime, TypeOK
  <2> QED
    BY <2>1, <2>6, <2>7
<1>3. CASE AwaitAll
  <2>1. out = "nothing"
    BY <1>3, Numbers DEF AwaitAll, Entries
  <2>2. at \in Nat /\ \A k \in Probes : k \in Nat /\ k < at /\ k < at'
    BY <1>3, Numbers DEF AwaitAll
  <2> QED
    BY <1>3, <2>1, <2>2 DEF AwaitAll, Entries, Entry, taskVars, endVars
<1>4. CASE PrintReport \/ Flush \/ Exit \/ ExitUnsettled \/ Crash \/ Block \/ OnClose
           \/ DriverTimeout \/ Tick \/ UNCHANGED vars
  <2>1. UNCHANGED <<at, value, task, failed>>
    BY <1>4 DEF PrintReport, Flush, Exit, ExitUnsettled, Crash, Block, OnClose, DriverTimeout, Tick,
                taskVars, vars
  <2>2. out' # "nothing" => at = End + 1 /\ AllSettled /\ printed' = value
    BY <1>4 DEF PrintReport, Flush, Exit, ExitUnsettled, Crash, Block, OnClose, DriverTimeout, Tick,
                endVars, vars, Entries, Awaiting
  <2> QED
    BY <2>1, <2>2 DEF Entries, Entry, AllSettled
<1> QED
  BY <1>1, <1>2, <1>3, <1>4 DEF Next, Step

(***************************************************************************)
(* The JSON has an entry for each sub-probe, an error exactly for those    *)
(* that failed: safe, safeInto and Promise.all keep a failure where it is. *)
(***************************************************************************)
THEOREM FailuresStayLocal == Spec => []ReportIsWhole
<1>1. Entries => ReportIsWhole
  <2> SUFFICES ASSUME Entries, out # "nothing", NEW k \in Probes
               PROVE  /\ printed[k] \in {"value", "error"}
                      /\ printed[k] = "error" <=> k \in failed
    BY DEF ReportIsWhole
  <2>1. Entry(k) /\ k < at /\ printed = value /\ task[k] \in {"none", "filled"}
    BY Numbers DEF Entries, AllSettled
  <2> QED
    BY <2>1, Numbers DEF Entry
<1> QED
  BY <1>1, InTimeInit, InTimeStep, EntriesInit, EntriesStep, PTL DEF Spec

=============================================================================
