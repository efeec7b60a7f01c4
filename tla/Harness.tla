-------------------------------- MODULE Harness --------------------------------
(***************************************************************************)
(* The network probes: net-harness.mjs, one Node process that runs the     *)
(* probes of its table one after the other, each in a race with a timer,   *)
(* and serve-matrix.mjs, which starts it and serves what it printed.  What *)
(* a probe exercises belongs to the runtime under test, so whether and     *)
(* when its callbacks come is left open; what matters is what the wrapper  *)
(* makes of them, those that come after the timer included.                *)
(*                                                                         *)
(* From the settlement of a race to the start of the next probe only       *)
(* microtasks run, so no callback or timer comes in between.               *)
(***************************************************************************)
EXTENDS Integers, Sequences

CONSTANTS Kinds,     \* the table of probes: how each uses the wrapper, see below
          PROBE_MS,
          KILL_MS    \* PROBE_MS - 200, when a child of a probe is killed

\* server:  a server, registered with setCleanup, then listen, then a client.
\* cross:   a server that, once it listens, is called by a child process.
\* refused: listen and close of a server, then a client, which it registers.
\* import:  awaits an import, then like server (dns opens nothing).
\* cluster: starts a child process at once and registers nothing.
\* (The keep-alive probe is a server that registers its agent too.)
AllKinds == {"server", "cross", "refused", "import", "cluster"}
HasChild == {"cross", "cluster"}

ASSUME HarnessAssumption ==
    /\ Kinds \in Seq(AllKinds)
    /\ PROBE_MS \in Nat
    /\ KILL_MS \in 0..(PROBE_MS - 1)

Probes == 1..Len(Kinds)

VARIABLES
  harness,   \* the net-harness process: unborn, failed, runs, exited or killed
  status,    \* what serve-matrix shows
  cur,       \* the probe under way
  age,       \* time since it was started
  row,       \* its line of the matrix, of each probe
  body,      \* where each probe's function is
  cleanup,   \* what its cleanup closes: nothing before setCleanup
  open,      \* its server and client, from the callback that opens it until it
             \* is closed here (what the other side closes is not told apart)
  child,     \* its child process
  childAge

bodyVars == <<body, cleanup, open>>
childVars == <<child, childAge>>
vars == <<harness, status, cur, age, row, body, cleanup, open, child, childAge>>

Handles == {"server", "client"}
Places == {"idle", "importing", "listening", "closing", "waiting", "over"}

TypeOK ==
    /\ harness \in {"unborn", "failed", "runs", "exited", "killed"}
    /\ status \in {"RUNNING", "DONE"}
    /\ cur \in 1..(Len(Kinds) + 1)
    /\ age \in 0..PROBE_MS
    /\ row \in [Probes -> {"none", "OK", "FAIL", "HANG"}]
    /\ body \in [Probes -> Places]
    /\ cleanup \in [Probes -> SUBSET Handles]
    /\ open \in [Probes -> SUBSET Handles]
    /\ child \in [Probes -> {"none", "running", "killed", "ended"}]
    /\ childAge \in [Probes -> 0..KILL_MS]

Init ==
    /\ harness = "unborn"
    /\ status = "RUNNING"
    /\ cur = 1
    /\ age = 0
    /\ row = [i \in Probes |-> "none"]
    /\ body = [i \in Probes |-> "idle"]
    /\ cleanup = [i \in Probes |-> {}]
    /\ open = [i \in Probes |-> {}]
    /\ child = [i \in Probes |-> "none"]
    /\ childAge = [i \in Probes |-> 0]

-----------------------------------------------------------------------------
(* serve-matrix.mjs.                                                       *)

Spawn ==
    /\ harness = "unborn"
    /\ harness' = "runs"
    /\ UNCHANGED <<status, cur, age, row, bodyVars, childVars>>

SpawnError ==
    /\ harness = "unborn"
    /\ harness' = "failed"
    /\ status' = "DONE"
    /\ UNCHANGED <<cur, age, row, bodyVars, childVars>>

OnClose ==
    /\ harness \in {"exited", "killed"} /\ status = "RUNNING"
    /\ status' = "DONE"
    /\ UNCHANGED <<harness, cur, age, row, bodyVars, childVars>>

-----------------------------------------------------------------------------
(* probe, the wrapper.                                                     *)

\* The body of a probe when it is called, by kind.
BodyAtStart(kind) ==
    CASE kind = "import" -> "importing" [] kind = "cluster" -> "waiting"
      [] OTHER -> "listening"

\* fn is called: what it does before its first callback.
StartProbe ==
    /\ harness = "runs" /\ cur \in Probes /\ body[cur] = "idle"
    /\ body' = [body EXCEPT ![cur] = BodyAtStart(Kinds[cur])]
    /\ cleanup' = [cleanup EXCEPT ![cur] =
                     IF Kinds[cur] \in {"server", "cross"} THEN {"server"} ELSE @]
    /\ child' = [child EXCEPT ![cur] = IF Kinds[cur] = "cluster" THEN "running" ELSE @]
    /\ UNCHANGED <<harness, status, cur, age, row, open, childAge>>

\* The event loop turns only while a probe is under way.
Turns == harness = "runs" /\ cur \in Probes /\ body[cur] # "idle"

\* The race is settled: cleanup is called, the row pushed, and the loop goes
\* on.  A cleanup set later is never called.  (CleaningAnswers: a mutant that
\* leaves what hangs as it is.)
Row(r) ==
    /\ row' = [row EXCEPT ![cur] = r]
    /\ cur' = cur + 1
    /\ age' = 0
ConcludeCleaningAnswers(r) ==
    /\ Row(r)
    /\ open' = IF r = "HANG" THEN open ELSE [open EXCEPT ![cur] = @ \ cleanup[cur]]
Conclude(r) ==
    /\ Row(r)
    /\ open' = [open EXCEPT ![cur] = @ \ cleanup[cur]]

TimeoutIfWaiting ==
    /\ Turns /\ age = PROBE_MS
    /\ body[cur] # "over"
    /\ Conclude("HANG")
    /\ UNCHANGED <<harness, status, body, cleanup, childVars>>
Timeout ==
    /\ Turns /\ age = PROBE_MS
    /\ Conclude("HANG")
    /\ UNCHANGED <<harness, status, body, cleanup, childVars>>

\* fn's promise settles with r, which counts only if the race is still on.
\* A failure may come at any time, from an error event, a rejection or a
\* throw, but not while the refused probe's server closes; a result only when
\* the body has all it waits for.
MayAnswer(i, r) ==
    \/ r = "FAIL" /\ body[i] \in {"importing", "listening", "waiting"}
    \/ r = "OK" /\ body[i] = "waiting" /\ (Kinds[i] \in HasChild => child[i] = "ended")

Answer(i, r) ==
    /\ Turns
    /\ MayAnswer(i, r)
    /\ body' = [body EXCEPT ![i] = "over"]
    /\ IF i = cur THEN Conclude(r) ELSE UNCHANGED <<row, open, cur, age>>
    /\ UNCHANGED <<harness, status, cleanup, childVars>>

\* An error thrown in a callback reaches only the handlers of
\* uncaughtException and unhandledRejection; the body will not answer.
EscapesFatally(i) ==
    /\ Turns
    /\ body[i] \in {"listening", "closing", "waiting"}
    /\ body' = [body EXCEPT ![i] = "over"]
    /\ harness' = "exited"
    /\ UNCHANGED <<status, cur, age, row, cleanup, open, childVars>>
Escapes(i) ==
    /\ Turns
    /\ body[i] \in {"listening", "closing", "waiting"}
    /\ body' = [body EXCEPT ![i] = "over"]
    /\ UNCHANGED <<harness, status, cur, age, row, cleanup, open, childVars>>

-----------------------------------------------------------------------------
(* The bodies, late ones included.                                         *)

Imported(i) ==
    /\ Turns
    /\ body[i] = "importing"
    /\ body' = [body EXCEPT ![i] = "listening"]
    /\ cleanup' = [cleanup EXCEPT ![i] = {"server"}]
    /\ UNCHANGED <<harness, status, cur, age, row, open, childVars>>

\* The callback of listen: the server is up, and a client connects or a child
\* is started; the refused probe calls close.  (A server that was closed
\* before may or may not come up: that is the runtime's affair.)
Listening(i) ==
    /\ Turns
    /\ body[i] = "listening"
    /\ body' = [body EXCEPT ![i] = IF Kinds[i] = "refused" THEN "closing" ELSE "waiting"]
    /\ open' = [open EXCEPT ![i] = IF Kinds[i] \in {"cross", "refused"} THEN {"server"}
                                                                      ELSE Handles]
    /\ child' = [child EXCEPT ![i] = IF Kinds[i] = "cross" THEN "running" ELSE @]
    /\ UNCHANGED <<harness, status, cur, age, row, cleanup, childAge>>

\* The callback of close, of the refused probe: connect, then setCleanup.
Closed(i) ==
    /\ Turns
    /\ body[i] = "closing"
    /\ body' = [body EXCEPT ![i] = "waiting"]
    /\ open' = [open EXCEPT ![i] = {"client"}]
    /\ cleanup' = [cleanup EXCEPT ![i] = {"client"}]
    /\ UNCHANGED <<harness, status, cur, age, row, childVars>>

KillIsDueInItsTurn(i) == child[i] = "running" /\ childAge[i] = KILL_MS /\ i = cur
KillIsDueWithResult(i) == child[i] = "running" /\ childAge[i] = KILL_MS /\ row[i] # "none"
KillIsDue(i) == child[i] = "running" /\ childAge[i] = KILL_MS

\* SIGKILL is sent; the child may be beyond it.
Kill(i) ==
    /\ Turns
    /\ KillIsDue(i)
    /\ child' = [child EXCEPT ![i] = "killed"]
    /\ UNCHANGED <<harness, status, cur, age, row, bodyVars, childAge>>

ChildEnds(i) ==
    /\ child[i] \in {"running", "killed"}
    /\ child' = [child EXCEPT ![i] = "ended"]
    /\ UNCHANGED <<harness, status, cur, age, row, bodyVars, childAge>>

\* Timers are punctual; the loop is never blocked.
Punctual == age < PROBE_MS /\ \A i \in Probes : ~KillIsDue(i)

Tick ==
    /\ Turns
    /\ Punctual
    /\ age' = age + 1
    /\ childAge' = [i \in Probes |-> IF child[i] = "running" THEN childAge[i] + 1
                                                            ELSE childAge[i]]
    /\ UNCHANGED <<harness, status, cur, row, bodyVars, child>>

\* The matrix is printed; process.exit cuts off whatever is still open.
ExitHarness ==
    /\ harness = "runs" /\ cur \notin Probes
    /\ harness' = "exited"
    /\ open' = [i \in Probes |-> {}]
    /\ UNCHANGED <<status, cur, age, row, body, cleanup, childVars>>

\* The process is ended from outside, with whatever it has open.
HarnessDies ==
    /\ harness = "runs"
    /\ harness' = "killed"
    /\ open' = [i \in Probes |-> {}]
    /\ UNCHANGED <<status, cur, age, row, body, cleanup, childVars>>

-----------------------------------------------------------------------------
Timers == Timeout \/ Tick \/ \E i \in Probes : Kill(i)

Next ==
    \/ Spawn \/ SpawnError \/ OnClose
    \/ StartProbe \/ ExitHarness \/ HarnessDies \/ Timers
    \/ \E i \in Probes : \/ Escapes(i) \/ Imported(i) \/ Listening(i) \/ Closed(i)
                         \/ ChildEnds(i)
                         \/ \E r \in {"OK", "FAIL"} : Answer(i, r)

Spec == Init /\ [][Next]_vars

\* Time passes, timers fire, and the two scripts run on; no callback of the
\* runtime under test is promised.
FairSpec == Spec /\ WF_vars(Spawn \/ OnClose) /\ WF_vars(StartProbe \/ ExitHarness)
                 /\ WF_vars(Timers)

-----------------------------------------------------------------------------
(* Properties.                                                             *)

(***************************************************************************)
(* DONE over an output is shown only when every probe has a line in it,    *)
(* whatever a probe throws, at once or long after its turn                 *)
(* (net-harness.mjs 20-26 and 239).  A harness that is killed is shown as  *)
(* DONE as well (serve-matrix.mjs 17), with nothing but the exit code to   *)
(* tell; of that nothing is claimed.                                       *)
(***************************************************************************)
DoneIsComplete ==
    status = "DONE" /\ harness = "exited" => \A i \in Probes : row[i] # "none"

(***************************************************************************)
(* When a probe's race ends, by a result, an error or the timer, no server *)
(* it has up by then stays up, though its clients may, which no cleanup    *)
(* closes (net-harness.mjs 65-76 and 253).  The exception is the           *)
(* refused probe: its server listens before any cleanup is registered, and *)
(* stays if the timer comes before the callback of close (113-115).        *)
(***************************************************************************)
LeavesNoServer ==
    [][cur' # cur /\ "server" \in open'[cur]
         => Kinds[cur] = "refused" /\ row'[cur] = "HANG"]_vars

(***************************************************************************)
(* The kill timer of a child is set short of the probe's: a cluster probe  *)
(* that hangs is not left with a child nobody has tried to kill            *)
(* (net-harness.mjs 67 and 224).                                           *)
(***************************************************************************)
ChildIsKilledFirst ==
    \A i \in Probes : Kinds[i] = "cluster" /\ row[i] = "HANG" => child[i] # "running"

(***************************************************************************)
(* The matrix gets served: no probe can keep the run, whether its events   *)
(* never come, it throws where nobody listens, or its child cannot be      *)
(* killed (net-harness.mjs 4-5).                                           *)
(***************************************************************************)
MatrixEnds == harness = "runs" ~> status = "DONE"
=============================================================================
