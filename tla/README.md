# Verification of the WebContainer corpus tools

The repository runs Node's own test suite (`test/parallel`, vendored) inside a
StackBlitz WebContainer, where a test may hang, ignore SIGKILL, or wedge the
whole container. What the repository adds to the tests is machinery that keeps
going all the same: supervisors, workers, timeouts, watchdogs, and files from
which a killed run resumes. That machinery is what is modelled here, in TLA+,
model-checked with TLC, and, but for liveness, proved with TLAPS.

## 1. The system

| Part | State it keeps | Operations | Talks to |
|---|---|---|---|
| **Supervisor** `run-corpus.mjs` | `ALL`, `noProgressCycles`, the child and the poll state of `runWorkerOnce` | command line, `--fresh`, `harvestInflight`, `spawnWorker`, the stall watchdog, no-progress abort, `writeOutputs` | spawns and kills workers; reads and appends the ledger; reads and clears the registry; kills test process groups by pid |
| **Worker** `corpus-worker.mjs` | `todo`, the `Map inFlight`, per test the state of `runOne` | `runPool`, `runOne` with its three timers, append, registry rewrite | spawns and kills tests; appends the ledger; rewrites the registry |
| **Resume ledger** `progress.jsonl` | one line per finished test | append, `readLedger`, removal | written by both, by the supervisor for crash marks |
| **In-flight registry** `inflight.json` | test, start and pid of what the worker has running | rewrite, `readInflight`, `clearInflight` | written by the worker, read by the supervisor after its death |
| **Selection** `corpus-lib.mjs` | none | filters, manifest, `LIMIT`, `parseFlags` | called by both, at different times |
| **Report** `corpus-format.mjs` | none | aggregation, JSON, Markdown | called by the supervisor at the end |
| **Autopsy** `introspect-serve.mjs` | `REPORT`, mirrored to `introspect.json` | `run`, `flagMatrix`, `main`, `save`, HTTP | spawns the probe and the red-wall tests |
| **Runtime probe** `introspect-probe.mjs` | `R`, the list of pending sub-probes | `safe`, `safeInto`, the sub-probes, `gcOnce`, one JSON at the end | its stdout is the driver's only way to know; killed by the driver's timer |
| **Network probes** `net-harness.mjs` and **matrix server** `serve-matrix.mjs` | the rows, `done` and `out` | the `probe` wrapper, 20 probes, HTTP | the server spawns the harness; some probes spawn children |

What is hard about them, and which properties are about it:

* **Processes that die between two steps.** Supervisor, worker and container can
  stop after any file operation, and only the two files survive. The next
  harvest has to find every pid it must kill (`ReapableFromDisk`), every test it
  may have to blame (`SuspectsKept`), and nothing it would blame wrongly
  (`NoOverwrite`, `ImplementsSweep`, and `BlamesOnlySuspects` of tests that were
  not in flight); it has to get past the test that did it (`StepsOver`).
* **State read once and used later.** A worker reads the ledger when it boots and
  relies on it for as long as it lives (`NeverRerun`); supervisor and worker
  resolve the test set separately (`SweepEnds`, which then fails: finding
  `vanish`).
* **Writes cut short.** Half a line at the end of the ledger swallows the append
  after it (`TornLineCostsTwo`); a report may be cut off, or be left beside the
  Markdown of another (`MdFollowsJson`).
* **Events and timers that race.** One test may be settled by `error`, `close`,
  the grace timer, or the reap timer, in any order around the cap
  (`SettlesInTime`, `VerdictIsTrue`, `SettlesAsInCorpus`, `LeavesNothingRunning`); the
  watchdog must tell slow from stuck (`KillsOnlyStuck`, `KillsInTime`); probes
  answer after their timer, or have opened a server before they registered how
  to close it (`LeavesNoServer`, `DoneIsComplete`); the runtime
  probe may be kept so long by `gc` that the driver kills it with all it has
  found (`DataSurvivesGc`), and its sub-probes fill their places in any order
  (`ReportIsWhole`).
* **Loops that must end** although nothing the tests do can be relied on
  (`SweepEnds`, `EveryCycleCounts`, `ReportEnds`, `MatrixEnds`, `DriverGoesOn`).
* **Things counted twice, and edges of arithmetic.** A manifest spells a test in
  several ways, `LIMIT` meets filters (`SelectionIsRight`); header and rows are
  counted apart (`RowsAreTrue`); rates are rounded, of totals that may be zero
  (`RatesAreHonest`).

`PROJECT.json` lists each hazard at its line under `hazards`.

## 2. The modules

```
Sweep            what a sweep promises, no processes and no files
  ^ implements
Corpus           supervisor + workers + tests + both files   <- ProgressFile
  |  "runOne settles a test" is one step             the ledger, summed up
  |                                             ProgressLines
  |                                                  the ledger as a text
  |  "a stuck worker is killed" is one step
  v                                             v
RunOne           one test: events and timers    StallWatch   the watchdog in time
CorpusCycles     Corpus with a count of the workers of one start
CorpusLosses     Corpus with what was written and what was torn
Introspect       the autopsy's chain of children and its saved report
  |  its first child, and the wait for it
  v
Probe            the runtime probe: sub-probes, gc loops, output
Report           before and after the sweep: what is selected, what is written
Harness          the network probes and the server of their matrix
```

`Corpus` takes two things for granted that have modules of their own, because
they are about time and `Corpus` has no clock: that a responsive worker settles
each test (`RunOne`), and that the watchdog kills exactly the workers that make
no progress (`StallWatch`). That `RunOne` fits is checked and proved: under the
mapping `Seen` of its variables onto `Corpus`, each step after the spawn is a `Settle` or
`SettleKilled` of `Corpus`, which happens once, or the end of a child that had survived, or
nothing (`SettlesAsInCorpus`); and `SettlesInTime` says the first of them comes. The
group of `Corpus` is the child itself; of the rest of its group, which only
`RunOne` has, `LeavesNothingRunning` speaks. `StallWatch`'s `Stuck`, a worker that
is wedged or lingers because a child survived, is `Stuck` of `Corpus` as seen from
the watchdog, and its constant `Slot` is the bound `RunOne` proves: the per-test cap
and the reap time. `Report` takes from `Corpus` that between start and end the ledger
gains records and loses none (`ImplementsSweep`, without `tear`).

**ProgressFile.** The ledger is `ledger`, the last status of each test among the
complete lines, and `tail`, what follows the last newline. `readLedger` is the
`Map` the code builds. `appendLine` after a dirty `tail` loses its record, as
`JSON.parse` rejects the joined line. Statuses are kept as far as the code
tells them apart here: ended by itself, killed at the cap, marked `crash`.

**ProgressLines.** The same file as what has been written to it: a sequence of
whole records, parts of records, and newlines. `ReadFile` is `readLedger` on that
text; `Completed` and `CutOff` are what an append leaves of it. `LedgerOf` and `TailOf` sum
it up; that they lose nothing is the theorem `LedgerIsAText`. `MCCorpus` compares
`ReadFile` with a reader that goes line by line as the code does (`ReadersAgree`).

**Corpus.** Each process runs its JavaScript without interruption between two
awaits, but can die after any file write, spawn or kill, and other processes run
meanwhile; so an action ends at each of those operations.

| Code | Variables and actions |
|---|---|
| worker `main`, `runPool` | `life`, `stage[w]`; `Boot`, `Take`, `Exit` |
| worker, one test | `stage[w][t]`: listed, spawned, running, ran or killed, appended; `SpawnTest`, `SpawnTestFails`, `NotePid`, `Settle`, `SettleKilled`, `AppendRecord`, `ClearEntry` |
| `inFlight`, `writeInflight` | the entries follow from `stage` and `pid`; `inflight` is the file |
| supervisor `main` | `sup`, `all`, `before`, `grew`, `noProgress`, `report`; `Launch`, `WipeInflight`, `Continue`, `GiveUp`, `Finish`, `spawnWorker` |
| `harvestInflight` | `targets`; `harvestInflight` (kill), `MarkCrash` (one append each), `clearInflight` |
| `runWorkerOnce` | `child`, `result`; `Stall`, `ChildExit` |
| the operating system | `proc` (which group runs which test), `present` (test files); `OrphanEnds`, `Vanish` |
| what goes wrong | `Wedge`, `WorkerDies`, `CtrlC`, `Restart`, `spawnWorkerFails`, `CutWrites`; each but `Wedge` only if named in `Faults` |

`poison` is the set of tests that can wedge the container: chosen at the start,
never changed and never read by the code. `noted` and `suspects` are ghosts, only
there to state properties.

**RunOne.** One call of `runOne`: `events` are emitted and not yet handled,
`timer` holds the due time of kill, reap and grace timer. A test may fork, exit
while what it forked holds its pipes, be beyond SIGKILL, or fail to spawn in
either of the two ways Node has.

**CorpusLosses** and **CorpusCycles** are `Corpus` with history variables, for the
theorems `LossesAreBounded` and `CyclesBounded`.

**StallWatch.** `runWorkerOnce`'s `setInterval` against the lanes of a worker, which may
wedge, or linger after its last record because a child of it survived. `count` is what
`readLedger` finds, so it depends on how the ledger ended when the worker was
given it (`tail`, `appendRecord`): behind half a record the first append adds nothing,
behind a whole one without its newline it takes one away. `lastCount` moves only
when the count has grown past it, as in the code.

**Introspect.** `run`'s promise is `phase`; `main` goes from await to await;
`save` writes what `Report` says. The flag matrix enters the report when it is
complete, as `flagMatrix` returns it whole.

**Probe.** A sub-probe is what it can do to the others: `sync` (returns a value, and
may take its time), `gc` (awaits `gcOnce` in a loop, each with its timer),
`modules` (awaits link and evaluate), `hooks` (settles in microtasks). `at` is the
statement `main` is at: first all calls without an await between them
(`BlockThrows`, `CallSync`, `CallAsync`), then `AwaitAll`, then the continuations
in the order of the event loop: microtasks, immediates, timers. There is one
thread, and time passes in two ways: while the loop has nothing to do (`Tick`), and in
synchronous code (`Takes`, in `CallSync` and in `StartGc`, where `gc()` is called in a
microtask after its timer was armed), during which no timer of the probe fires;
`spent` adds up the second kind, and a call that does not come back is `Block`.
`driver` is the `await run(...)` in `introspect-serve.mjs`, whose timer runs beside.

**Report.** `Start` is the top of `run-corpus.mjs` up to `ALL`, `Sweep` is all the
sweep does to the ledger, `Count`, `Summarise`, `WriteJson` and `WriteMd` are
`writeOutputs`; `Die` stops it in any place, and both files stay. Stems are
numbers, with their words as far as `bucketFor` looks at them; a filter is the
set of the stems that contain it, which is all `includes` can tell.

**Harness.** Each probe is what it does with the wrapper: five kinds, by when it
registers its cleanup, opens something, awaits an import, or spawns a child, each
callback a step of its own (`Imported`, `Listening`, `Closed`). `open` is its server and
its client, `cleanup` which of them its cleanup would close.
`body`, `cleanup`, `open` and `child` go on changing for probes that are over.

**Sweep** is the abstract specification. A sweep running gives tests results,
each at most one; a finished sweep reports what it was asked for, complete unless
aborted; a sweep may die and be started again. `Corpus` implements it under
`results <- readLedger`, `asked <- all`, and the phase read from `sup`.

## 3. The runs

| Run | Shows |
|---|---|
| `sweep` | Three tests, one possibly poison, two lanes, two starts, restarts, dying workers and SIGKILLs that fail: the files hold what the next harvest needs, harvests step over poison, no test with a record is run, and `Corpus` implements `Sweep`. |
| `rough` | Appends and rewrites cut off by a restart, a test file that goes away: a torn line costs its own record and that of the next append, no other; no record is replaced by another, and no test is marked that was not in flight when a worker died. |
| `ends` | Each cycle of `main`'s loop costs part of a budget, and the loop ends, whatever mixture of poison tests, dying workers, failing spawns and failing SIGKILLs. (It has one start, which a restart or Ctrl-C just ends.) |
| `run_one` | The races of one `runOne`; and what of them `Corpus` sees is what `Corpus` has. |
| `stall` | The watchdog kills wedged and lingering workers, in time, and no others if the window covers the slots the count needs to grow: one, or two or three after a torn line. |
| `introspect` | Finished work is on disk while the next child runs; no killable child runs beside a later one; the report ends. |
| `harness` | The matrix is served, complete unless the harness was killed; no probe leaves a server listening when its time is over, but connect refused if it hangs; the kill timer of a cluster child comes first. |
| `probe` | `gc` calls that never settle cost the driver's wait no more than `Rounds * GcCap`: the data are lost only to a crash, an uncapped await that hangs, or synchronous code that takes the rest; each sub-probe's failure stays in its place; the driver goes on. |
| `report` | What is selected, counted, rounded and written, over two starts that may die anywhere. |
| `abort`, `ctrl_c`, `vanish` | Violations, see section 6. |

### Bounds, and why they are enough

* `Corpus`: three tests and two lanes give a test in flight beside another, one
  that is waiting, and two that may be poison (`ends`, `abort`) make two stalls in a
  row and have one that is not the oldest. Two pids are as many as two lanes hold, and
  run out when SIGKILLs fail. Two starts give a harvest of what an earlier
  sweep left. `MaxNoProgress = 2` (4 in the code) needs one cycle that is
  counted and one that aborts. One worker at a time suffices where Ctrl-C
  is off, since there never are two (theorem `SingleWriter`); `ctrl_c` has two.
  `rough` and the violations use two tests, because a torn line concerns the
  line and the one after it. At most one file vanishes. `ReadersAgree` goes through
  all texts of up to four pieces: a record between two others on one line, and
  one that overrides an earlier one.
* `RunOne`: Timeout 5, Reap 3, Grace 2 keep the order 30 s > 3 s > 250 ms, and the
  clock runs past all three. `StallWatch`: `StallMs = 15 =
  BootTime + 3 * Slot` is the smallest window for which the hypothesis of `KillsOnlyStuck`
  holds for every tail; five tests let one lane make three records on a torn
  ledger and go on, or leave the second of two lanes idle at the end; `MaxTime = 45` is three windows.
* `Introspect`: two matrix runs and two tests have a first, a middle and a last
  save; two launches have a report from before. `Harness`: one probe of each kind
  but `server`, as `cross` starts, and `import` goes on, like it, with timers of one and
  two ticks; each probe but the last has a successor it could disturb.
* `Probe`: `Rounds = 2`, `GcCap = 2` and `DriverCap = 6` leave 2 for synchronous code before
  the data may be lost, so that both sides of the bound occur. There are two
  gc loops, whose caps run beside each other: in turn they would take 8. The kind
  `hooks` is left out, as it does no more than a `modules` that returns early.
* `Report`: three tests, two of one module, so that a row is counted up twice.
  `Scale = 2` (10000 in the code) makes a total of 3 the last for which
  `RatesAreHonest` holds, `2 * Scale` being 4; ties of the rounding occur. Two
  directories let a test come or go between starts, two starts leave the
  Markdown of one beside the JSON of the other; the commands are two filters with
  `LIMIT 1`, and a manifest (where `LIMIT` is ignored) with spellings, a duplicate, a
  comment and a test that may be gone.

Symmetry is used for pids only, and in no run that checks liveness.

### Fairness

`Corpus.FairSpec` is weak fairness of the supervisor's next step and of each
worker's: both are event loops, and a step that `runOne` has to take is taken at
the latest when its timers fire. Nothing is assumed of tests: that they end,
wedge, can be killed, or that a fault occurs or stops. A wedged worker has no
step and hence no fairness; the supervisor's `Stall` is the only one left, and
it is fair because `setInterval` is. `Introspect.FairSpec` has weak fairness of
its steps including `Timeout`, and none of children ending; `Probe.FairSpec` has
it of the probe's steps, its timers and the driver's, and none of `gc`, link or evaluate
settling, of Node noticing that an await cannot settle (`ExitUnsettled`), or of
crashes; `Harness.FairSpec` of timers, clock and the
two scripts, and none of the callbacks of the runtime under test.

Deadlock checking is off in all runs: each of these programs is meant to stop,
and each model has bounded starts or a bounded clock.

## 4. What is proved

All proofs hold for any number of tests, workers, pids, lanes, launches and
probes, and for any lengths of the timers, within the named assumptions on
constants.

* `CorpusProofs!TypeCorrect`: `Spec => []TypeOK`, under all faults.
* `CorpusProofs!SingleWriter` and `NoTestIsRerun`: unless Ctrl-C is a fault.
  `NeverRerun` is not inductive. What makes it true is `OneWriter`, three facts:
  *Alone* (at most one worker lives, and only while the supervisor is in
  `watch` on it), *DeadHasNothing* (a dead worker has no test), and
  *NotYetRecorded* (no test a live worker has before it, or has begun and not
  appended, has a record). The supervisor appends only when no worker lives,
  which is why the third survives `MarkCrash`; Ctrl-C is what breaks the first.
* `CorpusProofs!NothingIsOrphaned` (`ReapableFromDisk`) and `NothingIsForgotten`
  (`SuspectsKept`): under `Reliable`, that is without Ctrl-C and torn writes. SIGKILL
  need not work: `noted` is what has neither ended nor been sent one (`KillEffect`
  is what `hardKill` is known to do then). The two properties speak of the file only; the
  invariant `DiskTells` says how it comes to be right. While a worker lives, the
  file holds exactly the tests in its `stage` and `pid` (*Mirrored*), as each step that
  changes them rewrites it; when it is dead the file stays until the harvest
  has dealt with it (*Cleared*), and what runs with a noted pid is in it
  (*NotedRuns*).
* `RefinementProofs!SystemImplementsSweep`: `Spec => Abstract!Spec`, unless Ctrl-C
  is a fault or an append can be torn. Besides `OneWriter` it needs that
  `targets` has no recorded test (*TargetsAreNew*, so that a mark is a first
  result) and that `tail` is clean (*Untorn*). With a torn line a record
  disappears again, which `Sweep` does not allow. `FinishedReportIsComplete` is what
  a user of `Sweep` has of it: a sweep that says it has finished reports a
  result for every test it was asked for.
* What is left then, under all faults: `RefinementProofs!TornLinesCostTwo`
  (`TornLineCostsTwo`), of each step, and `LossesAreBounded`, of whole behaviours: with history
  variables for the tests whose append has returned and for the appends that were torn
  (`CorpusLosses`), no more tests are written and missing than appends were torn, so a torn
  write costs at most one record besides its own. The invariant *LossesCounted* adds
  that a torn line nobody has appended to has its loss still to come.
  `NothingIsOverwritten` (`NoOverwrite`), unless Ctrl-C is a fault, needs that what stands
  without its newline is the record of a test that has no other (*TailIsNew*).
* `RefinementProofs!OnlySuspectsAreBlamed` (`BlamesOnlySuspects`): unless Ctrl-C is a
  fault; torn writes of either file included. What the registry lists is in flight, or was
  when its worker died (*Suspected*), and while the supervisor harvests nothing
  is in flight (*Alone*, *DeadHasNothing*), so all it can list is suspected. After Ctrl-C
  the next supervisor harvests what the worker left behind still runs, and marks it.
* `RefinementProofs!PoisonIsSteppedOver` (`StepsOver`): under `Reliable`. From the
  harvest on, the supervisor's `targets` and the records made so far account
  for the suspects of the death (*Blames*): all of them after a restart, the
  oldest after a stall.
* The loop of `main`, unless an append is torn or a test file goes away, Ctrl-C
  included: `RefinementProofs!CleanExits` (a worker that exits with code 0 has left
  a record for every test of the sweep), `LoopRunsOut` (`EveryCycleCounts`) and
  `CyclesBounded` (one start launches at most `(|Tests| + 1) * MAX_NOPROGRESS`
  workers). The invariant is what the supervisor knows of its last count
  (*Counted*) and that each test of the sweep has a record or is in the hand of the
  worker that is watched (*Covered*). The budget is `MAX_NOPROGRESS` cycles for each test
  without a record, and the fruitless ones that are left: a cycle in which the ledger
  grew gives up the first kind, any other one of the second. `CorpusCycles` counts
  with a history variable, and its invariant *Spent* is that count and budget
  together stay below the bound. The run `vanish` shows that the condition on test
  files is needed.
* `RefinementProofs!LedgerIsAText`: under all faults there is a text that `ledger` and
  `tail` sum up, `readLedger` of `Corpus` is `ReadFile` of it, and each step makes of any such
  text one that the code may write (`TextGoesOn`). `SummaryIsExact` is the converse: each
  write changes the summary to that of the text it leaves, and each change of
  the summary by `appendLine`, `tearLine` or `wipeFile` is such a write; for ledgers of any
  length. Two texts that are summed up alike
  are read alike and stay so after the same write; that a line starts clean only
  after a newline is the part that matters (`CompletedLine`, `CutLine`).
* `RunOneProofs`: `TypeCorrect`, `SlotIsGivenBack` (`SettlesInTime`),
  `RecordIsTrue` (`VerdictIsTrue`), `FirstOneDecides` (nothing changes a record once
  settled), `NothingIsLeftRunning` (`LeavesNothingRunning`). The
  invariant is the chain of timers: while not settled, the kill timer is due at
  the cap, or the kill has happened and the reap timer is due within `Reap`
  of it. The grace timer is left out of it, as it can only settle earlier.
  `FitsCorpus` (`SettlesAsInCorpus`) needs besides in which order things come
  (*Order*): `error` only of a child that failed to spawn, which is never killed at the
  cap; `exit`, `close` and the grace timer only after the child has ended.
* `StallWatchProofs`: `TypeCorrect`, `NoFalseStall` (`KillsOnlyStuck`) and `NoLateStall`
  (`KillsInTime`). The invariant bounds the age of what the watchdog waits for: as long as the
  count has not passed the one the watchdog has, a responsive worker's oldest test was taken
  at most so many slots after the last growth, or the boot, as records are still needed
  for the count to grow; so the window cannot close on it. And a poll after `lastLife` sees the
  count that will not grow again.
* `IntrospectProofs`: `TypeCorrect`, `FinishedWorkIsSafe` (`NothingLost`) and `JobsDoNotOverlap`
  (`OneAtATime`). `NothingLost` looks only at the moments when a child runs; the
  invariant says for every phase that the probe's outcome, once there, is on
  the disk (`main` goes through the flag matrix without saving), and that
  nothing killable runs whenever `run` is not waiting.
* `HarnessProofs`: `TypeCorrect`, `MatrixIsComplete` (`DoneIsComplete`),
  `ProbesCleanUp` (`LeavesNoServer`) and `HungProbesHaveNoChild`
  (`ChildIsKilledFirst`). Rows below `cur` are filled, the process leaves only
  past the last one, a server that is up was registered before it listened (*Registered*)
  except by the refused probe, which cannot answer before its server has closed, and the child of a
  cluster probe is as old as its probe, so its timer comes first.
* `ProbeProofs`: `TypeCorrect`, `DataArrives` (`DataSurvivesGc`), `FailuresStayLocal`
  (`ReportIsWhole`). `DataArrives` is the one with an argument: the time waited, `now - spent`,
  is at most `GcCap` for each round a loop has begun, since every loop counts from the same
  start, however many there are, and time in synchronous code, which delays all their
  timers alike, is in `spent`; so before the driver's timer the last round is over, unless
  `spent` takes the rest.
* `ReportProofs`: `TypeCorrect`, and
  * `SelectsRight` (`SelectionIsRight`): an ascending sequence over a set of its own
    length leaves no element out (pigeonhole), so `Sorted` loses no test, and
    what `Slice` leaves out comes after what it keeps;
  * `RowsTrue` (`RowsAreTrue`): one more result adds one to its row's total and to one
    column of it, and to one of the sets counted; no other row changes;
  * `HonestRates` (`RatesAreHonest`): rounding moves a rate by at most half a step, and with
    fewer than `2 * Scale` tests one test is more than that;
  * `NeverAhead` (`MdFollowsJson`): the Markdown's run is at most the JSON's, which is at most
    `run`, and equal runs have equal summaries.

The hypothesis of `KillsOnlyStuck` is a real condition: the comment at `run-corpus.mjs:30` asks
only that `STALL_MS` exceed `TEST_TIMEOUT_MS`, and with a value set by hand between
the two a worker that is merely slow is killed. The default,
`max(90 s, 2 * TIMEOUT + 15 s)` with slots of `TIMEOUT + 3 s`, covers one slot, and two for boot
times of up to 9 s, more where 90 s is the larger, but not three: with one lane, or
all lanes in slow tests, a worker that is given a ledger ending in a whole record without its
newline may be killed while it makes progress: that costs a cycle of the no-progress budget, and the
test it was running is marked `crash` though it was only slow. The line has been ended by then,
so it does not happen twice for one torn line. The bound of `DataSurvivesGc` leaves, with 10 rounds of 2 s
against 35 s, 15 s for all synchronous code of the probe, `gc()` calls that block included.

## 5. What is only model-checked, and what is not modelled

Model-checked only: `SweepEnds`, `ReportEnds`, `MatrixEnds` and `DriverGoesOn`, as
liveness is out of the prover's reach. Of `SweepEnds` the safety half is proved
(`LoopRunsOut`, `CyclesBounded`): what TLC alone shows is that each cycle ends. All
other properties of the passing
runs are proved, `SuspectsKept`, `ReapableFromDisk` and `StepsOver` under `Reliable`, the
others under the conditions named above; the runs show them for the faults
their cfg names.

Abstractions a reader should know of:

* A test is its position in sort order, and workers take tests in that order, so
  the oldest in flight (`startedAt`) is the smallest number. Two tests taken in
  the same millisecond are in the order of the file in the code, too.
* Removing a test file under a `LIMIT` makes another test slide into a worker's
  selection; the model only takes tests away.
* The watchdog's SIGKILL of the worker works, as does writing the registry, the
  ledger and the reports as long as the writer lives; `save` of `Introspect` may be cut
  off, but does not fail.
* `ReapableFromDisk` starts when the pid is noted: between `spawn` and the
  registry rewrite a death leaves a process no file names.
* A torn rewrite of `inflight.json` loses pids and suspects; with `tear` on,
  `ReapableFromDisk` and `SuspectsKept` fail, as they must, and `rough` leaves them out.
* After a container restart the pids in the registry may have been given out
  again; the model's process table is empty then.
* The two saves at the end of the autopsy's `main` are one step.
* Whether a server that is closed before it listens comes up later is the
  runtime's affair (`Harness`, `Listening`): both happen.
* Of what a network probe opens, its server and its client are kept: a second client or a
  dgram socket that no cleanup closes stays open until `process.exit`, as line 253 of the file
  says, and nothing is claimed of clients. What a probe opens after its time is over leaks too.
* A harness that is killed from outside is shown as `DONE` like one that has come to its end;
  `DoneIsComplete` is about the latter.
* Synchronous code of the runtime probe takes time in its `sync` sub-probes and in `gc()`; what the
  short statements around an await take is not counted.
* The counts of the promise hook (`introspect-probe.mjs:261-273`) are not modelled; see section 6.
* The watchdog's worker is alone on its ledger: after Ctrl-C, appends of an orphaned worker
  may let the count grow while its own is stuck.
* A rate that lies in the middle between two steps may be rounded either way: the
  quotient in the code has been rounded before. Of the Markdown `Report` keeps which
  summary it shows, and of the table of modules the order is left out.
* `bucketFor` as it is: `test-fs-promises.js` is in `fs`, and only longer names
  (`test-fs-promises-x.js`) in `fs_promises`.

Not modelled: `parseFlags`, which reads a test's own argv out of its text and
decides nothing else; what the sub-probes of the runtime probe and the
network probes find out, which is the runtime under test; the child scripts two
network probes write and remove; HTTP routes that only read; `--help` and
`--list`; the console; the vendored tests. What the map leaves uncovered of the
modelled files is these, imports and comments.

## 6. Where code and documents disagree

* `abort`: the ledger is counted before the harvest marks the test that caused
  the stall (`run-corpus.mjs:183`), so `MAX_NOPROGRESS` poison tests in a row abort a
  sweep that stepped over one each time, "no progress" notwithstanding.
* `ctrl_c`: `README.md:47-48` calls Ctrl-C safe, but the worker is detached and goes on
  beside the next supervisor's. The next one's worker boots while the first still runs a test;
  the first records it, and the second runs it again (`DoneIsNotRerun`, a trace of two workers).
* `vanish`: a selected test whose file goes away makes the loop of `main`
  endless: each worker exits cleanly with nothing to do, and that counts as
  progress.

Seen and not given a run:

* `corpus-lib.mjs:41-42` says partial lines are skipped; the whole record appended
  after one is skipped with it, as there is no newline between them (`appendLine` in
  `ProgressFile`; `TornLineCostsTwo` is what holds).
* `run-corpus.mjs:30` and the default of line 51 leave less time than a worker may need after a torn
  line, see the end of section 4.
* `run-corpus.mjs:12-13` says any test in flight at a death is marked, while after
  a stall only the oldest is (`onlyOldest`, explained in the code; `StepsOver` is the
  property that holds).
* The `catch` of `run` in `introspect-serve.mjs` reaches `clearTimeout(t)` before `t` is
  declared, so a `spawn` that throws rejects `run` and ends the report;
  `Introspect` models it so (`rejected`), and `ReportEnds` counts a report that
  says it cannot go on as ended.
* `introspect-probe.mjs:254-255` has the mode `asyncFn` count only native promises. The
  `Promise.all` in line 277 is called while the hook is enabled in that mode, and where
  the global `Promise` is a wrapper it is counted, so such an engine may be
  called real. Promises made by the continuations of other sub-probes meanwhile are counted, too.
* With a manifest `LIMIT` is ignored (`corpus-lib.mjs:63-67`).
* `net-harness.mjs:22-23` says a probe's own handler records a FAIL; an error
  thrown first in a callback reaches none, and the row reads HANG.
* The hint at `run-corpus.mjs:171` to set `FRESH=1` names a variable nothing reads.
* A connect-refused probe that hangs leaves its server listening: it registers its cleanup
  only after the server has closed (`net-harness.mjs:114`; the exception in `LeavesNoServer`).

## 7. Plan

Done: the supervisor, worker and files with their refinement; `runOne`; the
watchdog; the autopsy and its probe; the network probes; selection and report;
proofs of every safety property the passing runs check; the ledger as a text;
`RunOne` within `Corpus`; the bound on the cycles of a sweep. What is left would be

1. **Probe within Introspect**: a mapping under which the driver's wait for the
   probe is the `run` of `Introspect`'s first child, as `RunOne` has one onto `Corpus`.
2. **`LIMIT` within Corpus**: a directory that changes under a `LIMIT`, where a worker
   may run tests that are not in `ALL`.
