SPECIFICATION Spec
CONSTANTS
  Timeout = 5
  Reap = 3
  Grace = 2
  MaxTime = 12
INVARIANTS TypeOK SettlesInTime VerdictIsTrue LeavesNothingRunning
PROPERTIES SettlesAsInCorpus
CHECK_DEADLOCK FALSE
