SPECIFICATION FairSpec
CONSTANTS
  Kinds <- MCKinds
  PROBE_MS = 2
  KILL_MS = 1
INVARIANTS TypeOK DoneIsComplete ChildIsKilledFirst
PROPERTIES LeavesNoServer MatrixEnds
CHECK_DEADLOCK FALSE
