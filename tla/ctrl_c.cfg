SPECIFICATION Spec
CONSTANTS
  Tests <- Two
  Workers = {w1, w2}
  NoWorker = NoWorker
  Pids = {p1, p2, p3}
  NoPid = NoPid
  Concurrency = 2
  MaxNoProgress = 2
  Selections <- Everything
  Wedgers <- One
  Faults = {"ctrlC"}
  MaxLaunches = 2
PROPERTIES DoneIsNotRerun
CHECK_DEADLOCK FALSE
