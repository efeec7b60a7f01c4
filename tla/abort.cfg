SPECIFICATION Spec
CONSTANTS
  Tests <- Three
  Workers = {w1}
  NoWorker = NoWorker
  Pids = {p1, p2, p3}
  NoPid = NoPid
  Concurrency = 2
  MaxNoProgress = 2
  Selections <- Everything
  Wedgers <- Two
  Faults = {}
  MaxLaunches = 1
PROPERTIES AbortsOnlyWithoutProgress
CHECK_DEADLOCK FALSE
