SPECIFICATION FairSpec
CONSTANTS
  Tests <- Two
  Workers = {w1}
  NoWorker = NoWorker
  Pids = {p1, p2, p3}
  NoPid = NoPid
  Concurrency = 2
  MaxNoProgress = 2
  Selections <- Everything
  Wedgers <- One
  Faults = {"vanish"}
  MaxLaunches = 1
PROPERTIES SweepEnds
CHECK_DEADLOCK FALSE
