SPECIFICATION FairSpec
CONSTANTS
  Tests <- Three
  Workers = {w1}
  NoWorker = NoWorker
  Pids = {p1, p2}
  NoPid = NoPid
  Concurrency = 2
  MaxNoProgress = 2
  Selections <- Everything
  Wedgers <- Two
  Faults = {"restart", "ctrlC", "workerExit", "spawnError", "killFails"}
  MaxLaunches = 1
PROPERTIES SweepEnds EveryCycleCounts
CHECK_DEADLOCK FALSE
