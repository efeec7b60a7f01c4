SPECIFICATION Spec
CONSTANTS
  Tests <- Three
  Workers = {w1}
  NoWorker = NoWorker
  Pids = {p1, p2}
  NoPid = NoPid
  Concurrency = 2
  MaxNoProgress = 2
  Selections <- Everything
  Wedgers <- One
  Faults = {"restart", "workerExit", "killFails"}
  MaxLaunches = 2
SYMMETRY PidSymmetry
INVARIANTS TypeOK ReapableFromDisk SuspectsKept
PROPERTIES StepsOver NeverRerun ImplementsSweep
CHECK_DEADLOCK FALSE
