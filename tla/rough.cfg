SPECIFICATION Spec
CONSTANTS
  Tests <- Two
  Workers = {w1}
  NoWorker = NoWorker
  Pids = {p1, p2}
  NoPid = NoPid
  Concurrency = 2
  MaxNoProgress = 2
  Selections <- Everything
  Wedgers <- One
  Faults = {"restart", "tear", "vanish"}
  MaxLaunches = 2
SYMMETRY PidSymmetry
PROPERTIES NoOverwrite TornLineCostsTwo BlamesOnlySuspects
CHECK_DEADLOCK FALSE
