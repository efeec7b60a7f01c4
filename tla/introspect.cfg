SPECIFICATION FairSpec
CONSTANTS
  MatrixRuns = 2
  TestRuns = 2
  MaxLaunches = 2
INVARIANTS TypeOK NothingLost OneAtATime
PROPERTIES ReportEnds
CHECK_DEADLOCK FALSE
