SPECIFICATION FairSpec
CONSTANTS
  Kinds <- MCKinds
  Heads <- MCHeads
  Rounds = 2
  GcCap = 2
  DriverCap = 6
INVARIANTS TypeOK DataSurvivesGc ReportIsWhole
PROPERTIES DriverGoesOn
CHECK_DEADLOCK FALSE
