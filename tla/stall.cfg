SPECIFICATION Spec
CONSTANTS
  Lanes = {l1, l2}
  BootTime = 3
  Slot = 4
  StallMs = 15
  Poll = 3
  Tails <- AllTails
  MaxTests = 5
  MaxTime = 45
INVARIANT KillsInTime
PROPERTIES KillsOnlyStuck
CHECK_DEADLOCK FALSE
