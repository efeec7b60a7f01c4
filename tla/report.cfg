SPECIFICATION Spec
CONSTANTS
  Stems = {1, 2, 3}
  Words <- MCWords
  Plain = {"fs"}
  Dirs <- MCDirs
  Commands <- MCCommands
  Scale = 2
  MaxRuns = 2
INVARIANTS TypeOK SelectionIsRight RowsAreTrue RatesAreHonest MdFollowsJson
CHECK_DEADLOCK FALSE
