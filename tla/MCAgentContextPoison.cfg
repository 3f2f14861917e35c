SPECIFICATION Spec
CONSTANTS
  MaxTurns = 2
  MaxSteps = 2
  MaxNotices = 1
  Scenarios <- OnlyCompacting
CHECK_DEADLOCK FALSE
INVARIANTS
  RecordsReplay
