SPECIFICATION Spec
CONSTANTS
  MaxBuffer = 2
  Scenarios <- AllScenarios
CHECK_DEADLOCK FALSE
INVARIANTS
  SyncLeavesNoGap
  FileIsOrdered
PROPERTIES
  ClientRecovers
