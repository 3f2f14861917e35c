SPECIFICATION Spec
CONSTANTS
  Task = {t1, t2}
  MaxRunning = 1
  Scenarios <- Kept
CHECK_DEADLOCK FALSE
INVARIANTS
  NotToldTwice
  SuppressedIsQuiet
  ForegroundLeavesNothing
PROPERTIES
  EndIsTold
