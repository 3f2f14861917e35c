CONSTANTS
  a = a
  A = A
  x = x
  none = none
  Empty = none
  Segment <- MCSegment
  Fold <- MCFold
  File <- MCFile
  NumTasks = 4
  AccessSets <- MCAccessSets
SPECIFICATION FairSpec
INVARIANTS
  NoTornFile
  QueuedIsBlocked
PROPERTIES
  SerialSpec
  EveryTaskFinishes
CHECK_DEADLOCK FALSE
