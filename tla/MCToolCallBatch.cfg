CONSTANTS
  a = a
  none = none
  k1 = k1
  k2 = k2
  k3 = k3
  Empty = none
  Segment <- MCSegment
  Fold <- MCFold
  File <- MCFile
  NumTasks = 3
  AccessSets <- MCAccessSets
  Key = {k1, k2, k3}
SPECIFICATION MCSpec
INVARIANTS
  BodiesRunInOrder
  PairedTranscript
  DupSharesResult
  NoDetachedWork
  StopIsHonoured
PROPERTIES
  AbortEndsBatch
CHECK_DEADLOCK FALSE
