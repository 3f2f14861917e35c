SPECIFICATION TimerSpec
CONSTANTS
  NumTasks = 3
  InitialLaunchLimit = 2
  LaunchInterval = 1
  RetryBase = 2
  ShrinkInterval = 1
  RecoveryInterval = 3
  Batches <- MCBatches
CHECK_DEADLOCK FALSE
INVARIANTS
  EachTaskHasOnePlace
  SomethingWillWake
  IdleBatchHasRoom
PROPERTIES
  Classified
  LaunchesKeepDistance
  ResultsAreFinal
  EveryTaskIsTried
  BatchEnds
