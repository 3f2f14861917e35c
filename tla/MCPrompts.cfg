SPECIFICATION Spec
CONSTANTS
  Prompt <- ThreePrompts
  Scenarios <- Kept
CHECK_DEADLOCK FALSE
INVARIANTS
  EndsAtMostOnce
  CompletedPromptsRan
PROPERTIES
  KeepsQueue
  SessionIsFreed
  EachIsTold
