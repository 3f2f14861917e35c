SPECIFICATION Spec
CONSTANTS
  Prompt <- ThreePrompts
  Scenarios <- GoalGoesOn
CHECK_DEADLOCK FALSE
INVARIANTS
  CompletedPromptsRan
