SPECIFICATION Spec
CONSTANTS
  MaxTurns = 2
  MaxSteps = 2
  MaxNotices = 1
  Scenarios <- AllScenarios
CHECK_DEADLOCK FALSE
INVARIANTS
  ExchangesStayClosed
  MessagesInOrder
  ResumeRestores
PROPERTIES
  RequestsAreComplete
  SummaryCoversWhatItDrops
