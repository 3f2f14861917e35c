SPECIFICATION Spec
CONSTANTS
  MaxMessages = 5
  Sizes <- SmallAndLarge
  MaxSize = 6
  BlockSize = 5
  MaxRecentMessages = 2
  MaxRecentSize = 3
  MinReducedSize = 2
  SummarySize = 1
  PrunedSize = 1
  MinSaved = 1
  MaxAttempts = 2
CHECK_DEADLOCK FALSE
INVARIANTS
  ExchangesStayWhole
  RecentMessagesKept
PROPERTIES
  AwaitedStay
  OverflowShrinks
  RoundsEnd
