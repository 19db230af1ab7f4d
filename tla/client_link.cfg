SPECIFICATION FairSpec
CONSTANTS
  MaxConns = 3
  MaxData = 2
INVARIANTS TypeOK Http3IsCurrent EventOrder
PROPERTIES HeardIsUsable CloseIsNoticed RetriesUntilAnswered
CHECK_DEADLOCK FALSE
