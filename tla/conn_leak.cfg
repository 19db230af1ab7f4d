SPECIFICATION Spec
CONSTANTS
  MaxConns = 2
  MaxData = 1
INVARIANT NoneAbandoned
CHECK_DEADLOCK FALSE
