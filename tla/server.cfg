SPECIFICATION FairSpec
CONSTANTS
  Dcids = {d1, d2}
  MaxConns = 2
INVARIANTS TypeOK MapsAgree
PROPERTIES ImplementsEvents CloseIsDone
