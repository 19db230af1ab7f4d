SPECIFICATION FairSpec
CONSTANTS
  Streams = {1, 2}
  MaxCalls = 2
  MaxBody = 2
  MaxRoom = 2
  MaxStreams = 2
  IsServer = TRUE
  Stoppable = {1, 2}
PROPERTIES CachedLeaves ImplementsTransfer
