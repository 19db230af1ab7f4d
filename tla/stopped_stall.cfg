SPECIFICATION FairSpec
CONSTANTS
  Streams = {1, 2}
  MaxCalls = 2
  MaxBody = 2
  MaxRoom = 2
  MaxStreams = 2
  IsServer = FALSE
  Stoppable = {1}
PROPERTY OthersFinish
