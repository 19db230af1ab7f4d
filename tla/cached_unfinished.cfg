SPECIFICATION Spec
CONSTANTS
  Streams = {1, 2}
  MaxCalls = 2
  MaxBody = 2
  MaxRoom = 3
  MaxStreams = 2
  IsServer = TRUE
  Stoppable = {}
INVARIANT FlushedIsWhole
