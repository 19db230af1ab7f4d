SPECIFICATION Spec
CONSTANTS
  Streams = {1, 2}
  MaxCalls = 1
  MaxBody = 2
  MaxRoom = 3
  MaxStreams = 2
  IsServer = FALSE
  Stoppable = {}
INVARIANT ReturnedIsKept
