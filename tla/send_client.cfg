SPECIFICATION FairSpec
CONSTANTS
  Streams = {1, 2, 3}
  MaxCalls = 3
  MaxBody = 2
  MaxRoom = 2
  MaxStreams = 2
  IsServer = FALSE
  Stoppable = {1}
INVARIANTS TypeOK WireIsOneBody FinMeansWhole Resumable AcceptedIsKept EndedOnce HeadersMatchCalls
PROPERTY AcceptedFinishes
