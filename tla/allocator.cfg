SPECIFICATION Spec
CONSTANTS
  Threads = {sender, io, app}
  Sender = sender
  Io = io
  MaxFlight = 2
  MaxGone = 2
INVARIANTS TypeOK OneOwner NoneLost MadeWhenNeeded
PROPERTY ImplementsPool
