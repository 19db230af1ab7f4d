SPECIFICATION FairSpec
CONSTANTS
  Streams = {1, 2}
  Authorized = {1}
  MaxBody = 2
INVARIANTS TypeOK PostedWhole NoLeftovers
PROPERTIES ImplementsFeed ArrivedIsPosted
