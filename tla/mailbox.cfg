SPECIFICATION FairSpec
CONSTANTS
  Pollers = {p1, p2, p3}
  Timed = {p3}
  MaxPosts = 3
INVARIANTS TypeOK OnceInOrder NoLostWakeup ShutdownFreesOne
PROPERTIES ImplementsQueue PostedIsDelivered
