SPECIFICATION FairSpec
CONSTANT MaxLogs = 4
INVARIANTS TypeOK OnceInOrder
PROPERTIES LinesGetOut DestructorEnds
CHECK_DEADLOCK FALSE
