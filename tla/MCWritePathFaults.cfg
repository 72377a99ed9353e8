SPECIFICATION FairSpec
CONSTANTS
  Clients = {c1}
  Space = 2
  Compressing = {c1}
  CompThreads = 2
  RemoveOutput = TRUE
  MaxBytes = 3
  MaxSeeks = 1
  MaxBreaks = 1
INVARIANTS
  BufferFollowsPosition
  AtMostOnce
PROPERTIES
  CloseEnds
CHECK_DEADLOCK FALSE
