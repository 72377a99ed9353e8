SPECIFICATION MCSpec
CONSTANTS
  k1 = k1
  k2 = k2
  s1 = s1
  s2 = s2
  s3 = s3
  Sockets = {s1, s2}
  Keys = {k1}
  KeyOf <- OneClient
  MaxMsgs = 2
  MaxBlocks = 2
  MaxBroken = 1
  MaxFailures = 1
  NoSocket = nosocket
  Reads = {r1}
  Prefetches = {p1, p2}
INVARIANTS
  SocketsPolled
PROPERTIES
  MessagesServed
  ServerStops
  CleanupSound
CHECK_DEADLOCK FALSE
