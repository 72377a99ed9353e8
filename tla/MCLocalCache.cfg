SPECIFICATION FairSpec
CONSTANTS
  server = server
  client = client
  u1 = u1
  u2 = u2
  u3 = u3
  ms = ms
  mc = mc
  shm = shm
  a = a
  b = b
  r1 = r1
  r2 = r2
  r3 = r3
  Procs = {server, client}
  Caches = {ms, mc, shm}
  top <- MCTop
  next <- MCNext
  Disk = Disk
  Users = {u1, u2, u3}
  proc <- MCProc
  Blocks = {a, b}
  file <- MCFile
  Reqs = {r1, r2, r3}
  user <- MCUser
  block <- MCBlock
  Assoc = 1
  MaxCrashes = 1
  None = None
INVARIANTS
  DataHeld
  StreamOpenWhileRead
PROPERTY
  EveryRequestAnswered
CHECK_DEADLOCK FALSE
