SPECIFICATION CollidingSpec
CONSTANTS
  p1 = p1
  p2 = p2
  t1 = t1
  t2 = t2
  m1 = m1
  m2 = m2
  shm = shm
  Blocks = {b1, b2}
  Reqs <- FourReq
  Procs = {p1, p2}
  Readers = {t1, t2}
  Prefetchers = {}
  proc <- MCProc
  Caches = {shm}
  top <- OneLevelTop
  nextLevel <- OneLevelNext
  Net = Net
  Base = Base
  Bins = {bin}
  BinOf <- MCBin
  Assoc = 2
  NetFaults = {"fail"}
  None = None
INVARIANT
  OneEntryPerBlock
PROPERTY
  EveryRequestReleased
CHECK_DEADLOCK FALSE
