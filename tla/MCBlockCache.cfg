SPECIFICATION MCSpec
CONSTANTS
  p1 = p1
  p2 = p2
  t1 = t1
  t2 = t2
  m1 = m1
  m2 = m2
  shm = shm
  Blocks = {b1, b2}
  Reqs <- ThreeReq
  Procs = {p1, p2}
  Readers = {t1, t2}
  Prefetchers = {t2}
  proc <- MCProc
  Caches = {m1, m2, shm}
  top <- TwoLevelTop
  nextLevel <- TwoLevelNext
  Net = Net
  Base = Base
  Bins = {bin}
  BinOf <- MCBin
  Assoc = 1
  NetFaults = {"null", "fail"}
  None = None
SYMMETRY Symmetry
INVARIANTS
  HeldDataIntact
  NeverExits
