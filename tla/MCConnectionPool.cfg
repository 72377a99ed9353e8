SPECIFICATION Spec
CONSTANTS
  x1 = x1
  x2 = x2
  s1 = s1
  s2 = s2
  f1 = f1
  o1 = o1
  o2 = o2
  None = None
  Threads = {t1}
  Files = {f1}
  Servers = {s1, s2}
  Sockets = {x1, x2}
  serverOf <- TwoServers
  Openers = {o1, o2}
  fileOf <- OneFile
  Sizes = {1}
  MaxRetry = 1
SYMMETRY Symmetry
CHECK_DEADLOCK FALSE
INVARIANTS
  EntriesConserved
  NoLostWakeup
  OpenFailsOnlyIfAllFail
  PoolOutlivesTasks
