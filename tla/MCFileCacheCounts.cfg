SPECIFICATION MCSpec
CONSTANTS
  p1 = p1
  p2 = p2
  p3 = p3
  n1 = n1
  n2 = n2
  r1 = r1
  r2 = r2
  r3 = r3
  r4 = r4
  a = a
  b = b
  None = None
  Procs <- MCProcs
  Nodes = {n1, n2}
  node <- MCNode
  LockKinds <- BothKinds
  Reqs <- MCReqs
  proc <- MCProc
  Blocks = {a, b}
  block <- MCBlock
  Assoc = 1
  MaxCrashes = 1
INVARIANTS
  CountCoversUsers
CHECK_DEADLOCK FALSE
