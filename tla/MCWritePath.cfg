SPECIFICATION FairSpec
CONSTANTS
  Clients = {c1, c2}
  Space = 2
  Compressing = {c1}
  CompThreads = 2
  RemoveOutput = FALSE
  MaxBytes = 2
  MaxSeeks = 0
  MaxBreaks = 0
INVARIANTS
  WritesFindTheirFile
PROPERTIES
  AppendsInOrder
  OnDiskAtLast
CHECK_DEADLOCK FALSE
