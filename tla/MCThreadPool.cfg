SPECIFICATION MCSpec
CONSTANTS
  Clients = {c1, c2}
  Owner = owner
  Workers = {w1, w2}
  MaxThreads = 2
  Tasks = {t1, t2}
  Repeating = {t1}
  MaxTurns = 1
  Patience = 2
  None = none
  Threads = {t1, t2, t3}
INVARIANTS
  ThreadsMatchUsers
  NoLostWakeup
  NothingForgotten
  MutualExclusion
PROPERTIES
  TerminateEnds
  TasksServed
  ImplementsLock
  WriterGetsIn
CHECK_DEADLOCK FALSE
