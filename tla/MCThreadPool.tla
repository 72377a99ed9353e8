----------------------------- MODULE MCThreadPool -----------------------------
(***************************************************************************)
(* The two parts of src/common that threads meet in, checked one at a      *)
(* time: two clients and the owner of a pool with two threads; and three   *)
(* threads on one lock, two of a kind against one of the other, and a      *)
(* third that arrives while two are undecided.                             *)
(***************************************************************************)
EXTENDS ThreadPool, ReaderWriterLock

MCInit == Init /\ LockInit

MCNext ==
  \/ LockInit /\ Next /\ UNCHANGED lockVars
  \/ Init /\ LockNext /\ UNCHANGED vars

MCSpec == MCInit /\ [][MCNext]_<<vars, lockVars>> /\ Progress /\ LockFairness
===============================================================================
