------------------------- MODULE ReaderWriterLockSpec -------------------------
(***************************************************************************)
(* What a reader-writer lock promises: any number of threads may be inside *)
(* as readers, or one thread as the writer, never both.  This is the       *)
(* contract the callers of ReaderWriterLock and MultiReaderWriterLock rely *)
(* on (the bins of NewBoundedCache, the file maps of the caches, the       *)
(* Trackable map); ReaderWriterLock.tla is shown to implement it.          *)
(***************************************************************************)
CONSTANT Threads

VARIABLES inRead,   \* the threads inside as readers
          inWrite   \* the threads inside as the writer

absVars == <<inRead, inWrite>>

AbsInit == inRead = {} /\ inWrite = {}

EnterRead(t) == /\ t \notin inRead
                /\ inWrite = {}
                /\ inRead' = inRead \cup {t}
                /\ UNCHANGED inWrite

EnterWrite(t) == /\ inRead = {}
                 /\ inWrite = {}
                 /\ inWrite' = {t}
                 /\ UNCHANGED inRead

LeaveRead(t) == /\ t \in inRead
                /\ inRead' = inRead \ {t}
                /\ UNCHANGED inWrite

LeaveWrite(t) == /\ t \in inWrite
                 /\ inWrite' = inWrite \ {t}
                 /\ UNCHANGED inRead

AbsNext == \E t \in Threads : \/ EnterRead(t)  \/ LeaveRead(t)
                              \/ EnterWrite(t) \/ LeaveWrite(t)

AbsSpec == AbsInit /\ [][AbsNext]_absVars
===============================================================================
