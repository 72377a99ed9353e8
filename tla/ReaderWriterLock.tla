--------------------------- MODULE ReaderWriterLock ---------------------------
(***************************************************************************)
(* The spinning reader-writer lock of src/common/ReaderWriterLock.cpp: one *)
(* ReaderWriterLock, or one entry of a MultiReaderWriterLock (the entries  *)
(* share nothing).  Every atomic load, fetch_add, fetch_sub, exchange and  *)
(* store is a step of its own, so the threads interleave exactly where the *)
(* code lets them.  pc[t] is where thread t is:                            *)
(*                                                                         *)
(*   idle     outside the lock                                             *)
(*   rSpin    readerLock, waiting for _writers = 0                         *)
(*   rAdd     readerLock, _writers was 0, about to count itself            *)
(*   rCheck   readerLock, counted, about to look at _writers again         *)
(*   rUndo    readerLock, a writer showed up, about to uncount itself      *)
(*   tAdd, tCheck, tUndo    the same places of tryReaderLock               *)
(*   reading  inside as a reader                                           *)
(*   wSpin    writerLock, exchanging _writers until it was 0               *)
(*   wDrain   writerLock or tryWriterLock, owns _writers, waits for the    *)
(*            readers to leave                                             *)
(*   cCheck   cowardlyTryWriterLock, owns _writers, looks at _readers once *)
(*   cUndo    cowardlyTryWriterLock, gives _writers back                   *)
(*   writing  inside as the writer                                         *)
(*                                                                         *)
(* Counters are naturals: the code's are 16 or 32 bits wide and count      *)
(* threads, so they cannot wrap with fewer than 2^16 threads.              *)
(***************************************************************************)
EXTENDS Naturals, FiniteSets

CONSTANT Threads

ASSUME ThreadsFinite == IsFiniteSet(Threads)

VARIABLES readers,   \* _readers
          writers,   \* _writers
          pc

lockVars == <<readers, writers, pc>>

PCs == {"idle", "rSpin", "rAdd", "rCheck", "rUndo", "tAdd", "tCheck", "tUndo",
        "reading", "wSpin", "wDrain", "cCheck", "cUndo", "writing"}

LockInit == /\ readers = 0
            /\ writers = 0
            /\ pc = [t \in Threads |-> "idle"]

Goto(t, from, to) == pc[t] = from /\ pc' = [pc EXCEPT ![t] = to]

-------------------------------------------------------------------------------
(* readerLock: the outer loop's entry and the spin on _writers.            *)
CallReaderLock(t) == Goto(t, "idle", "rSpin") /\ UNCHANGED <<readers, writers>>

(* Mutant: readerLock without its spin on _writers.                        *)
ReaderSeesNoWriterMutant(t) == /\ Goto(t, "rSpin", "rAdd")
                               /\ UNCHANGED <<readers, writers>>

ReaderSeesNoWriter(t) == /\ writers = 0
                         /\ Goto(t, "rSpin", "rAdd")
                         /\ UNCHANGED <<readers, writers>>

(* tryReaderLock: a single look; with a writer present it returns false    *)
(* and nothing changes.                                                    *)
CallTryReaderLock(t) == /\ writers = 0
                        /\ Goto(t, "idle", "tAdd")
                        /\ UNCHANGED <<readers, writers>>

(* _readers.fetch_add(1) *)
ReaderAdd(t) == /\ \/ Goto(t, "rAdd", "rCheck")
                   \/ Goto(t, "tAdd", "tCheck")
                /\ readers' = readers + 1
                /\ UNCHANGED writers

(* Mutant: the second look at _writers is left out.                        *)
ReaderEnterMutant(t) == /\ \/ Goto(t, "rCheck", "reading")
                           \/ Goto(t, "tCheck", "reading")
                        /\ UNCHANGED <<readers, writers>>

(* The second look at _writers finds none: the lock is held.               *)
ReaderEnter(t) == /\ writers = 0
                  /\ \/ Goto(t, "rCheck", "reading")
                     \/ Goto(t, "tCheck", "reading")
                  /\ UNCHANGED <<readers, writers>>

(* A writer came in between: the count has to be taken back,               *)
ReaderYield(t) == /\ writers # 0
                  /\ \/ Goto(t, "rCheck", "rUndo")
                     \/ Goto(t, "tCheck", "tUndo")
                  /\ UNCHANGED <<readers, writers>>

(* and then readerLock spins again, and tryReaderLock returns false.       *)
ReaderUndo(t) == /\ \/ Goto(t, "rUndo", "rSpin")
                    \/ Goto(t, "tUndo", "idle")
                 /\ readers' = readers - 1
                 /\ UNCHANGED writers

ReaderUnlock(t) == /\ Goto(t, "reading", "idle")
                   /\ readers' = readers - 1
                   /\ UNCHANGED writers

-------------------------------------------------------------------------------
CallWriterLock(t) == Goto(t, "idle", "wSpin") /\ UNCHANGED <<readers, writers>>

(* _writers.exchange(1) returned 0.  When it returns 1 the step changes    *)
(* nothing: the spinner stays, the two try operations return false.        *)
WriterAcquire(t) == /\ writers = 0
                    /\ writers' = 1
                    /\ \/ Goto(t, "wSpin", "wDrain")
                       \/ Goto(t, "idle", "wDrain")     \* tryWriterLock
                       \/ Goto(t, "idle", "cCheck")     \* cowardlyTryWriterLock
                    /\ UNCHANGED readers

(* Mutant: the writer does not wait for the readers.                       *)
WriterEnterMutant(t) == /\ \/ Goto(t, "wDrain", "writing")
                           \/ Goto(t, "cCheck", "writing")
                        /\ UNCHANGED <<readers, writers>>

WriterEnter(t) == /\ readers = 0
                  /\ \/ Goto(t, "wDrain", "writing")
                     \/ Goto(t, "cCheck", "writing")
                  /\ UNCHANGED <<readers, writers>>

CowardSeesReader(t) == /\ readers # 0
                       /\ Goto(t, "cCheck", "cUndo")
                       /\ UNCHANGED <<readers, writers>>

(* _writers.store(0): writerUnlock, and the coward giving up.              *)
WriterRelease(t) == /\ \/ Goto(t, "writing", "idle")
                       \/ Goto(t, "cUndo", "idle")
                    /\ writers' = 0
                    /\ UNCHANGED readers

-------------------------------------------------------------------------------
ReaderStep(t) == \/ ReaderSeesNoWriter(t) \/ ReaderAdd(t)  \/ ReaderEnter(t)
                 \/ ReaderYield(t)        \/ ReaderUndo(t) \/ ReaderUnlock(t)

WriterStep(t) == \/ WriterAcquire(t)    \/ WriterEnter(t)
                 \/ CowardSeesReader(t) \/ WriterRelease(t)

Call(t) == CallReaderLock(t) \/ CallTryReaderLock(t) \/ CallWriterLock(t)

LockNext == \E t \in Threads : Call(t) \/ ReaderStep(t) \/ WriterStep(t)

LockSpec == LockInit /\ [][LockNext]_lockVars

(* A thread that is inside a lock operation, or inside the lock, is        *)
(* scheduled again: std::this_thread::yield returns, and the critical      *)
(* sections of the callers end.  Nobody is obliged to call the lock.       *)
LockFairness == \A t \in Threads :
                  WF_lockVars(pc[t] # "idle" /\ (ReaderStep(t) \/ WriterStep(t)))

LockFairSpec == LockSpec /\ LockFairness

-------------------------------------------------------------------------------
LockTypeOK == /\ readers \in Nat
              /\ writers \in {0, 1}
              /\ pc \in [Threads -> PCs]

(* The threads _readers counts, and the threads that own _writers.         *)
Counted == {t \in Threads :
              pc[t] \in {"rCheck", "rUndo", "tCheck", "tUndo", "reading"}}
Owners  == {t \in Threads : pc[t] \in {"wDrain", "cCheck", "cUndo", "writing"}}

(* Mutual exclusion (readerLock 99-110 against writerLock 116-124): while a*)
(* thread is inside as the writer no other thread is inside at all.        *)
MutualExclusion ==
  \A t, u \in Threads :
     (pc[t] = "writing" /\ u # t) => pc[u] \notin {"reading", "writing"}

(* _readers is exactly the number of threads that counted themselves and   *)
(* have not left: no path of readerLock, tryReaderLock (169-178) or        *)
(* readerUnlock forgets its fetch_sub or does it twice, however many       *)
(* writers interrupt it.                                                   *)
ReadersExact == readers = Cardinality(Counted)

(* _writers is 1 exactly while one thread owns it: the failed exchanges of *)
(* spinning writers never create an owner, and the coward's store(0)       *)
(* (157-167) never takes the flag away from another owner.                 *)
OneOwner == /\ writers = 1 <=> Owners # {}
            /\ \A t, u \in Owners : t = u

(* The inductive invariant: mutual exclusion follows from the two counters *)
(* being exact, and each counter stays exact only next to the other two.   *)
LockIInv == LockTypeOK /\ ReadersExact /\ OneOwner /\ MutualExclusion

(* A writer that has the flag gets in: readers that arrive later see       *)
(* _writers and step back, so they cannot keep the writer out forever      *)
(* (writerLock 121-123).                                                   *)
WriterGetsIn == \A t \in Threads : pc[t] = "wDrain" ~> pc[t] = "writing"

(* The lock implements the abstract one: each step enters or leaves as the *)
(* abstract lock allows, or is internal.                                   *)
Abs == INSTANCE ReaderWriterLockSpec
         WITH inRead  <- {t \in Threads : pc[t] = "reading"},
              inWrite <- {t \in Threads : pc[t] = "writing"}

ImplementsLock == Abs!AbsSpec
===============================================================================
