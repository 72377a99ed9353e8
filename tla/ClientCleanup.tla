----------------------------- MODULE ClientCleanup -----------------------------
(***************************************************************************)
(* The end of a client: tazerCleanup deletes the caches, then the pool     *)
(* that decompresses and the pool that transfers, while prefetches,        *)
(* transfers and writes to the caches that the program asked for may still *)
(* be under way.  Each of them uses what others provide: a prefetch waits  *)
(* for its transfer, the transfer gives its data to a decompression and    *)
(* both report to the network cache, and a write goes down all caches.     *)
(*                                                                         *)
(* Each pool has one thread (Config.h:108-110, Lib.cpp:117).  terminate is *)
(* what ThreadPool shows it to be: it waits for the queue as long as that  *)
(* makes progress, stops the threads, and joins them.  A block is one      *)
(* request, asked for by a read of the program's one thread or by a        *)
(* prefetch, and transfers succeed at last.                                *)
(***************************************************************************)
EXTENDS FiniteSets

CONSTANTS Reads, Prefetches

ASSUME CleanupConstants ==
  IsFiniteSet(Reads) /\ IsFiniteSet(Prefetches) /\ Reads \cap Prefetches = {}

Jobs == Reads \cup Prefetches

VARIABLES
  asker,      \* where the read or the prefetch of a block is
  transfer,   \* its task in InputFile::_transferPool
  unpack,     \* its task in InputFile::_decompressionPool
  writeBack,  \* its task in the cache's _writePool
  ready,      \* ready of its request
  objects,    \* what was not deleted yet
  cleanup     \* where the program's thread is in tazerCleanup

cleanupVars == <<asker, transfer, unpack, writeBack, ready, objects, cleanup>>

Objects == {"prefetchPool", "writePool", "caches", "decompressionPool", "transferPool"}

Every(x) == [j \in Jobs |-> x]

CleanupInit ==
  /\ asker = Every("new") /\ transfer = Every("none") /\ unpack = Every("none")
  /\ writeBack = Every("none") /\ ready = Every(FALSE)
  /\ objects = Objects /\ cleanup = "run"

Put(f, j, x) == [f EXCEPT ![j] = x]

(* What a thread works at: the one of a pool takes no other task.          *)
Asking == {j \in Jobs : asker[j] \in {"ask", "test", "wait"}}
Busy(task) == \E j \in Jobs : task[j] \in {"run", "tail"}
Queue(task) == {j \in Jobs : task[j] = "queued"}

-------------------------------------------------------------------------------
(* The program reads, and what it reads is followed by prefetches.         *)
StartRead(j) ==
  /\ cleanup = "run" /\ j \in Reads /\ asker[j] = "new" /\ Asking \cap Reads = {}
  /\ asker' = Put(asker, j, "ask")
  /\ UNCHANGED <<transfer, unpack, writeBack, ready, objects, cleanup>>

AddPrefetch(j) ==
  /\ cleanup = "run" /\ j \in Prefetches /\ asker[j] = "new"
  /\ asker' = Put(asker, j, "queued")
  /\ UNCHANGED <<transfer, unpack, writeBack, ready, objects, cleanup>>

(* When the pool is stopped its thread may still take a task, if it looked *)
(* at _alive before.                                                       *)
TakePrefetch(j) ==
  /\ "prefetchPool" \in objects /\ asker[j] = "queued" /\ Asking \cap Prefetches = {}
  /\ asker' = Put(asker, j, "ask")
  /\ UNCHANGED <<transfer, unpack, writeBack, ready, objects, cleanup>>

(* bufferWrite, with what was asked for.                                   *)
BufferWrite(j) ==
  /\ asker' = Put(asker, j, "end") /\ writeBack' = Put(writeBack, j, "queued")

(* requestBlock: some cache has the block, or a transfer is queued.        *)
Ask(j) ==
  /\ asker[j] = "ask"
  /\ \/ BufferWrite(j) /\ UNCHANGED transfer
     \/ /\ asker' = Put(asker, j, "test") /\ transfer' = Put(transfer, j, "queued")
        /\ UNCHANGED writeBack
  /\ UNCHANGED <<unpack, ready, objects, cleanup>>

(* Is it there already?  Otherwise both futures are waited for.            *)
Test(j) ==
  /\ asker[j] = "test"
  /\ \/ ready[j] /\ BufferWrite(j)
     \/ ~ready[j] /\ asker' = Put(asker, j, "wait") /\ UNCHANGED writeBack
  /\ UNCHANGED <<transfer, unpack, ready, objects, cleanup>>

Delivered(j) == transfer[j] = "done" /\ unpack[j] \in {"none", "done"}

GetBlock(j) ==
  /\ asker[j] = "wait" /\ Delivered(j) /\ BufferWrite(j)
  /\ UNCHANGED <<transfer, unpack, ready, objects, cleanup>>

-------------------------------------------------------------------------------
(* The tasks.  A read goes before a prefetch.  A transfer that has its     *)
(* block makes the request ready, or leaves that to the decompression; it  *)
(* then still gives its connection back, and counts.                       *)
TakeTransfer(j) ==
  /\ "transferPool" \in objects /\ ~Busy(transfer) /\ j \in Queue(transfer)
  /\ j \in Reads \/ Queue(transfer) \cap Reads = {}
  /\ transfer' = Put(transfer, j, "run")
  /\ UNCHANGED <<asker, unpack, writeBack, ready, objects, cleanup>>

Receive(j) ==
  /\ transfer[j] = "run" /\ transfer' = Put(transfer, j, "tail")
  /\ \/ ready' = Put(ready, j, TRUE) /\ UNCHANGED unpack
     \/ unpack' = Put(unpack, j, "queued") /\ UNCHANGED ready
  /\ UNCHANGED <<asker, writeBack, objects, cleanup>>

EndTransfer(j) ==
  /\ transfer[j] = "tail" /\ transfer' = Put(transfer, j, "done")
  /\ UNCHANGED <<asker, unpack, writeBack, ready, objects, cleanup>>

TakeUnpack(j) ==
  /\ "decompressionPool" \in objects /\ ~Busy(unpack) /\ j \in Queue(unpack)
  /\ unpack' = Put(unpack, j, "run")
  /\ UNCHANGED <<asker, transfer, writeBack, ready, objects, cleanup>>

Decompress(j) ==
  /\ unpack[j] = "run" /\ unpack' = Put(unpack, j, "tail")
  /\ ready' = Put(ready, j, TRUE)
  /\ UNCHANGED <<asker, transfer, writeBack, objects, cleanup>>

EndUnpack(j) ==
  /\ unpack[j] = "tail" /\ unpack' = Put(unpack, j, "done")
  /\ UNCHANGED <<asker, transfer, writeBack, ready, objects, cleanup>>

TakeWrite(j) ==
  /\ "writePool" \in objects /\ ~Busy(writeBack) /\ j \in Queue(writeBack)
  /\ writeBack' = Put(writeBack, j, "run")
  /\ UNCHANGED <<asker, transfer, unpack, ready, objects, cleanup>>

EndWrite(j) ==
  /\ writeBack[j] = "run" /\ writeBack' = Put(writeBack, j, "done")
  /\ UNCHANGED <<asker, transfer, unpack, ready, objects, cleanup>>

-------------------------------------------------------------------------------
(* tazerCleanup.                                                           *)
Cleans(from, to) ==
  /\ cleanup = from /\ cleanup' = to
  /\ UNCHANGED <<asker, transfer, unpack, writeBack, ready>>

Deletes(gone) == objects' = objects \ gone

Exit == Cleans("run", "settle") /\ Asking \cap Reads = {} /\ UNCHANGED objects

(* ~Cache of the base cache: _outstandingWrites, ...                       *)
Settled == \A j \in Jobs : writeBack[j] \notin {"queued", "run"}

Settle == Cleans("settle", "drain") /\ Settled /\ UNCHANGED objects

(* ... _prefetchPool->terminate, whose wait for the queue is given up      *)
(* after ten seconds without progress, ...                                 *)
DrainPrefetches == Cleans("drain", "join") /\ UNCHANGED objects

(* Mutant: the thread that prefetches is not joined.                       *)
JoinPrefetchesMutant ==
  Cleans("join", "settle again") /\ Deletes({"prefetchPool"})

JoinPrefetches ==
  /\ Cleans("join", "settle again") /\ Asking = {} /\ Deletes({"prefetchPool"})

(* ... _outstandingWrites once more, _writePool->terminate, ...            *)
SettleAgain == Cleans("settle again", "levels") /\ Settled /\ Deletes({"writePool"})

(* ... and the levels, one after the other.                                *)
DeleteLevels == Cleans("levels", "decompression") /\ Deletes({"caches"})

(* The pools' destructors wait for the tasks that run, not for all others. *)
DeletePool(task, pool, from, to) == Cleans(from, to) /\ ~Busy(task) /\ Deletes({pool})

DeletePools ==
  \/ DeletePool(unpack, "decompressionPool", "decompression", "transfers")
  \/ DeletePool(transfer, "transferPool", "transfers", "gone")

Cleanup ==
  \/ Settle \/ DrainPrefetches \/ JoinPrefetches \/ SettleAgain \/ DeleteLevels
  \/ DeletePools

-------------------------------------------------------------------------------
Asker(j) == Ask(j) \/ Test(j) \/ GetBlock(j)
TransferStep(j) == TakeTransfer(j) \/ Receive(j) \/ EndTransfer(j)
UnpackStep(j) == TakeUnpack(j) \/ Decompress(j) \/ EndUnpack(j)
WriteStep(j) == TakeWrite(j) \/ EndWrite(j)

CleanupNext ==
  \/ \E j \in Jobs :
       \/ StartRead(j) \/ AddPrefetch(j) \/ TakePrefetch(j) \/ Asker(j)
       \/ TransferStep(j) \/ UnpackStep(j) \/ WriteStep(j)
  \/ Exit \/ Cleanup

(* The threads run; a program need not read, nor end.                      *)
CleanupFair ==
  /\ WF_cleanupVars(Cleanup)
  /\ \A j \in Jobs :
       /\ WF_cleanupVars(Asker(j)) /\ WF_cleanupVars(TransferStep(j))
       /\ WF_cleanupVars(UnpackStep(j)) /\ WF_cleanupVars(WriteStep(j))

CleanupSpec == CleanupInit /\ [][CleanupNext]_cleanupVars /\ CleanupFair

-------------------------------------------------------------------------------
(* Nothing is deleted under those who use it: neither those who ask, nor   *)
(* the tasks that they or other tasks added.  A transfer or decompression  *)
(* whose request was found ready at once may still report to the caches    *)
(* when they are gone; every other one is waited for.                      *)
Uses(j) ==
  (IF asker[j] \in {"test", "wait"} \/ (asker[j] = "ask" /\ j \in Reads)
   THEN Objects \ {"prefetchPool"} ELSE {})
  \cup (IF asker[j] = "ask" THEN {"caches", "writePool", "transferPool"} ELSE {})
  \cup (IF transfer[j] \in {"queued", "run"}
        THEN {"transferPool", "decompressionPool", "caches"} ELSE {})
  \cup (IF unpack[j] \in {"queued", "run"} THEN {"decompressionPool", "caches"} ELSE {})
  \cup (IF writeBack[j] \in {"queued", "run"} THEN {"writePool", "caches"} ELSE {})
  \cup (IF "tail" \in {transfer[j], unpack[j]} /\ asker[j] # "end" THEN {"caches"} ELSE {})

UsersOutlived == \A j \in Jobs : Uses(j) \subseteq objects

(* And the end comes, whatever was asked for before: nobody waits for a    *)
(* task of a pool that is gone.                                            *)
CleanupSound ==
  [](UsersOutlived /\ (cleanup = "settle" => <>(cleanup = "gone")))
===============================================================================
