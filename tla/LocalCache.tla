-------------------------------- MODULE LocalCache --------------------------------
(***************************************************************************)
(* Blocks of files on a local disk, read through caches in memory: the     *)
(* server's way to the files that it serves (ServeFile::transferBlk), and  *)
(* a client's way to its own (LocalFile::read).                            *)
(*                                                                         *)
(* Each process has a MemoryCache, over a SharedMemoryCache that the       *)
(* processes of a node have in common, over a LocalFileCache of its own;   *)
(* one bin of each is modelled.  These are the caches under `deprecated',  *)
(* which the server uses, and not those of BlockCache.tla: they release    *)
(* what they reserved, so that entries are given up here.  The bin's lock  *)
(* is held for a whole read or write of a level, which is one action; what *)
(* looks at a bin without it, a wait or the use of the data, has actions   *)
(* of its own.                                                             *)
(*                                                                         *)
(* A request is made for a user of the file: a client that opened it on    *)
(* the server, or a descriptor.  A user closes the file when its requests  *)
(* were answered; the write pool may still be busy with them then.  Files  *)
(* do not change, and the sockets do not break (see ServerConnections.tla).*)
(***************************************************************************)
EXTENDS Integers, FiniteSets

CONSTANTS Procs, Caches,
          top, next,         \* the first level of a process, the one below
          Disk,              \* the last level, LocalFileCache
          Users, proc,       \* users of files, and the process of each
          Blocks, file,      \* blocks, and the file of each
          Reqs, user, block, \* requests: for whom, and for which block
          Assoc,             \* entries in a bin
          MaxCrashes,        \* processes that are killed (a bound)
          None               \* no block, no request, no level

Ways  == 1 .. Assoc
Files == {file[b] : b \in Blocks}

ASSUME LocalCacheConstants ==
  /\ top \in [Procs -> Caches] /\ next \in [Caches -> Caches \cup {Disk}]
  /\ proc \in [Users -> Procs] /\ user \in [Reqs -> Users] /\ block \in [Reqs -> Blocks]
  /\ Assoc \in Nat \ {0} /\ MaxCrashes \in Nat
  /\ Disk \notin Caches /\ None \notin Caches \cup Blocks \cup Reqs \cup {Disk}
  /\ IsFiniteSet(Reqs)

(* A cache asks the ones that were added below it (addCacheLevel), so that *)
(* a request comes to each of them at most once on its way down.           *)
ASSUME LevelsDescend ==
  \E depth \in [Caches \cup {Disk} -> 0 .. Cardinality(Caches)] :
    \A c \in Caches : depth[next[c]] < depth[c]

VARIABLES
  bin,     \* _blkIndex of a cache
  data,    \* _blocks of a cache: whose data is in a slot
  stream,  \* _fstreamMap of a process: where its files are read, and by whom
  status,  \* a user, before, while and after it has the file open
  req,     \* the requests
  killed   \* processes that were killed

vars == <<bin, data, stream, status, req, killed>>

Empty  == [blk |-> None, status |-> "EMPTY", active |-> 0]
Closed == [open |-> FALSE, pos |-> None, lock |-> None]
NewReq == [pc |-> "idle", level |-> None, reserved |-> {}, origin |-> None,
           slot |-> 1, buffer |-> None]

Init ==
  /\ bin = [c \in Caches |-> [i \in Ways |-> Empty]]
  /\ data = [c \in Caches |-> [i \in Ways |-> None]]
  /\ stream = [p \in Procs |-> [f \in Files |-> Closed]]
  /\ status = [u \in Users |-> "new"]
  /\ req = [r \in Reqs |-> NewReq] /\ killed = {}

-------------------------------------------------------------------------------
(* Files are opened and closed.                                            *)

FileOf(u) == {file[block[r]] : r \in {q \in Reqs : user[q] = u}}
Having(p, f) == {u \in Users : proc[u] = p /\ status[u] = "open" /\ f \in FileOf(u)}

(* The first user of a process makes the ServeFile, or the LocalFile, and  *)
(* with it the stream (addFile).                                           *)
OpenFile(u) ==
  /\ status[u] = "new" /\ proc[u] \notin killed
  /\ status' = [status EXCEPT ![u] = "open"]
  /\ stream' = [stream EXCEPT ![proc[u]] =
       [f \in Files |-> IF f \in FileOf(u) THEN [@[f] EXCEPT !.open = TRUE] ELSE @[f]]]
  /\ UNCHANGED <<bin, data, req, killed>>

Answered(u) == \A r \in Reqs : user[r] = u => req[r].pc \in {"idle", "write", "done"}

(* Mutant for StreamOpenWhileRead: every user removes the file.            *)
CloseFileMutant(u) ==
  /\ status[u] = "open" /\ proc[u] \notin killed /\ Answered(u)
  /\ status' = [status EXCEPT ![u] = "closed"]
  /\ stream' = [stream EXCEPT ![proc[u]] =
       [f \in Files |-> IF f \in FileOf(u) THEN Closed ELSE @[f]]]
  /\ UNCHANGED <<bin, data, req, killed>>

(* The last one destroys it, and the stream is closed and deleted          *)
(* (removeFile).                                                           *)
CloseFile(u) ==
  /\ status[u] = "open" /\ proc[u] \notin killed /\ Answered(u)
  /\ status' = [status EXCEPT ![u] = "closed"]
  /\ stream' = [stream EXCEPT ![proc[u]] =
       [f \in Files |-> IF Having(proc[u], f) = {u} THEN Closed ELSE @[f]]]
  /\ UNCHANGED <<bin, data, req, killed>>

-------------------------------------------------------------------------------
(* What the levels of a cache do for a request, with the bin locked.       *)

ProcOf(r) == proc[user[r]]
At(r, pc) == req[r].pc = pc /\ ProcOf(r) \notin killed

(* getBlockIndex.                                                          *)
Hits(c, b) == {i \in Ways : bin[c][i].blk = b /\ bin[c][i].status = "AVAIL"}

(* Mutant for DataHeld: anyUsers is not asked.                             *)
OldestMutant(c, b) ==
  LET stop == {i \in Ways : bin[c][i].blk = b \/ bin[c][i].status = "EMPTY"}
  IN  IF stop # {} THEN stop ELSE {i \in Ways : bin[c][i].status = "AVAIL"}

(* oldestBlockIndex: the first entry that is empty or has the block, or    *)
(* else, whatever its age, one that is available and has no users.         *)
Oldest(c, b) ==
  LET stop == {i \in Ways : bin[c][i].blk = b \/ bin[c][i].status = "EMPTY"}
  IN  IF stop # {} THEN {i \in stop : \A j \in stop : i <= j}
      ELSE {i \in Ways : bin[c][i].status = "AVAIL" /\ bin[c][i].active = 0}

Same(c, i, r) == bin[c][i].blk = block[r]

(* The data pointer of a request leads into the slot of a cache, or to a   *)
(* buffer of its own.                                                      *)
Content(r) == IF req[r].origin = Disk THEN req[r].buffer
                                      ELSE data[req[r].origin][req[r].slot]

Reading(r, c) == At(r, "read") /\ req[r].level = c /\ c # Disk

(* The entry i of c gets a user, and the request the duty to release it.   *)
Counted(r, c, i, entry) ==
  bin' = [bin EXCEPT ![c][i] = [entry EXCEPT !.active = @ + 1]]
Reserving(r, c, changes) ==
  req' = [req EXCEPT ![r] = [changes EXCEPT !.reserved = @ \cup {c}]]

(* requestBlock.                                                           *)
RequestBlock(r) ==
  /\ At(r, "idle") /\ status[user[r]] = "open"
  /\ req' = [req EXCEPT ![r].pc = "read", ![r].level = top[ProcOf(r)]]
  /\ UNCHANGED <<bin, data, stream, status, killed>>

(* readBlock, hit: the request is ready, and points into the slot.         *)
ReadHit(r, c) ==
  /\ Reading(r, c)
  /\ \E i \in Hits(c, block[r]) :
       /\ Counted(r, c, i, bin[c][i])
       /\ Reserving(r, c, [req[r] EXCEPT !.pc = "ready", !.origin = c, !.slot = i])
  /\ UNCHANGED <<data, stream, status, killed>>

(* blockReserve: an entry is reserved, the next level is asked.            *)
ReadMiss(r, c) ==
  /\ Reading(r, c)
  /\ \E i \in Oldest(c, block[r]) :
       /\ ~Same(c, i, r)
       /\ Counted(r, c, i, [blk |-> block[r], status |-> "RES", active |-> bin[c][i].active])
       /\ Reserving(r, c, [req[r] EXCEPT !.level = next[c]])
  /\ UNCHANGED <<data, stream, status, killed>>

(* Somebody else reserved it: wait for the entry.                          *)
ReadWait(r, c) ==
  /\ Reading(r, c)
  /\ \E i \in Oldest(c, block[r]) :
       /\ Same(c, i, r) /\ bin[c][i].status = "RES"
       /\ Counted(r, c, i, bin[c][i])
       /\ Reserving(r, c, [req[r] EXCEPT !.pc = "wait", !.slot = i])
  /\ UNCHANGED <<data, stream, status, killed>>

(* No space: the next level is asked, without a reservation.               *)
ReadFull(r, c) ==
  /\ Reading(r, c) /\ Oldest(c, block[r]) = {}
  /\ req' = [req EXCEPT ![r].level = next[c]]
  /\ UNCHANGED <<bin, data, stream, status, killed>>

(* blockAvailable, without the lock.                                       *)
Poll(r) ==
  /\ At(r, "wait") /\ bin[req[r].level][req[r].slot].status = "AVAIL"
  /\ req' = [req EXCEPT ![r].pc = "ready", ![r].origin = req[r].level]
  /\ UNCHANGED <<bin, data, stream, status, killed>>

(* The wait was too long: _lastLevel is asked.                             *)
PollTimeout(r) ==
  /\ At(r, "wait") /\ req' = [req EXCEPT ![r].pc = "read", ![r].level = Disk]
  /\ UNCHANGED <<bin, data, stream, status, killed>>

-------------------------------------------------------------------------------
(* LocalFileCache: all readers of a file share its stream and the lock     *)
(* that goes with it.  Both are looked up under another lock, and used     *)
(* without it.                                                             *)

StreamOf(r) == stream[ProcOf(r)][file[block[r]]]

FindStream(r) ==
  /\ At(r, "read") /\ req[r].level = Disk
  /\ req' = [req EXCEPT ![r].pc = "seek"]
  /\ UNCHANGED <<bin, data, stream, status, killed>>

(* getBlockData.                                                           *)
SeekStream(r) ==
  /\ At(r, "seek") /\ StreamOf(r).lock = None
  /\ stream' = [stream EXCEPT ![ProcOf(r)][file[block[r]]] =
                  [@ EXCEPT !.lock = r, !.pos = block[r]]]
  /\ req' = [req EXCEPT ![r].pc = "fetch"]
  /\ UNCHANGED <<bin, data, status, killed>>

ReadStream(r) ==
  /\ At(r, "fetch")
  /\ req' = [req EXCEPT ![r].pc = "ready", ![r].origin = Disk,
                        ![r].buffer = StreamOf(r).pos]
  /\ stream' = [stream EXCEPT ![ProcOf(r)][file[block[r]]].lock = None]
  /\ UNCHANGED <<bin, data, status, killed>>

-------------------------------------------------------------------------------
(* The data is sent, or copied; the write pool gets the request.           *)
BufferWrite(r) ==
  /\ At(r, "ready")
  /\ req' = [req EXCEPT ![r].pc = "write", ![r].level = top[ProcOf(r)]]
  /\ UNCHANGED <<bin, data, stream, status, killed>>

Writing(r, c) == At(r, "write") /\ req[r].level = c /\ c # Disk

Release(r, c) == IF c \in req[r].reserved THEN 1 ELSE 0
Onward(r, c) ==
  req' = [req EXCEPT ![r].reserved = @ \ {c}, ![r].level = next[c]]

(* writeBlock of the cache that had it: the request is deleted.            *)
WriteOrigin(r, c) ==
  /\ Writing(r, c) /\ req[r].origin = c
  /\ \E i \in Hits(c, block[r]) :
       bin' = [bin EXCEPT ![c][i].active = @ - Release(r, c)]
  /\ req' = [req EXCEPT ![r].reserved = @ \ {c}, ![r].pc = "done"]
  /\ UNCHANGED <<data, stream, status, killed>>

(* It is here already.                                                     *)
WritePresent(r, c) ==
  /\ Writing(r, c) /\ req[r].origin # c
  /\ \E i \in Oldest(c, block[r]) :
       /\ Same(c, i, r) /\ bin[c][i].status = "AVAIL"
       /\ bin' = [bin EXCEPT ![c][i].active = @ - Release(r, c)]
  /\ Onward(r, c)
  /\ UNCHANGED <<data, stream, status, killed>>

(* Mutant for EveryRequestAnswered: the entry stays BLK_WR.                *)
WriteEntryMutant(r, c) ==
  /\ Writing(r, c) /\ req[r].origin # c
  /\ \E i \in Oldest(c, block[r]) :
       LET found == Same(c, i, r)
       IN  /\ found => bin[c][i].status = "RES"
           /\ data' = [data EXCEPT ![c][i] = Content(r)]
           /\ bin' = [bin EXCEPT ![c][i] =
                [blk |-> block[r], status |-> "RES",
                 active |-> IF found THEN @.active - Release(r, c) ELSE @.active]]
  /\ Onward(r, c)
  /\ UNCHANGED <<stream, status, killed>>

(* It was reserved, or there is space: the data is copied (setBlockData).  *)
(* Only a reservation that is found is released.                           *)
WriteEntry(r, c) ==
  /\ Writing(r, c) /\ req[r].origin # c
  /\ \E i \in Oldest(c, block[r]) :
       LET found == Same(c, i, r)
       IN  /\ found => bin[c][i].status = "RES"
           /\ data' = [data EXCEPT ![c][i] = Content(r)]
           /\ bin' = [bin EXCEPT ![c][i] =
                [blk |-> block[r], status |-> "AVAIL",
                 active |-> IF found THEN @.active - Release(r, c) ELSE @.active]]
  /\ Onward(r, c)
  /\ UNCHANGED <<stream, status, killed>>

WriteFull(r, c) ==
  /\ Writing(r, c) /\ req[r].origin # c /\ Oldest(c, block[r]) = {}
  /\ Onward(r, c)
  /\ UNCHANGED <<bin, data, stream, status, killed>>

(* LocalFileCache::writeBlock deletes its buffer and the request.          *)
WriteDisk(r) ==
  /\ At(r, "write") /\ req[r].level = Disk
  /\ req' = [req EXCEPT ![r].pc = "done", ![r].buffer = None]
  /\ UNCHANGED <<bin, data, stream, status, killed>>

(* A process is killed: what it has in shared memory stays as it is.       *)
Kill(p) ==
  /\ p \notin killed /\ Cardinality(killed) < MaxCrashes
  /\ killed' = killed \cup {p}
  /\ UNCHANGED <<bin, data, stream, status, req>>

-------------------------------------------------------------------------------
ReadLevel(r, c) == ReadHit(r, c) \/ ReadMiss(r, c) \/ ReadWait(r, c) \/ ReadFull(r, c)
WriteLevel(r, c) == \/ WriteOrigin(r, c) \/ WritePresent(r, c) \/ WriteEntry(r, c)
                    \/ WriteFull(r, c)

(* The thread that serves or makes a request, and the write pool.          *)
Step(r) ==
  \/ \E c \in Caches : ReadLevel(r, c) \/ WriteLevel(r, c)
  \/ Poll(r) \/ FindStream(r) \/ ReadStream(r) \/ BufferWrite(r) \/ WriteDisk(r)

Next ==
  \/ \E u \in Users : OpenFile(u) \/ CloseFile(u)
  \/ \E r \in Reqs : RequestBlock(r) \/ PollTimeout(r) \/ SeekStream(r) \/ Step(r)
  \/ \E p \in Procs : Kill(p)

Spec == Init /\ [][Next]_vars

(* Threads go on, and get the lock of a stream in the end.  The timeout is *)
(* only counted on after a process was killed.                             *)
FairSpec ==
  /\ Spec
  /\ \A r \in Reqs : /\ WF_vars(Step(r)) /\ SF_vars(SeekStream(r))
                     /\ WF_vars(killed # {} /\ PollTimeout(r))
-------------------------------------------------------------------------------
(* Properties.                                                             *)

(* Every variable keeps its type.                                          *)
TypeOK ==
  /\ bin \in [Caches -> [Ways -> [blk : Blocks \cup {None}, active : Nat,
                                  status : {"EMPTY", "RES", "AVAIL"}]]]
  /\ data \in [Caches -> [Ways -> Blocks \cup {None}]]
  /\ stream \in [Procs -> [Files -> [open : BOOLEAN, pos : Blocks \cup {None},
                                     lock : Reqs \cup {None}]]]
  /\ status \in [Users -> {"new", "open", "closed"}] /\ killed \subseteq Procs
  /\ req \in [Reqs -> [pc : {"idle", "read", "wait", "seek", "fetch", "ready", "write", "done"},
                       level : Caches \cup {Disk, None}, reserved : SUBSET Caches,
                       origin : Caches \cup {Disk, None}, slot : Ways,
                       buffer : Blocks \cup {None}]]

(* From the moment a request is ready until the caches are done with it,   *)
(* its pointer leads to its own block: while the answer is compressed and  *)
(* sent, and while it is copied from one level into another.  The pointer  *)
(* may lead into a slot of memory that other processes use.                *)
AnswersOwnBlock ==
  \A r \in Reqs : req[r].pc \in {"ready", "write"} => Content(r) = block[r]

(* activeCnt is the number of requests that reserved the entry and did not *)
(* release it yet, those of killed processes included: what a request      *)
(* reserved is there until it is released, whoever wrote the block, and    *)
(* whether it was a hit, a wait, a timeout or a full bin on another level. *)
Holders(c, i) == {r \in Reqs : c \in req[r].reserved /\ Same(c, i, r)}
CountExact ==
  /\ \A c \in Caches, i \in Ways : bin[c][i].active = Cardinality(Holders(c, i))
  /\ \A r \in Reqs : \A c \in req[r].reserved : \E i \in Ways : Same(c, i, r)

(* A request has its data for as long as it uses it, because it is counted *)
(* for exactly that long where the data is.                                *)
DataHeld == AnswersOwnBlock /\ CountExact

(* A stream that was looked up is not closed and deleted before it was     *)
(* used, although nothing counts its readers: another user of the file may *)
(* close it at any time.                                                   *)
StreamOpenWhileRead ==
  \A r \in Reqs : req[r].pc \in {"seek", "fetch"} => StreamOf(r).open

(* A block that is asked for is answered, without anybody's timeout unless *)
(* a process was killed: the reserved entry that it waits for is filled by *)
(* a request that waits for nobody, or for an entry of a lower level.      *)
EveryRequestAnswered ==
  \A r \in Reqs : At(r, "read") ~> (At(r, "write") \/ ProcOf(r) \in killed)
===============================================================================
