------------------------------- MODULE BlockCache -------------------------------
(***************************************************************************)
(* The read path of the client: InputFile::read and Cache::prefetch ask a  *)
(* chain of bounded block caches (NewBoundedCache with NewMemoryCache or   *)
(* NewSharedMemoryCache under it) for blocks, the chain ends in the        *)
(* NetworkCache, and every block that was delivered is written back down   *)
(* the same chain by the write pool (Cache::bufferWrite).                  *)
(*                                                                         *)
(* A bin of a cache is protected by its writer lock (ReaderWriterLock.tla),*)
(* so one visit of a request to one cache is one step; the polling of a    *)
(* reserved entry (blockAvailable) and the NetworkCache's transfer tasks   *)
(* take no bin lock and interleave with everything.  A block stands for a  *)
(* (fileIndex, blockIndex) pair, and block data for the block it came      *)
(* from.  The entry a full bin gives up is any available entry nobody      *)
(* uses: the code orders them by a 32-bit nanosecond time stamp that wraps *)
(* every four seconds, and optionally takes prefetched ones first.         *)
(***************************************************************************)
EXTENDS Naturals, FiniteSets

(* A Request object is named by its process and its id there (ID_CNT).     *)
CONSTANTS Blocks,      \* the blocks of the files
          Procs,       \* client processes
          Reqs,        \* bound: the Request objects the processes create
          Readers,     \* threads in InputFile::read or in the prefetch pool
          Prefetchers, \* the ones of the prefetch pool
          proc,        \* the process of a reader
          Caches,      \* bounded caches: per process, or in shared memory
          top,         \* the first cache below a reader's base cache
          nextLevel,   \* _nextLevel of a bounded cache
          Net, Base,   \* the NetworkCache and the base cache
          Bins, BinOf, \* bins of a cache, and getBinIndex
          Assoc,       \* _associativity, entries of a bin
          NetFaults,   \* which transfers may go wrong: "null", "fail"
          None         \* no block, no entry, no reader

ASSUME Topology ==
  /\ Reqs \subseteq Procs \X Nat /\ IsFiniteSet(Reqs)
  /\ Prefetchers \subseteq Readers
  /\ proc \in [Readers -> Procs]
  /\ top \in [Readers -> Caches]
  /\ nextLevel \in [Caches -> Caches \cup {Net}]
  /\ Net \notin Caches /\ Base \notin Caches /\ Net # Base
  /\ BinOf \in [Caches -> [Blocks -> Bins]]
  /\ Assoc \in Nat \ {0}
  /\ None \notin Blocks \cup Readers
  /\ NetFaults \subseteq {"null", "fail"}

Ways  == 1..Assoc
Slots == Caches \X Bins \X Ways

ASSUME NoneIsNoSlot == None \notin Slots

VARIABLES entry,   \* _blkIndex: BlockEntry of every slot
          mem,     \* _blocks: the data in every slot
          req,     \* the Request objects
          task,    \* the transfer task a request has in the NetworkCache
          todo,    \* blocks a reader's current call has yet to request
          halted   \* how a process ended, if it did

vars == <<entry, mem, req, task, todo, halted>>

(* BLK_WR is never stored (its blockSet is commented out) and BLK_EVICT    *)
(* only lives inside a bin's critical section.                             *)
Status == {"EMPTY", "PRE", "RES", "AVAIL"}

Entry == [blk: Blocks \cup {None}, status: Status, activeCnt: Nat]

(* Where a request is: unused, in readBlock of the cache "at", returned    *)
(* from requestBlock, seen ready (hit), kept in net_reads or local_reads,  *)
(* polling a reserved entry, retrying over the network, obtained (got), in *)
(* the write pool (write), deleted, or forgotten by the prefetcher.        *)
PCs == {"unused", "read", "return", "hit", "netread", "localread", "poll",
        "retry", "got", "write", "deleted", "forgotten"}

Request == [pc: PCs,
            owner: Readers \cup {None},
            blk: Blocks \cup {None},
            at: Caches \cup {Net},                \* the cache it is visiting
            origin: Caches \cup {Net, Base},      \* originating
            slot: Slots \cup {None},            \* entry hit or waited for
            reserved: SUBSET Caches,              \* reservedMap = 1
            data: {"none", "slot", "buf", "null"}, \* data pointer, NULL last
            ready: BOOLEAN]

(* The request's process has not ended.                                    *)
Live(r) == halted[r[1]] = "no"

(* The requests of a reader's current call.                                *)
Mine(t) == {r \in Reqs : /\ req[r].pc \notin {"unused", "write", "deleted", "forgotten"}
                         /\ req[r].owner = t}

Halt(r, how) == halted' = [halted EXCEPT ![r[1]] = how]

-------------------------------------------------------------------------------
(* Entries of the bin of block b in cache c.                               *)
Slot(c, b, i) == <<c, BinOf[c][b], i>>

(* Mutant: eviction looks at the status only.                              *)
AnyUsersMutant(s) == FALSE

AnyUsers(s) == entry[s].activeCnt # 0

(* Mutant: an empty entry is taken although the block sits further on.     *)
OldestBlockMutant(c, b) ==
  LET empty == {i \in Ways : entry[Slot(c, b, i)].status = "EMPTY"}
      same  == {i \in Ways : entry[Slot(c, b, i)].blk = b}
      free  == {i \in Ways : /\ entry[Slot(c, b, i)].status = "AVAIL"
                             /\ ~AnyUsers(Slot(c, b, i))}
  IN  {Slot(c, b, i) : i \in IF empty # {} THEN empty
                             ELSE IF same # {} THEN same ELSE free}

(* oldestBlock: the first entry, in scan order, that holds the block or is *)
(* empty; else an available entry without users, which is evicted; else    *)
(* nothing (the empty set).  (BlockEntry::init leaves fileIndex and        *)
(* blockIndex 0 in an empty entry, which sameBlk takes for block (0, 0);   *)
(* the entry is found as an empty one either way, hence None there.)       *)
OldestBlock(c, b) ==
  LET stop == {i \in Ways : \/ entry[Slot(c, b, i)].blk = b
                            \/ entry[Slot(c, b, i)].status = "EMPTY"}
      free == {i \in Ways : /\ entry[Slot(c, b, i)].status = "AVAIL"
                            /\ ~AnyUsers(Slot(c, b, i))}
  IN  IF stop # {}
      THEN {Slot(c, b, i) : i \in {k \in stop : \A j \in stop : k <= j}}
      ELSE {Slot(c, b, i) : i \in free}

(* The status the caller of oldestBlock sees in the entry.                 *)
FoundStatus(s, b) ==
  IF entry[s].status = "AVAIL" /\ entry[s].blk # b THEN "EVICT"
                                                   ELSE entry[s].status

(* getBlock: the first available entry that holds the block.               *)
GetBlock(c, b) ==
  LET hits == {i \in Ways : /\ entry[Slot(c, b, i)].blk = b
                            /\ entry[Slot(c, b, i)].status = "AVAIL"}
  IN  {Slot(c, b, i) : i \in {k \in hits : \A j \in hits : k <= j}}

(* Mutant: blockSet forgets activeUpdate.                                  *)
BlockSetMutant(s, b, st, activeUpdate) ==
  entry' = [entry EXCEPT ![s].blk = b, ![s].status = st]

(* blockSet: activeUpdate > 0 adds a user.                                 *)
BlockSet(s, b, st, activeUpdate) ==
  entry' = [entry EXCEPT ![s] = [blk |-> b, status |-> st,
                                 activeCnt |-> entry[s].activeCnt + activeUpdate]]

IncBlkCnt(s) == entry' = [entry EXCEPT ![s].activeCnt = @ + 1]

(* Mutant: the user is taken off twice.                                    *)
DecBlkCntMutant(s) == entry' = [entry EXCEPT ![s].activeCnt = @ - 2]

DecBlkCnt(s) == entry' = [entry EXCEPT ![s].activeCnt = @ - 1]

-------------------------------------------------------------------------------
(* The bound on an execution: a call only starts while its process has     *)
(* Request objects left for all the blocks still to be requested.          *)
Unused(p)   == {r \in Reqs : r[1] = p /\ req[r].pc = "unused"}
Unissued(p) == {tb \in Readers \X Blocks : proc[tb[1]] = p /\ tb[2] \in todo[tb[1]]}

(* InputFile::read or Cache::prefetch is called for the blocks B: every    *)
(* block is requested before any pending one is waited for.                *)
StartRead(t, B) ==
  /\ halted[proc[t]] = "no"
  /\ todo[t] = {} /\ Mine(t) = {}
  /\ Cardinality(B) + Cardinality(Unissued(proc[t])) <= Cardinality(Unused(proc[t]))
  /\ todo' = [todo EXCEPT ![t] = B]
  /\ UNCHANGED <<entry, mem, req, task, halted>>

(* Cache::requestBlock: a new Request, with the next id and an empty       *)
(* reservedMap.                                                            *)
RequestBlock(t, b, r) ==
  /\ halted[proc[t]] = "no"
  /\ b \in todo[t]
  /\ r \in Unused(proc[t]) /\ \A q \in Unused(proc[t]) : r[2] <= q[2]
  /\ \A q \in Mine(t) : req[q].pc \in {"netread", "localread"}
  /\ todo' = [todo EXCEPT ![t] = @ \ {b}]
  /\ req' = [req EXCEPT ![r] =
               [pc |-> "read", owner |-> t, blk |-> b, at |-> top[t],
                origin |-> Base, slot |-> None, reserved |-> {},
                data |-> "none", ready |-> FALSE]]
  /\ UNCHANGED <<entry, mem, task, halted>>

-------------------------------------------------------------------------------
(* NewBoundedCache::readBlock.  A hit pins the entry and hands out a       *)
(* pointer into the cache.                                                 *)
ReadHit(r, c, s) ==
  /\ FoundStatus(s, req[r].blk) = "AVAIL"
  /\ BlockSet(s, req[r].blk, "AVAIL", 1)
  /\ req' = [req EXCEPT ![r].pc = "return", ![r].origin = c, ![r].slot = s,
                        ![r].reserved = @ \cup {c}, ![r].data = "slot",
                        ![r].ready = TRUE]
  /\ UNCHANGED <<mem, task, todo, halted>>

(* An empty or evicted entry is reserved and the next level is asked.      *)
ReadReserve(r, c, s) ==
  /\ FoundStatus(s, req[r].blk) \in {"EMPTY", "EVICT"}
  /\ BlockSet(s, req[r].blk,
              IF req[r].owner \in Prefetchers THEN "PRE" ELSE "RES", 1)
  /\ req' = [req EXCEPT ![r].at = nextLevel[c], ![r].reserved = @ \cup {c}]
  /\ UNCHANGED <<mem, task, todo, halted>>

(* Somebody else reserved the entry: count in, and poll it later.          *)
ReadJoin(r, c, s) ==
  /\ FoundStatus(s, req[r].blk) \in {"PRE", "RES"}
  /\ IncBlkCnt(s)
  /\ req' = [req EXCEPT ![r].pc = "return", ![r].slot = s,
                        ![r].reserved = @ \cup {c}]
  /\ UNCHANGED <<mem, task, todo, halted>>

(* Every entry of the bin is in use: the next level is asked, and nothing  *)
(* is reserved.                                                            *)
ReadNoSpace(r, c) ==
  /\ OldestBlock(c, req[r].blk) = {}
  /\ req' = [req EXCEPT ![r].at = nextLevel[c]]
  /\ UNCHANGED <<entry, mem, task, todo, halted>>

ReadBlock(r) ==
  /\ Live(r)
  /\ req[r].pc = "read"
  /\ req[r].at \in Caches
  /\ \/ \E s \in OldestBlock(req[r].at, req[r].blk) :
           \/ ReadHit(r, req[r].at, s)
           \/ ReadReserve(r, req[r].at, s)
           \/ ReadJoin(r, req[r].at, s)
     \/ ReadNoSpace(r, req[r].at)

(* NetworkCache::readBlock: a task for the transfer pool.                  *)
NetReadBlock(r) ==
  /\ Live(r)
  /\ req[r].pc = "read"
  /\ req[r].at = Net
  /\ req' = [req EXCEPT ![r].pc = "return", ![r].origin = Net]
  /\ task' = [task EXCEPT ![r] = "queued"]
  /\ UNCHANGED <<entry, mem, todo, halted>>

-------------------------------------------------------------------------------
(* The transfer task got the block, or data that did not decompress; the   *)
(* request is marked ready before the task is through with it.             *)
NetAnswer(r, d) ==
  /\ Live(r)
  /\ task[r] = "queued"
  /\ d = "null" => "null" \in NetFaults
  /\ task' = [task EXCEPT ![r] = "answered"]
  /\ req' = [req EXCEPT ![r].data = d, ![r].origin = Net, ![r].ready = TRUE]
  /\ UNCHANGED <<entry, mem, todo, halted>>

(* The task stores its last statistics in the request and sets the future. *)
NetTaskEnd(r) ==
  /\ Live(r)
  /\ task[r] = "answered"
  /\ task' = [task EXCEPT ![r] = "done"]
  /\ UNCHANGED <<entry, mem, req, todo, halted>>

(* The first try and ten more failed: the future that is returned has no   *)
(* state.                                                                  *)
NetFail(r) ==
  /\ Live(r)
  /\ task[r] = "queued"
  /\ "fail" \in NetFaults
  /\ task' = [task EXCEPT ![r] = "failed"]
  /\ UNCHANGED <<entry, mem, req, todo, halted>>

-------------------------------------------------------------------------------
(* Back in read or prefetch: a ready request is used at once, another one  *)
(* goes to net_reads or local_reads by the cache it originates from.       *)
CheckReady(r) ==
  /\ Live(r)
  /\ req[r].pc = "return"
  /\ req' = [req EXCEPT ![r].pc = IF req[r].ready THEN "hit"
                                  ELSE IF req[r].origin = Net THEN "netread"
                                  ELSE "localread"]
  /\ UNCHANGED <<entry, mem, task, todo, halted>>

Others(r) == Mine(req[r].owner) \ {r}

(* The first loop over the futures: net_reads, in any order.               *)
GetNet(r) ==
  /\ Live(r)
  /\ req[r].pc = "netread"
  /\ todo[req[r].owner] = {}
  /\ \A q \in Others(r) : req[q].pc \in {"netread", "localread"}
  /\ \/ /\ task[r] = "done"
        /\ req' = [req EXCEPT ![r].pc = "got"]
        /\ UNCHANGED halted
     \/ /\ task[r] = "failed"               \* std::future_error, not caught
        /\ Halt(r, "abort")
        /\ UNCHANGED req
  /\ UNCHANGED <<entry, mem, task, todo>>

(* Mutant: one loop over all the futures, in any order.                    *)
GetLocalMutant(r) ==
  /\ Live(r)
  /\ req[r].pc = "localread"
  /\ todo[req[r].owner] = {}
  /\ \A q \in Others(r) : req[q].pc \in {"netread", "localread"}
  /\ req' = [req EXCEPT ![r].pc = "poll"]
  /\ UNCHANGED <<entry, mem, task, todo, halted>>

(* The second loop: local_reads.  The deferred task starts to poll.        *)
GetLocal(r) ==
  /\ Live(r)
  /\ req[r].pc = "localread"
  /\ todo[req[r].owner] = {}
  /\ \A q \in Others(r) : req[q].pc = "localread"
  /\ req' = [req EXCEPT ![r].pc = "poll"]
  /\ UNCHANGED <<entry, mem, task, todo, halted>>

(* blockAvailable saw BLK_AVAIL: the data is in the entry.                 *)
PollAvail(r) ==
  /\ Live(r)
  /\ req[r].pc = "poll"
  /\ entry[req[r].slot].status = "AVAIL"
  /\ req' = [req EXCEPT ![r].pc = "got", ![r].origin = req[r].slot[1],
                        ![r].data = "slot", ![r].ready = TRUE]
  /\ UNCHANGED <<entry, mem, task, todo, halted>>

(* Ten times the average network request, or a minute, went by: ask the    *)
(* last level.  The average starts at zero, so this may come at once.      *)
PollTimeout(r) ==
  /\ Live(r)
  /\ req[r].pc = "poll"
  /\ req' = [req EXCEPT ![r].pc = "retry", ![r].origin = Net]
  /\ task' = [task EXCEPT ![r] = "queued"]
  /\ UNCHANGED <<entry, mem, todo, halted>>

Retry(r) ==
  /\ Live(r)
  /\ req[r].pc = "retry"
  /\ \/ /\ req[r].ready
        /\ req' = [req EXCEPT ![r].pc = "got"]
        /\ UNCHANGED halted
     \/ /\ task[r] = "failed"
        /\ Halt(r, "abort")
        /\ UNCHANGED req
  /\ UNCHANGED <<entry, mem, task, todo>>

(* The data is copied to the caller (copyBlock) and the request goes to    *)
(* the write pool (bufferWrite).  With a null pointer read crashes in      *)
(* memcpy; prefetch checks the pointer of pending requests only, and       *)
(* forgets such a request.                                                 *)
Deliver(r) ==
  /\ Live(r)
  /\ req[r].pc \in {"hit", "got"}
  /\ \/ /\ req[r].data # "null" \/ req[r].owner \in Prefetchers
        /\ req' = [req EXCEPT
                     ![r].pc = IF req[r].data = "null" /\ req[r].pc = "got"
                               THEN "forgotten" ELSE "write",
                     ![r].at = top[req[r].owner]]
        /\ UNCHANGED halted
     \/ /\ req[r].data = "null" /\ req[r].owner \notin Prefetchers
        /\ Halt(r, "abort")
        /\ UNCHANGED req
  /\ UNCHANGED <<entry, mem, task, todo>>

-------------------------------------------------------------------------------
(* What the data pointer of a request points at.                           *)
Content(r) == IF req[r].data = "slot" THEN mem[req[r].slot] ELSE req[r].blk

(* NewBoundedCache::writeBlock in the originating cache: the entry is      *)
(* unpinned and the request deleted.  The two exits of the code are        *)
(* modelled as they are: the entry is gone, or had no user (the count that *)
(* wraps and the bin lock that stays held then are not followed further).  *)
WriteOrigin(r, c) ==
  /\ req[r].origin = c
  /\ \/ \E s \in GetBlock(c, req[r].blk) :
          IF c \in req[r].reserved /\ entry[s].activeCnt = 0
          THEN /\ Halt(r, "exit")
               /\ UNCHANGED <<entry, req>>
          ELSE /\ IF c \in req[r].reserved THEN DecBlkCnt(s) ELSE UNCHANGED entry
               /\ req' = [req EXCEPT ![r].pc = "deleted"]
               /\ UNCHANGED halted
     \/ /\ GetBlock(c, req[r].blk) = {}
        /\ Halt(r, "exit")
        /\ UNCHANGED <<entry, req>>
  /\ UNCHANGED mem

(* writeBlock above the originating cache: the data fills the reserved,    *)
(* empty or evicted entry, or the entry is already available; activeUpdate *)
(* is reservedMap[this].                                                   *)
WriteFill(r, c) ==
  /\ req[r].origin # c
  /\ LET update == IF c \in req[r].reserved THEN 1 ELSE 0
     IN  \/ \E s \in OldestBlock(c, req[r].blk) :
              /\ req[r].data # "null" \/ FoundStatus(s, req[r].blk) = "AVAIL"
              /\ BlockSet(s, req[r].blk, "AVAIL", update)
              /\ mem' = IF FoundStatus(s, req[r].blk) = "AVAIL" THEN mem
                        ELSE [mem EXCEPT ![s] = Content(r)]
         \/ /\ OldestBlock(c, req[r].blk) = {}
            /\ UNCHANGED <<entry, mem>>
  /\ req' = [req EXCEPT ![r].at = nextLevel[c]]
  /\ UNCHANGED halted

(* setBlockData of a null pointer crashes.                                 *)
WriteNull(r, c) ==
  /\ req[r].origin # c
  /\ req[r].data = "null"
  /\ \E s \in OldestBlock(c, req[r].blk) : FoundStatus(s, req[r].blk) # "AVAIL"
  /\ Halt(r, "abort")
  /\ UNCHANGED <<entry, mem, req>>

WriteBlock(r) ==
  /\ Live(r)
  /\ req[r].pc = "write"
  /\ req[r].at \in Caches
  /\ WriteOrigin(r, req[r].at) \/ WriteFill(r, req[r].at) \/ WriteNull(r, req[r].at)
  /\ UNCHANGED <<task, todo>>

(* NetworkCache::writeBlock: the buffer and the request are deleted.       *)
NetWriteBlock(r) ==
  /\ Live(r)
  /\ req[r].pc = "write"
  /\ req[r].at = Net
  /\ req[r].origin = Net
  /\ req' = [req EXCEPT ![r].pc = "deleted"]
  /\ UNCHANGED <<entry, mem, task, todo, halted>>

-------------------------------------------------------------------------------
Init ==
  /\ entry = [s \in Slots |-> [blk |-> None, status |-> "EMPTY", activeCnt |-> 0]]
  /\ mem = [s \in Slots |-> None]
  /\ req = [r \in Reqs |->
              [pc |-> "unused", owner |-> None, blk |-> None, at |-> Net,
               origin |-> Base, slot |-> None, reserved |-> {},
               data |-> "none", ready |-> FALSE]]
  /\ task = [r \in Reqs |-> "none"]
  /\ todo = [t \in Readers |-> {}]
  /\ halted = [p \in Procs |-> "no"]

NetStep(r) == NetAnswer(r, "buf") \/ NetAnswer(r, "null") \/ NetTaskEnd(r) \/ NetFail(r)

ReaderStep(r) == \/ ReadBlock(r) \/ NetReadBlock(r) \/ CheckReady(r) \/ GetNet(r)
                 \/ GetLocal(r)  \/ PollAvail(r)    \/ Retry(r)      \/ Deliver(r)

WriterStep(r) == WriteBlock(r) \/ NetWriteBlock(r)

Next == \/ \E t \in Readers, B \in SUBSET Blocks \ {{}} : StartRead(t, B)
        \/ \E t \in Readers, b \in Blocks, r \in Reqs : RequestBlock(t, b, r)
        \/ \E r \in Reqs : ReaderStep(r) \/ PollTimeout(r) \/ NetStep(r) \/ WriterStep(r)

Spec == Init /\ [][Next]_vars

(* The threads of a process that has not ended are scheduled: the readers, *)
(* the transfer pool and the write pool.  A transfer ends one way or the   *)
(* other because the server answers or its connection breaks (a receive    *)
(* blocks, NetworkCache.cpp 187) and the retries are bounded.  Nothing     *)
(* obliges a program to read.                                              *)
ReaderThread(t) == \/ \E b \in Blocks, r \in Reqs : RequestBlock(t, b, r)
                   \/ \E r \in Mine(t) : ReaderStep(r)
TransferPool(p) == \E r \in Reqs : r[1] = p /\ NetStep(r)
WritePool(p)    == \E r \in Reqs : r[1] = p /\ WriterStep(r)

Progress == /\ \A t \in Readers : WF_vars(ReaderThread(t))
            /\ \A p \in Procs : WF_vars(TransferPool(p)) /\ WF_vars(WritePool(p))

-------------------------------------------------------------------------------
TypeOK ==
  /\ entry \in [Slots -> Entry]
  /\ mem \in [Slots -> Blocks \cup {None}]
  /\ req \in [Reqs -> Request]
  /\ task \in [Reqs -> {"none", "queued", "answered", "done", "failed"}]
  /\ todo \in [Readers -> SUBSET Blocks]
  /\ halted \in [Procs -> {"no", "abort", "exit"}]

(* A block sits in at most one entry of a cache (oldestBlock stops at an   *)
(* empty entry, so this needs the empty ones to come last).                *)
OneEntryPerBlock ==
  \A s, u \in Slots : /\ s[1] = u[1]
                      /\ entry[s].status # "EMPTY" /\ entry[u].status # "EMPTY"
                      /\ entry[s].blk = entry[u].blk
                      => s = u

(* The requests that count on an entry: the ones that wait for it, and the *)
(* ones whose data pointer leads into it.                                  *)
Holders(s) == {r \in Reqs : /\ req[r].slot = s
                            /\ req[r].origin # Net
                            /\ req[r].pc \notin {"unused", "deleted", "forgotten"}}

(* The reference count covers the holders: blockSet and incBlkCnt of       *)
(* readBlock against decBlkCnt of writeBlock, over all interleavings.      *)
CountCoversHolders == \A s \in Slots : entry[s].activeCnt >= Cardinality(Holders(s))

(* An entry keeps its block while a request holds it, and the data behind  *)
(* a request's pointer stays that of its block from the hit until the      *)
(* write pool released it, whatever the other readers evict and fill       *)
(* (NewMemoryCache.cpp 177: "the actual data cannot change during the      *)
(* read").                                                                 *)
HeldDataIntact ==
  \A s \in Slots : \A r \in Holders(s) :
     /\ entry[s].blk = req[r].blk /\ entry[s].status # "EMPTY"
     /\ req[r].data = "slot" => entry[s].status = "AVAIL" /\ mem[s] = req[r].blk

(* No request finds its entry gone or without users when it is released:   *)
(* the two exit(0) of writeBlock (281, 291) are never reached.             *)
NeverExits == \A p \in Procs : halted[p] # "exit"

(* What the other invariants rest on.  An entry is empty until its first   *)
(* block and never again, its block belongs to its bin, and an available   *)
(* entry has the data of its block.                                        *)
EntriesSound ==
  \A s \in Slots :
     /\ entry[s].status = "EMPTY" <=> entry[s].blk = None
     /\ entry[s].blk # None => s[2] = BinOf[s[1]][entry[s].blk]
     /\ entry[s].status = "AVAIL" => mem[s] = entry[s].blk

(* Bins are filled from the front.                                         *)
EmptyLast ==
  \A c \in Caches, n \in Bins, i, j \in Ways :
     i < j /\ entry[<<c, n, i>>].status = "EMPTY" => entry[<<c, n, j>>].status = "EMPTY"

(* What a request's fields say about each other.                           *)
RequestSound(r) ==
  LET q == req[r]
  IN  /\ q.pc # "unused" => q.owner \in Readers /\ q.blk \in Blocks
      /\ q.slot # None => q.slot[2] = BinOf[q.slot[1]][q.blk]
      /\ q.origin = Base => q.data = "none" /\ ~q.ready
      /\ q.origin \in Caches => /\ q.slot # None /\ q.origin = q.slot[1]
                                /\ q.data = "slot" /\ q.ready
      /\ q.origin = Net => q.data # "slot"
      /\ task[r] # "none" => q.origin = Net
      /\ q.pc \in {"unused", "read"} => q.origin = Base /\ q.slot = None
      /\ q.pc \in {"localread", "poll"} => q.origin = Base /\ q.slot # None
      /\ q.pc = "return" => q.origin # Base \/ q.slot # None
      /\ q.pc \in {"hit", "got", "write"} => q.origin # Base

RequestsSound == \A r \in Reqs : req[r].pc \notin {"deleted", "forgotten"} => RequestSound(r)

IInv == /\ TypeOK /\ EntriesSound /\ EmptyLast /\ OneEntryPerBlock
        /\ RequestsSound /\ CountCoversHolders /\ HeldDataIntact /\ NeverExits

(* The comment on reservedMap (NewBoundedCache.cpp 439): a reservation     *)
(* "indicate[s] we will need to do a decrement in write".  Once every      *)
(* request is gone no entry has users left.                                *)
ReservationsReleased ==
  (\A r \in Reqs : req[r].pc \in {"unused", "deleted"})
     => \A s \in Slots : entry[s].activeCnt = 0

(* InputFile.cpp 407: when requestBlock returns a ready request, "the      *)
(* block was in a client side cache".                                      *)
ReadyMeansClientSide == \A r \in Reqs : req[r].pc = "hit" => req[r].origin \in Caches

(* Every request is answered and then released by the write pool, unless   *)
(* its process ended: no reader waits for ever for a block that another    *)
(* one, in this or another process, has reserved.                          *)
EveryRequestReleased ==
  \A r \in Reqs : req[r].pc = "read"
                 ~> (req[r].pc \in {"deleted", "forgotten"} \/ ~Live(r))
===============================================================================
