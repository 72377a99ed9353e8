-------------------------------- MODULE FileCache --------------------------------
(***************************************************************************)
(* A bounded cache in files that processes of several nodes share          *)
(* (NewBoundedCache over NewBoundedFilelockCache, or over                  *)
(* NewBoundedLinkfileCache), with its start-up and its locks.              *)
(*                                                                         *)
(* One bin is modelled; the bins share nothing but the start-up.  Its      *)
(* entries are on disk, and each process has a copy in memory that all its *)
(* threads use: readBin and readFileBlockEntry read into it, blockSet and  *)
(* incBlkCnt change it and then write it to disk.  Polling for a block     *)
(* reads into it too, and takes no lock.  All these steps are actions of   *)
(* their own, since a process may die between any two of them.             *)
(*                                                                         *)
(* A bin is locked in two steps: first a flag in memory, then the file.    *)
(* FcntlBoundedReaderWriterLock has its flags in memory that the processes *)
(* of a node share, and a file lock that the kernel gives to a process and *)
(* takes back when the process ends.  FileLinkReaderWriterLock has flags   *)
(* in each process, and a link that stays until somebody removes it.  A    *)
(* behaviour has one kind of lock; the caches use only its writer's side.  *)
(*                                                                         *)
(* The cache below, the network, always answers (see BlockCache.tla).      *)
(***************************************************************************)
EXTENDS Integers, FiniteSets

CONSTANTS Procs, Nodes, node,   \* the processes, and where each runs
          LockKinds,            \* a set of "fcntl" and "link"
          Reqs, proc,           \* the requests, and the process of each
          Blocks, block,        \* the block that a request asks for
          Assoc,                \* entries of the bin
          MaxCrashes,           \* processes that die (a bound)
          None                  \* no request, no block, no entry

ASSUME FileCacheConstants ==
  /\ node \in [Procs -> Nodes] /\ LockKinds \subseteq {"fcntl", "link"}
  /\ proc \in [Reqs -> Procs] /\ block \in [Reqs -> Blocks]
  /\ Assoc \in Nat \ {0} /\ MaxCrashes \in Nat
  /\ None \notin Reqs \cup Blocks

VARIABLES
  lockKind,  \* the kind of lock
  dir,       \* the cache's directory: "init", "lock", "entries", "data"
  shm,       \* the shared memory of a node, with the flags
  start,     \* where a process is in the constructor, "up" after it
  flag,      \* _writers: the request that set it
  fileLock,  \* the request whose process locked the file, or made the link
  disk,      \* the bin in the file of entries
  data,      \* the block in each slot of the file of data
  copy,      \* _cacheEntries of each process
  req,       \* the requests
  crashes,   \* a bound
  lost       \* a history: the changes of each entry that did not get to disk
             \* since a thread without the lock read over them

startVars == <<lockKind, dir, shm, start>>
lockVars  == <<flag, fileLock>>
vars == <<startVars, lockVars, disk, data, copy, req, crashes, lost>>

(* Whose memory has the flag of a process.                                 *)
Memories == Nodes \cup Procs
at == [p \in Procs |-> IF lockKind = "link" THEN p ELSE node[p]]

Ways == 1 .. Assoc
Empty == [blk |-> None, status |-> "EMPTY", active |-> 0]
Bin == [Ways -> [blk : Blocks \cup {None}, active : Int,
                 status : {"EMPTY", "RES", "AVAIL", "EVICT"}]]

Request == [task : {"read", "write"}, way : Ways \cup {None}, reserved : {0, 1},
            pc : {"idle", "lock", "filelock", "scan", "put", "update", "store", "hit",
                  "unlock", "poll", "fetch", "net", "got", "done", "gone"},
            then : {"idle", "hit", "poll", "net", "got", "done", "exit"},
            origin : {"net", "cache"}, data : Blocks \cup {None}]
NewReq == [task |-> "read", pc |-> "idle", then |-> "idle", way |-> None,
           origin |-> "net", reserved |-> 0, data |-> None]

Init ==
  /\ lockKind \in LockKinds /\ dir = {} /\ shm = [n \in Nodes |-> "none"] /\ start = [p \in Procs |-> "off"]
  /\ flag = [m \in Memories |-> None] /\ fileLock = None
  /\ disk = [i \in Ways |-> Empty] /\ data = [i \in Ways |-> None]
  /\ copy = [p \in Procs |-> [i \in Ways |-> Empty]]
  /\ req = [r \in Reqs |-> NewReq] /\ crashes = 0
  /\ lost = [i \in Ways |-> 0]

-------------------------------------------------------------------------------
(* The constructor.                                                        *)

Starting(p, from, to) == start[p] = from /\ start' = [start EXCEPT ![p] = to]
OnlyStarting == UNCHANGED <<lockKind, lockVars, disk, data, copy, req, crashes, lost>>

(* mkdir: the process that makes the directory creates the files.          *)
MakeDirectory(p) ==
  /\ dir' = dir \cup {"init"}
  /\ Starting(p, "off", IF "init" \in dir THEN "await" ELSE "create")
  /\ UNCHANGED shm /\ OnlyStarting

(* They are written under another name, and renamed.  The file of entries  *)
(* is the one that is locked, or is called otherwise.                      *)
CreateEntries(p) ==
  /\ Starting(p, "create", "createdata")
  /\ dir' = dir \cup {IF lockKind = "link" THEN "entries" ELSE "lock"}
  /\ UNCHANGED shm /\ OnlyStarting

CreateData(p) ==
  /\ Starting(p, "createdata", "open") /\ dir' = dir \cup {"data"}
  /\ UNCHANGED shm /\ OnlyStarting

(* The others wait for "lock" and "data", and exit when they do not appear.*)
FilesAppear(p) ==
  /\ {"lock", "data"} \subseteq dir /\ Starting(p, "await", "open")
  /\ UNCHANGED <<dir, shm>> /\ OnlyStarting

FilesDoNotAppear(p) ==
  /\ ~({"lock", "data"} \subseteq dir) /\ Starting(p, "await", "gone")
  /\ UNCHANGED <<dir, shm>> /\ OnlyStarting

(* FcntlBoundedReaderWriterLock: the first process of a node makes the     *)
(* flags, the others wait until they are marked as ready.                  *)
MakeFlags(p) ==
  /\ lockKind = "fcntl" /\ shm[node[p]] = "none" /\ Starting(p, "open", "init")
  /\ shm' = [shm EXCEPT ![node[p]] = "made"]
  /\ UNCHANGED dir /\ OnlyStarting

FlagsReady(p) ==
  /\ Starting(p, "init", "up") /\ shm' = [shm EXCEPT ![node[p]] = "ready"]
  /\ UNCHANGED dir /\ OnlyStarting

AwaitFlags(p) ==
  /\ lockKind = "fcntl" /\ shm[node[p]] = "ready" /\ Starting(p, "open", "up")
  /\ UNCHANGED <<dir, shm>> /\ OnlyStarting

(* FileLinkReaderWriterLock: whoever comes makes the directory with the    *)
(* files that are linked, and its own flags.                               *)
MakeLinkFiles(p) ==
  /\ lockKind = "link" /\ Starting(p, "open", "up") /\ dir' = dir \cup {"lock"}
  /\ UNCHANGED shm /\ OnlyStarting

Usable(p) == lockKind = "link" \/ shm[node[p]] = "ready"

-------------------------------------------------------------------------------
Of(p) == {r \in Reqs : proc[r] = p}

(* A process ends.  The kernel gives up its file locks, but not its links, *)
(* and its flag stays set in the memory of the node.                       *)
Gone(p) ==
  /\ start' = [start EXCEPT ![p] = "gone"]
  /\ fileLock' = IF fileLock \in Of(p) /\ lockKind = "fcntl" THEN None ELSE fileLock
  /\ req' = [r \in Reqs |-> IF r \in Of(p) THEN [NewReq EXCEPT !.pc = "gone"]
                                            ELSE req[r]]

(* It may die within lock or unlock, and leave _shmLock locked.            *)
Locking(p) == \E r \in Of(p) : req[r].pc \in {"lock", "filelock", "unlock"}

Crash(p) ==
  /\ crashes < MaxCrashes /\ crashes' = crashes + 1
  /\ start[p] \notin {"off", "gone"} /\ Gone(p)
  /\ \/ UNCHANGED shm
     \/ Locking(p) /\ lockKind = "fcntl" /\ shm' = [shm EXCEPT ![node[p]] = "stuck"]
  /\ UNCHANGED <<lockKind, dir, flag, disk, data, copy, lost>>

-------------------------------------------------------------------------------
(* A request's steps.                                                      *)

At(r, pc) == req[r].pc = pc
Goto(r, pc) == req' = [req EXCEPT ![r].pc = pc]
OnlyReq == UNCHANGED <<startVars, lockVars, disk, data, copy, crashes, lost>>

ReadBlock(r) ==
  /\ start[proc[r]] = "up" /\ At(r, "idle") /\ Goto(r, "lock") /\ OnlyReq

LockFlag(r) ==
  /\ At(r, "lock") /\ Usable(proc[r]) /\ flag[at[proc[r]]] = None
  /\ flag' = [flag EXCEPT ![at[proc[r]]] = r] /\ Goto(r, "filelock")
  /\ UNCHANGED <<startVars, fileLock, disk, data, copy, crashes, lost>>

(* Mutant for OneInBin: what lockOp or link returned is not looked at.     *)
LockFileMutant(r) ==
  /\ At(r, "filelock") /\ Usable(proc[r])
  /\ fileLock' = r /\ Goto(r, "scan")
  /\ UNCHANGED <<startVars, flag, disk, data, copy, crashes, lost>>

LockFile(r) ==
  /\ At(r, "filelock") /\ Usable(proc[r]) /\ fileLock = None
  /\ fileLock' = r /\ Goto(r, "scan")
  /\ UNCHANGED <<startVars, flag, disk, data, copy, crashes, lost>>

(* Mutant for RequestsServed: _writers is not reset.                       *)
UnlockMutant(r) ==
  /\ At(r, "unlock") /\ Usable(proc[r]) /\ Goto(r, req[r].then)
  /\ fileLock' = None
  /\ UNCHANGED <<startVars, flag, disk, data, copy, crashes, lost>>

Unlock(r) ==
  /\ At(r, "unlock") /\ Usable(proc[r]) /\ Goto(r, req[r].then)
  /\ fileLock' = None /\ flag' = [flag EXCEPT ![at[proc[r]]] = None]
  /\ UNCHANGED <<startVars, disk, data, copy, crashes, lost>>

(* writeBlock of a request that this cache answered takes its user off;    *)
(* any other is written to the cache.                                      *)
Releasing(r) == req[r].task = "write" /\ req[r].origin = "cache"

(* Mutant for ServesOwnBlock: anyUsers is not asked.                       *)
OldestBlockMutant(bin, b) ==
  LET stop == {i \in Ways : bin[i].blk = b \/ bin[i].status = "EMPTY"}
  IN  IF stop # {} THEN stop ELSE {i \in Ways : bin[i].status = "AVAIL"}

(* oldestBlock, as in BlockCache.tla: the first entry with the block, or   *)
(* that is empty, or else any that is available and has no users.          *)
OldestBlock(bin, b) ==
  LET stop == {i \in Ways : bin[i].blk = b \/ bin[i].status = "EMPTY"}
      free == {i \in Ways : bin[i].status = "AVAIL" /\ bin[i].active = 0}
  IN  IF stop # {} THEN {i \in stop : \A j \in stop : i <= j} ELSE free

(* getBlock.                                                               *)
GetBlock(bin, b) ==
  LET hits == {i \in Ways : bin[i].blk = b /\ bin[i].status = "AVAIL"}
  IN  {i \in hits : \A j \in hits : i <= j}

Found(r) == IF Releasing(r) THEN GetBlock(disk, block[r])
                            ELSE OldestBlock(disk, block[r])

(* readBin, and the search for an entry.  One that is given up is marked   *)
(* in the copy only.  A request that finds its block elsewhere than where  *)
(* it is counted takes from that entry what it did not give to it.         *)
Scan(r) ==
  /\ At(r, "scan")
  /\ \E i \in Found(r) :
       LET evict == disk[i].status = "AVAIL" /\ disk[i].blk # block[r]
       IN  /\ copy' = [copy EXCEPT ![proc[r]] =
                 IF evict THEN [disk EXCEPT ![i].status = "EVICT"] ELSE disk]
           /\ req' = [req EXCEPT ![r].way = i,
                ![r].pc = IF /\ req[r].task = "write"
                             /\ copy'[proc[r]][i].status # "AVAIL"
                          THEN "put" ELSE "update"]
           /\ lost' = [lost EXCEPT ![i] = IF req[r].reserved = 1 /\ req[r].way # i
                                         THEN @ + 1 ELSE @]
  /\ UNCHANGED <<startVars, lockVars, disk, data, crashes>>

(* No entry: the bin is full, and the block is not kept; or the entry that *)
(* was reserved is lost ("should this even be possible?"): exit.           *)
ScanNothing(r) ==
  /\ At(r, "scan") /\ Found(r) = {}
  /\ copy' = [copy EXCEPT ![proc[r]] = disk]
  /\ IF Releasing(r) THEN Gone(proc[r])
     ELSE /\ req' = [req EXCEPT ![r].pc = "unlock",
                 ![r].then = IF req[r].task = "read" THEN "net" ELSE "done"]
          /\ UNCHANGED <<start, fileLock>>
  /\ UNCHANGED <<lockKind, dir, shm, flag, disk, data, crashes, lost>>

(* setBlockData.                                                           *)
PutData(r) ==
  /\ At(r, "put") /\ Goto(r, "update")
  /\ data' = [data EXCEPT ![req[r].way] = block[r]]
  /\ UNCHANGED <<startVars, lockVars, disk, copy, crashes, lost>>

(* Mutant for CountBehindByLost: who waits is not counted (incBlkCnt).     *)
UpdatedMutant(r, e) ==
  IF Releasing(r) THEN [e EXCEPT !.active = @ - 1]
  ELSE IF req[r].task = "write"
    THEN [blk |-> block[r], status |-> "AVAIL", active |-> e.active + req[r].reserved]
  ELSE IF e.status = "RES" THEN e
  ELSE [blk |-> block[r], active |-> e.active + 1,
        status |-> IF e.status = "AVAIL" THEN "AVAIL" ELSE "RES"]

(* blockSet, incBlkCnt and decBlkCnt: the entry in the copy is changed.    *)
Updated(r, e) ==
  IF Releasing(r) THEN [e EXCEPT !.active = @ - 1]
  ELSE IF req[r].task = "write"
    THEN [blk |-> block[r], status |-> "AVAIL", active |-> e.active + req[r].reserved]
  ELSE IF e.status = "RES" THEN [e EXCEPT !.active = @ + 1]
  ELSE [blk |-> block[r], active |-> e.active + 1,
        status |-> IF e.status = "AVAIL" THEN "AVAIL" ELSE "RES"]

(* What follows: a hit, a wait for somebody else, or the network.          *)
Follows(r, e) ==
  IF Releasing(r) THEN IF e.active = 0 THEN "exit" ELSE "done"
  ELSE IF req[r].task = "write" THEN "done"
  ELSE CASE e.status = "AVAIL" -> "hit" [] e.status = "RES" -> "poll" [] OTHER -> "net"

Update(r) ==
  LET e == copy[proc[r]][req[r].way]
  IN  /\ At(r, "update")
      /\ copy' = [copy EXCEPT ![proc[r]][req[r].way] = Updated(r, e)]
      /\ req' = [req EXCEPT ![r].pc = "store", ![r].then = Follows(r, e),
                            ![r].reserved = IF req[r].task = "read" THEN 1 ELSE @]
      /\ UNCHANGED <<startVars, lockVars, disk, data, crashes, lost>>

(* writeFileBlockEntry.                                                    *)
Store(r) ==
  /\ At(r, "store")
  /\ disk' = [disk EXCEPT ![req[r].way] = copy[proc[r]][req[r].way]]
  /\ IF req[r].then = "exit" THEN Gone(proc[r])
     ELSE /\ Goto(r, IF req[r].then = "hit" THEN "hit" ELSE "unlock")
          /\ UNCHANGED <<start, fileLock>>
  /\ UNCHANGED <<lockKind, dir, shm, flag, data, copy, crashes, lost>>

(* getBlockData, of a hit.                                                 *)
ReadHit(r) ==
  /\ At(r, "hit")
  /\ req' = [req EXCEPT ![r].pc = "unlock", ![r].then = "got",
               ![r].origin = "cache", ![r].data = data[req[r].way]]
  /\ OnlyReq

(* blockAvailable reads the entry into the copy, without a lock, and over  *)
(* what another thread has changed there but not written to disk yet.      *)
Overwrites(r) ==
  \E s \in Reqs : /\ proc[s] = proc[r] /\ At(s, "store") /\ req[s].way = req[r].way
                  /\ copy[proc[r]][req[r].way] # disk[req[r].way]

Refreshed(r) ==
  /\ copy' = [copy EXCEPT ![proc[r]][req[r].way] = disk[req[r].way]]
  /\ lost' = [lost EXCEPT ![req[r].way] = IF Overwrites(r) THEN @ + 1 ELSE @]

Poll(r) ==
  /\ At(r, "poll") /\ Refreshed(r)
  /\ IF disk[req[r].way].status = "AVAIL" THEN Goto(r, "fetch") ELSE UNCHANGED req
  /\ UNCHANGED <<startVars, lockVars, disk, data, crashes>>

(* getBlockEntry and getBlockData, of one that was waited for.             *)
Fetch(r) ==
  /\ At(r, "fetch") /\ Refreshed(r)
  /\ req' = [req EXCEPT ![r].pc = "got", ![r].origin = "cache",
                        ![r].data = data[req[r].way]]
  /\ UNCHANGED <<startVars, lockVars, disk, data, crashes>>

(* The wait was too long: the network is asked.                            *)
PollTimeout(r) == At(r, "poll") /\ Goto(r, "net") /\ OnlyReq

NetAnswer(r) ==
  /\ At(r, "net")
  /\ req' = [req EXCEPT ![r].pc = "got", ![r].origin = "net", ![r].data = block[r]]
  /\ OnlyReq

(* The caller has the data, and the write pool the request.                *)
WriteBlock(r) ==
  /\ At(r, "got") /\ req' = [req EXCEPT ![r].pc = "lock", ![r].task = "write"]
  /\ OnlyReq

-------------------------------------------------------------------------------
Start(p) ==
  \/ CreateEntries(p) \/ CreateData(p) \/ FilesAppear(p) \/ FilesDoNotAppear(p)
  \/ MakeFlags(p) \/ FlagsReady(p) \/ AwaitFlags(p)
  \/ MakeLinkFiles(p)

Step(r) ==
  \/ Unlock(r) \/ Scan(r) \/ ScanNothing(r) \/ PutData(r)
  \/ Update(r) \/ Store(r) \/ ReadHit(r) \/ Fetch(r) \/ NetAnswer(r)
  \/ WriteBlock(r)

Next ==
  \/ \E p \in Procs : MakeDirectory(p) \/ Start(p) \/ Crash(p)
  \/ \E r \in Reqs : ReadBlock(r) \/ LockFlag(r) \/ LockFile(r) \/ Poll(r)
                     \/ PollTimeout(r) \/ Step(r)

Spec == Init /\ [][Next]_vars

(* Both locks are spun for, with a wait of random length in between.  A    *)
(* request is in one place, so that fairness to one of two steps in        *)
(* different places is fairness to both.                                   *)
Fairness ==
  /\ \A p \in Procs : WF_vars(Start(p))
  /\ \A r \in Reqs : /\ WF_vars(Step(r) \/ PollTimeout(r))
                     /\ SF_vars(LockFlag(r) \/ LockFile(r))

FairSpec == Spec /\ Fairness
-------------------------------------------------------------------------------
(* Properties.                                                             *)

Living(r) == start[proc[r]] = "up"
InBin == {r \in Reqs : Living(r)
            /\ req[r].pc \in {"scan", "put", "update", "store", "hit"}}

(* Every variable keeps its type.                                          *)
TypeOK ==
  /\ lockKind \in LockKinds /\ dir \subseteq {"init", "lock", "entries", "data"}
  /\ shm \in [Nodes -> {"none", "made", "ready", "stuck"}]
  /\ start \in [Procs -> {"off", "create", "createdata", "await", "open", "init",
                          "up", "gone"}]
  /\ flag \in [Memories -> Reqs \cup {None}] /\ fileLock \in Reqs \cup {None}
  /\ disk \in Bin /\ data \in [Ways -> Blocks \cup {None}] /\ copy \in [Procs -> Bin]
  /\ req \in [Reqs -> Request] /\ crashes \in Nat /\ lost \in [Ways -> Nat]

(* The two steps of the lock, in the memory of a node and in the file,     *)
(* keep requests of all processes and nodes out of each other's way, also  *)
(* after processes died in any step of a lock's use, and left their flag,  *)
(* their link or the flags of their node behind.                           *)
OneInBin == \A r, s \in InBin : r = s

(* What a request gets is its block, whether it hit, waited for another    *)
(* process, or went to the network; although waiting and reading what was  *)
(* waited for take no lock.                                                *)
ServesOwnBlock == \A r \in Reqs : req[r].data \in {None, block[r]}

(* A request that wrote its block leaves an entry that says so, on disk,   *)
(* before it gives up the lock: blockSet changed a copy that other threads *)
(* of the process write without a lock.                                    *)
Wrote(r) == /\ Living(r) /\ At(r, "unlock") /\ req[r].task = "write"
            /\ req[r].then = "done" /\ req[r].way # None
WrittenIsAvailable ==
  \A r \in Reqs : Wrote(r) /\ ~Releasing(r) =>
    disk[req[r].way].status = "AVAIL" /\ disk[req[r].way].blk = block[r]

(* The users of an entry: requests of any process that reserved it, and    *)
(* did not release it yet.                                                 *)
Holds(r, i) ==
  /\ req[r].reserved = 1 /\ req[r].way = i
  /\ req[r].pc \notin {"store", "done"}
  /\ req[r].task = "write" => req[r].pc # "unlock"
Holders(i) == {r \in Reqs : Living(r) /\ Holds(r, i)}

(* What the comment before blockAvailable rests on ("we know that when     *)
(* calling blockAvailable the actual data cannot change during the read    *)
(* (due to refernce counting protections)"): the count of an entry on disk *)
(* is never less than its users.                                           *)
CountCoversUsers == \A i \in Ways : Cardinality(Holders(i)) <= disk[i].active

(* What the code does keep, for any number of requests of a process: a     *)
(* count falls behind its users by one at most for each change that a poll *)
(* without the lock read over, and by nothing else, whatever is killed,    *)
(* waits too long, or is evicted.                                          *)
CountBehindByLost == \A i \in Ways : Cardinality(Holders(i)) <= disk[i].active + lost[i]

(* No poll has read over a change.                                         *)
NothingLost == \A i \in Ways : lost[i] = 0

(* A request of a living process gets its data and releases its entry,     *)
(* whatever the others do, unless a process ended near it: one of its node *)
(* (its flag stays), any process if locks are links (the link stays), or a *)
(* process of any node within lock or unlock (_shmLock stays locked, so    *)
(* that others of that node cannot give up the file).                      *)
EndedNear(r) ==
  \/ \E p \in Procs : start[p] = "gone" /\ (lockKind = "link" \/ node[p] = node[proc[r]])
  \/ \E n \in Nodes : shm[n] = "stuck"
RequestsServed == \A r \in Reqs : At(r, "lock") ~> (At(r, "done") \/ EndedNear(r))
===============================================================================
