# TAZeR in TLA+

Specifications, model-checking configurations and machine-checked proofs for
TAZeR, the transparent I/O library in this repository: a client library that
intercepts the POSIX calls of a program (`src/src/client/Lib.cpp`) and serves
reads of remote files from a hierarchy of block caches, fed over TCP by servers.
Paths below are relative to the repository's root `src/`; line numbers are those
of the files named.

## 1. Inventory

| Component (source) | State it keeps | Operations | Interacts with | Correct when |
| --- | --- | --- | --- | --- |
| **ReaderWriterLock, MultiReaderWriterLock** (`src/common/ReaderWriterLock.cpp`) | `_readers`, `_writers` (and `_cnt`, `_cur`), atomics | reader, writer and three *try* variants, unlocks | every map and every cache bin | writers exclude everybody; the counters are exact; a writer gets in |
| **NewBoundedCache** with **NewMemoryCache** / **NewSharedMemoryCache** (`src/caches/bounded`) | `_blkIndex` (status, block, user count per entry), `_blocks` (data), bin locks; for the shared one in POSIX shared memory | `readBlock`, `writeBlock`, `oldestBlock`, `getBlock`, `blockSet`, user counts, `addFile`, start-up handshake | `Request`, next level, other threads *and processes* | data behind a handed-out pointer is stable; no block is cached twice; counts cover the users; every wait ends |
| **NewBoundedFilelockCache, NewBoundedLinkfileCache** (`src/caches/bounded`) | the same in files, locked by `fcntl` or link files | the same | file system | the same |
| **Request, Cache** (`src/caches/Cache.cpp`, `inc/tazer/Request.h`) | `Request` objects, `_outstandingWrites`, the window of request times | `requestBlock`, `bufferWrite`, `prefetch`, `addCacheLevel`, `updateRequestTime` | all caches, write and prefetch pools | every request is answered and deleted exactly once |
| **InputFile** (`src/client/InputFile.cpp`) | file position, size, block counts, prefetcher | `open`, `read`, `seek`, `close`, `cache_init` | base cache, ConnectionPool | a read returns the bytes of the file |
| **NetworkCache** (`src/caches/NetworkCache.cpp`) | per-file connection pools and sizes | `readBlock` (a transfer task with ten retries), `requestBlk`, `decompress`, `writeBlock` | ConnectionPool, Connection, transfer and decompression pools | every task ends, connections are returned |
| **ConnectionPool** (`src/common/ConnectionPool.cpp`) | `_mq` of connections, `_servers_requested`, `_valid_server` | `push/popConnection`, `openFileOnAllServers`, `closeFileOnAllServers` | Connection, ThreadPool | no connection is lost or used twice; open fails only when every server failed |
| **Connection** (`src/common/Connection.cpp`) | sockets of one server, client side (queue, condition variable) and server side | `lock`, `unlock`, `addSocket`, `closeSocket`, `restartSocket`, `sendMsg`, `recvMsg`, `pollMsg` | sockets | a socket has one user; everybody waiting gets one |
| **ThreadPool, PriorityThreadPool, PriorityPool** (`src/common`) | task queue, `_users`, `_alive`, `_currentThreads`, condition variable | `addThreads`, `addTask`, `workLoop`, `wait`, `terminate` | every asynchronous operation | no task is lost or run twice, shutdown ends |
| **Trackable** (`inc/tazer/Trackable.h`) | static name-to-object map with user counts | `Add`, `Remove`, `Lookup`, `RemoveAll` | files, caches, connections, descriptors | an object lives exactly as long as it has users |
| **FileCacheRegister** (`src/common/FileCacheRegister.cpp`) | table of file names in shared memory | `registerFile`, `openFileCacheRegister` | all client processes | a name has one index in all processes |
| **OutputFile** (`src/client/OutputFile.cpp`) and **ServeFile** (`src/server/ServeFile.cpp`), **Server** (`src/server/Server.cpp`) | write buffers and their sequence on the client; open files, block caches, writers on the server | `write`, `close`, compress and transfer tasks; `transferBlk`, `writeData`, message handlers | Connection, pools | what was written arrives once and in place |
| **FSReaderWriterLock, FcntlReaderWriterLock, FileLinkReaderWriterLock** (`src/caches`) | lock files, `fcntl` ranges | reader and writer lock across nodes | the file caches | as ReaderWriterLock |
| **MemoryCache, SharedMemoryCache, BoundedCache** (`src/caches/bounded/deprecated`) over **LocalFileCache** | as NewBoundedCache, and `_fstreamMap` | `readBlock`, `writeBlock`, `addFile`, `removeFile` | ServeFile, LocalFile, file system | a request gets its own block; counts are exact; a stream is open while it is read |
| **UnboundedCache, UrlCache, UrlFileCache, UrlDownload** (`src/caches`) | `_urlMap`; the curl handles of the process | `readBlock`, `addFile`, `removeFile`, download | LocalFile, ServeFile, LocalFileCache, curl | a block has its bytes; handles have one user and live as long as they have any |
| **Prefetchers** (`src/prefetchers`) | last accesses, or a recorded trace | `getBlocks` | InputFile | only blocks of the file are asked for |
| **Lib, TazerFile, TazerFileDescriptor, TazerFileStream, LocalFile** (`src/client`) | descriptor and stream tables, reference counts | the wrapped POSIX calls | all files | the wrapped call behaves as the original |
| Message, RSocketAdapter, Timer, CacheStats, Loggable, UnixIO; lz4, xxhash | | wire format, transport, statistics, logging; vendored | | out of scope: formats and pure I/O |

How a read travels: `InputFile::read` creates a `Request` for every block and
hands it to the first cache. Each bounded cache either has the block (the entry
gets a user and the request a pointer *into the cache*), or reserves an entry and
asks the next level, or finds it reserved by somebody else and returns a deferred
future that polls, or has no space and only passes the request on. The
`NetworkCache` at the end queues a transfer task. `read` then waits for the
futures, network ones first, copies the bytes out and hands each request to the
write pool, which walks the same chain again: caches above the one the request
came from are filled, that one takes its user off, and the request is deleted.

What is hard here: everything a request does after a bin lock was released
(pointers kept, entries polled); counts that are raised in three places and
lowered in one; several processes on one shared cache, any of which may end
between a reservation and its delivery; two pools whose tasks wait for each
other's results; retries and timeouts that race with late answers; connections
that are borrowed while more are wanted. `PROJECT.json` lists these hazards at
their lines, with the properties that watch them.

## 2. Plan

In this order; (done) marks what is in the directory.

1. `ReaderWriterLockSpec`, `ReaderWriterLock`, `ReaderWriterLockProofs` (done):
   the abstract lock, the spinning lock, exclusion and refinement for any number
   of threads.
2. `BlockCache`, `BlockCacheProofs` (done): the read path through the bounded
   caches of several processes, proofs of its safety.
3. `ConnectionPool`, `ConnectionPoolProofs` (done): the client's connections,
   opening, retrying and closing.
4. `ThreadPool`, `ThreadPoolProofs` (done): the pool shared by its users, with
   termination and draining.
5. `OutputFileSpec`, `WritePath`, `WritePathProofs` (done): writing, from the wrapped call to
   the server's file, and the promise it implements.
6. `ServerConnections` (done): the server's accept, poll and shutdown.
7. `FileCache`, `FileCacheProofs` (done): the cache in files with its start-up and
   its locks, and processes that are killed; exclusion proved.
8. `LocalCache` (done): the caches over local files of the server and the client.
9. `ClientFiles`, `ReadPath`, `SharedMemory`, `UrlFiles` (done): the tables of open
   files, the arithmetic of a read, the start-up of the memory that processes share,
   and the downloads.
10. `ClientCleanup` (done): the end of a client with tasks under way. Left: the pools of
   `OutputFile` and other threads in it; `UrlFileCache`; `InputFile` and `LocalFile` in one
   process; a queue whose tasks run once, refined by the thread pool.
11. `LocalCacheProofs`, `ServerConnectionsProofs` and, in `ReaderWriterLockProofs`, the
   theorems about `SharedMemory` and `UrlFiles`, and in `ServerConnectionsProofs` those about
   `ClientCleanup` and `ClientFiles` (done).
   `ReadsExact` of `ReadPath` in `BlockCacheProofs`, and what a bin serves in
   `FileCacheProofs` (done), and in `WritePathProofs` that
   `WritePath` implements `OutputFileSpec` (done). No safety property of a run is left
   without a theorem.

The modules are written to be proved about: parameters are CONSTANTS under a
named assumption, there is one action per operation, invariants are conjunctions
of named parts, and no module declares a RECURSIVE operator.

## 3. The modules

### ReaderWriterLock

Every atomic operation of `readerLock`, `tryReaderLock`, `writerLock`,
`tryWriterLock`, `cowardlyTryWriterLock` and the unlocks is one step; `pc[t]`
names the place between two of them. `readers` and `writers` are `_readers` and
`_writers`. A failed `exchange(1)` changes nothing and is no step. The entries of
a `MultiReaderWriterLock` share nothing, so the module models one of them.
`fairWriterLock` is left out: nothing calls it.

Run `threadpool`, its second part (3 threads; one of the lock and the pool moves, the other stays as
it began): two of a kind against one of the other, and a third that
arrives while two are undecided, are what the back-out of `readerLock` and the
spin of `writerLock` can meet. It checks `MutualExclusion`, that the lock implements `ReaderWriterLockSpec`
(`ImplementsLock`; a thread is inside when its `pc` says so), and that a writer
that has the flag gets in (`WriterGetsIn`). Fairness is weak and per thread, and
only for threads that are inside an operation or the lock: `yield` returns,
critical sections end, nobody is obliged to call. A writer that *spins for the
flag* may starve: the code has no queue, and no such property is claimed.

Proved in `ReaderWriterLockProofs`, for any finite set of threads:
`LockTypeOK`, `ReadersExact`, `OneOwner`, `MutualExclusion` and the refinement. Exclusion is not inductive alone: a reader is kept
out because `writers` is 1, a writer because `readers` counts every reader, so
the invariant `LockIInv` adds that both counters are exact (`ReadersExact`,
`OneOwner`). The refinement maps each step to an enter, a leave or a stutter,
from the same invariant.

### BlockCache

State: `entry` is `_blkIndex` (block, status and user count of every slot of
every bin of every cache), `mem` the data in `_blocks`, `req` the Request
objects with their place in the code (`pc`, `at`), `task` the transfer task of a
request, `todo` the blocks a running call of `read` or `prefetch` has yet to
request, `halted` how a process ended. A process may share a cache with others
(`NewSharedMemoryCache`) or own it (`NewMemoryCache`): that is only a matter of
`top` and `nextLevel`.

A visit of a request to a cache runs under the writer lock of one bin, which
`ReaderWriterLock` shows to exclude everybody else, so `ReadBlock` and
`WriteBlock` are single steps, one per cache. Everything that runs without the
lock is a step of its own: testing `ready`, waiting for a future, polling an
entry, timing out, each end of a transfer task. A read asks for all its blocks
before it waits for any, waits for the network's futures before the deferred
ones, and polls one deferred future at a time, as the three loops of `read` do.

Abstracted: a block is one value instead of (file, index); the data of a block is
the block's name; the entry that a full bin gives up is any available entry
without users (the code orders them by a 32-bit nanosecond time stamp, which
wraps every four seconds, and may prefer prefetched ones); a poll may time out at
any time (the limit is ten times an average that starts at zero); the failures of
a transfer are "no block after eleven tries" and "data that does not
decompress". `BLK_WR` is never stored by this code.

Where a process ends: `halted = "abort"` for an uncaught `future_error`
(`NetworkCache.cpp:286` returns an empty future after the last retry) or a copy
from a null pointer (`NetworkCache.cpp:138`); `halted = "exit"` for the two
`exit(0)` of `writeBlock`. The other processes go on, with the shared entries as
the dead one left them.

Not modelled: the branch of `writeBlock` while terminating, `addFile`, statistics,
requests whose size exceeds the cache's block size (the code raises a signal).

Runs (2 processes, one reader each; blocks are symmetric):

| Run | Instance | Shows |
| --- | --- | --- |
| `blocks` | a private cache each over a shared one, 2 blocks, 1 entry per bin, 3 requests, one reader is a prefetcher, transfers may fail | `HeldDataIntact`, `NeverExits` |
| `blocks_live` | one shared cache, both processes have just asked for the same 2 blocks, transfers may fail, polls time out only after a process has ended | `OneEntryPerBlock`, `EveryRequestReleased` |

Bounds: `Reqs` bounds the Request objects a process creates. Two levels are the
least in which a block is filled on the way back above its origin; an entry is
contended for when there are more blocks than entries of its bin, which 2 on 1 are; a second bin only adds independent copies of the first. With two
requests in one process and one in another the interesting collisions (join
after reserve, hit against eviction, timeout against late delivery) all happen;
the mutants of `PROJECT.json` break each property within the same bounds.

Fairness: every reader thread, and the transfer and write pool of every process
that has not ended, are scheduled (weak fairness each). A transfer ends because
the server answers or its connection breaks (a receive blocks,
`NetworkCache.cpp:187`) and the retries are bounded, *provided the transfer
task gets a connection*, which is a property of the connection pool, not of this
module. In `blocks_live` polls time out only once some process has ended, and
then weakly fairly (the limit is at most a minute): readers answer each other
without any timeout, because `read` waits for the network's futures first, and
the timeout is what saves them from a process that died owing a block. That a
poll may time out at any moment is part of the safety runs.

Proved in `BlockCacheProofs`, for any finite set of requests and any number of
processes, readers, caches (in any arrangement of levels), bins, entries and
blocks: `TypeOK`, `OneEntryPerBlock`, `CountCoversHolders`, `HeldDataIntact` and
`NeverExits`. The invariant `IInv` joins them, because they need each other: an
evicted entry has no holders because the count covers them, a pointer stays
valid because its entry is not evicted, `decBlkCnt` finds a positive count because
the releasing request is itself a holder, and the entry it finds is its own
because no block is there twice. It adds `EmptyLast` (bins fill from the front,
without which `oldestBlock` would stop too early), `EntriesSound` (an entry has a
block of its bin, and its data when available) and `RequestsSound` (how the fields
of a request agree at each place). The proof treats steps that leave the
entries alone together (`Quiet`), and the others one lemma each: a request joins
an entry (`JoinStep`), an entry is taken for a block (`TakeStep`), a request
leaves (`WriteOriginStep`), a poll ends (`PollAvailStep`).

### ConnectionPool

Actors are the transfer threads, one detached thread per server for each call of
`openFileOnAllServers`, and one per server for each pool's destructor; `pc` is
where each is. `mq` is the union of the `_mq` of the pools: an entry is named by the
call and the socket it was pushed for, and belongs to one file and one server.
`sev`, `old` and `retryCnt` are the locals of the task of
`NetworkCache::readBlock`; `sockets` and `sock` are `_sockets` and `_tlSocket` of
`Connection`; `requested`, `valid` and `fileSize` the fields of the pool; `caller`
and `result` a call of `openFileOnAllServers`; `joined` counts the pushes of a
task; `phase` is how far a pool's destructor is. A critical section of a mutex is
one step; `notify_one` happens after the unlock and is a step of its own, and a
wakeup may be spurious.

Abstracted: a pop yields any entry of the pool (the code prefers the fastest
server), a queue any socket, and a request any outcome. `restartSocket` replaces
a socket in the hands of its user and is part of a failed request. A connection
has at least one socket, else it is not made (`Connection.cpp:684`). Pools are deleted
by `tazerCleanup` only, after the transfer pool, and nobody opens then: that is
the guard of `DeletePool`.

| Run | Instance | Shows |
| --- | --- | --- |
| `pool` | 1 thread, 1 retry, 2 calls open one file on 2 servers, then the process ends | `EntriesConserved`, `NoLostWakeup`, `OpenFailsOnlyIfAllFail`, `PoolOutlivesTasks` |
| `pool_live` | 1 thread, 2 retries, 1 call, 2 servers | `TransferEnds`, `PoolFreed` |

Bounds: `MaxRetry` is 10 in the code; 2 lets a thread go round the loop again
with an entry it once gave back. A server has one socket, which is the default;
two calls that open the same file, and a transfer, contend for it. The two calls
may be exchanged, and so may the two servers with their sockets: that is the
symmetry set of `pool`. `Sizes` has one value: what two do is in section 4. Deadlock is not checked since a process ends with its
pools freed; that nobody waits for ever is what `pool_live` is for.

Fairness: each thread is scheduled, and a request ends. It is weak: with several
transfer threads a spinning one may always find the pool empty, so
`TransferEnds` is stated for one thread, which is what the client makes
(`Lib.cpp:117`). It needs more entries than threads. Section 4
says what happens without that condition.

Proved in `ConnectionPoolProofs`, for any finite sets of threads, files, servers,
sockets and calls and any `MaxRetry`: the invariants of the run `pool`, with
`TypeOK`, `SocketsConserved` and `PoolServes`, from the inductive invariant `IInv` (`PoolInductive`). It adds to them what they rest on:
`TaskSound` (the locals `sev`, `oldSev` and the retry count agree with a transfer
task's place), `SocketSound` (an actor has a `_tlSocket` just while it sends its
request), `OpenSound` (`_servers_requested` is the number of open tasks that
started and have not ended; a task that found the file, a set `_valid_server` and
a caller about to return know a size, unless all its tasks failed) and
`PhaseSound` (nobody opens or transfers while a pool is deleted). The counting
arguments use the cardinality theorems: an open task that starts or ends adds
or removes one element of `ActiveTasks`; a socket that is taken or given back
and the actor that does it enter and leave `Free` and `Coming` together.
`PoolServes` follows from `EntriesConserved` alone: if no entry of a pool is in
it or in use, each is the `oldSev` of a different thread, so there are no more
entries than threads. Liveness (`pool_live`) is only model-checked.

### ThreadPool

Callers are the clients of a pool (an `InputFile`, an `OutputFile`, a cache, a
`ServeFile`), each of which calls `initiate`, `addTask` and `terminate()`, and its
owner, which calls `addThreadWithTask` and `terminate(true)` (the server's `main`,
the destructor of the pool). `users`, `alive`, `threads`, `current` and `q` are
`_users`, `_alive`, `_threads`, `_currentThreads` and `_q`; `wpc` and `task` are a
thread's place in `workLoop` and its local; `cpc` is a caller's place; `size` and
`idle` are the locals of the `terminate` that holds `_tMutex`. `by` and `turns`
record who queued a task and how often it queued itself.

A caller that is in `drain`, `sleep` or `stop` holds `_tMutex`, so `addThreads` and
`terminate` of others wait. A critical section of `_qMutex` is one step; `addTask`
notifies after it, in a step of its own, and the wait of `workLoop` is not
repeated when nothing is queued. `terminate` reads `_q.size()` without
`_qMutex`: the model lets it see any size the queue has at that moment. A thread
is `exited` when it has decremented `_currentThreads`; the join comes later.

Abstracted: any task may be taken first, which covers the list of `ThreadPool` and
the order of `PriorityThreadPool`. A task runs, and may add itself again
(`Repeating`), as `OutputFile::addTransferTask` and `pollConnection` do; each task
is queued by at most one caller. While the owner stops the pool nobody else calls
it: the pools are deleted, or the process ends.

| Run | Instance | Shows |
| --- | --- | --- |
| `threadpool` | 2 clients, the owner, 2 threads, 2 tasks of which one adds itself once (and the lock, see above) | `ThreadsMatchUsers`, `NoLostWakeup`, `NothingForgotten`, `TerminateEnds`, `TasksServed` |

Bounds: two clients let one terminate while the other uses the pool; two threads
let a wakeup go to the wrong one; `MaxTurns` 1 is enough for a task that returns
to a queue the drain has seen empty. `Patience` is 10 in the code; with 2 the
drain can make progress, wait again and give up. Deadlock is not checked since
nobody has to call a pool.

Fairness: threads run, tasks end, and a call that began goes on (each weakly, per
thread and per caller). Nobody has to call anything. `TasksServed` is about a pool that
is used and not being stopped; what happens to a task otherwise is
`NothingForgotten`: it stays behind only when the drain gave up, with the message
of line 147, or when it added itself again after the drain.

Proved in `ThreadPoolProofs`, for any finite sets of clients, threads and tasks, any
`MaxTurns` and any `Patience`: the invariants of the run, with `TypeOK` and `CountExact`, from the inductive
invariant `IInv` (`ThreadPoolInductive`). It adds `OneTerminates` (one caller at a
time is past the test of `_users`), `WorkersSound` (a thread's place, its task and
its membership in `_threads` agree, and none leaves a live pool), `QueueSound` and
`StopSound` (a client that stops the threads was the last user; a pool is dead only
while it is stopped, or after force). `NoLostWakeup` counts: a task that enters
the queue comes with a caller or a thread about to notify, which either passes its
place on to a sleeping thread or finds none, and a thread takes at most one
task for its place. `ThreadsMatchUsers` counts the users in the same way.
`TerminateEnds` and `TasksServed` are only model-checked.


### WritePath, OutputFileSpec and WritePathProofs

Clients with one descriptor each write to one output file. On the client's side
`app` is the place of the application in `open`, `write` or `close`; `buffer`,
`pos`, `size`, `seqNum` and `sendNum` are the fields of `OutputFile`; `compQ` and
`xferQ` its two pools' chunks, `xfer` the transfer thread. `net[c][s]` is what is
under way on a socket. On the server `handler` is the thread that polls a
connection, `served` the `ServeFile` with its users in `Trackable`, `tasks` the
queue of its pool, which has one thread, and `content` the file on disk.

A full buffer becomes a chunk with the next number; a compress thread may take
any chunk, the transfer thread one whose turn it is (else it queues it again) and
waits for the answer with the socket locked. The server looks the file up and
then uses it without being counted, copies the data to a task and acknowledges
before they are written. A socket may break: what was sent may or may not have
arrived, and no answer comes back.

`OutputFileSpec` is the promise without breaks: an open of a file nobody has
open empties it, what a client hands over is appended in order and not twice, and
when the last one leaves everything is in the file. `WritePath` implements it
with `log <- content` and the clients that the server counts (`AppendsInOrder`).

| Run | Instance | Shows |
| --- | --- | --- |
| `write` | 2 clients, one of which compresses, 2 bytes each, 2 to a buffer, no breaks | `WritesFindTheirFile`, `AppendsInOrder`, `OnDiskAtLast` |
| `write_faults` | 1 client, 3 bytes, a seek, a broken socket, `removeOutput` | `BufferFollowsPosition`, `AtMostOnce`, `CloseEnds` |

Two runs, because the promise holds only without breaks, and the fault run has
what the promise leaves out. Bounds: two clients are the least that share a
ServeFile; two bytes with buffers of two make one or two chunks, three make a
chunk that overtakes another possible in both pools (`CompThreads` is 2). One
break hits every step of open, write and close. Fairness: the application goes on
with a call that it began, each pool's thread and each handler is scheduled;
nobody has to write or to close.

Proved in `WritePathProofs`, for any finite set of clients and any number of bytes,
seeks, compress threads and bytes to a buffer: with any number of breaks `AtMostOnce`,
`BufferFollowsPosition` and `NoNumberMissing`; without breaks `WritesFindTheirFile`
and `UsersExact`. The first three follow from `FileSafety`, which joins three
invariants. `Types` adds to the types that the buffer follows the descriptor, that
an open file has users, and that a socket is restarted only after one broke.
`NumbersInv` says that the chunks on their way have the numbers from `sendNum` to
`seqNum`, each once; without it two chunks with one number could both be sent.
`OneSpot` says that each byte of a client is in one spot at most, of its buffer,
the two pools, the messages on its sockets, a handler, a task and the file. A
property of the file alone is not inductive, since a second copy could be
anywhere on the way; each step is shown to take the byte from one spot to another,
or to lose it, and to leave the other spots alone (`SpotsMoved`, `SpotsKept`).

The last two follow from `WholeInv` and hold only with `MaxBreaks = 0`, their
hypothesis: after a break the client sends its close while the server still has an
earlier write in another thread, and nothing makes the lookup safe then. `TurnsInv`
says that client and server take turns, with one message, one handler or one answer
between them, and which place of the client goes with which message. `UsersInv`
says that the users are those whose close did not get to `RemoveTrackable` yet,
and that all have the file that is open. Without the turns the close could overtake a write.

`WritesInOrder` proves `AppendsInOrder`, also without breaks, from `OrderInv`: for each client
of the file that is there (`Ordered`), a byte in the file or a chunk in a task has all
earlier bytes before it, in the file or in an earlier task; a chunk in a message or in
a handler has them in the file or in the tasks; a chunk in a pool has them there, under way
or in a chunk with a smaller number; and every byte that left the buffer is in one of those
places. The chunks of the pools come in their turn by `NumbersInv`. Then every step of `WritePath` is a step of
`OutputFileSpec` or a stutter (`StepRefines`). For a task that is appended, the bytes of
its client in the file are those below its first one, each once (`WrittenOnce`), so
their number is what the specification appends after (`AppendedUpTo`); at
the last close nothing is on its way any more, so it is what was given
(`NothingMissing`). `OutputFileSpec` counts the entries of a client, with no
filtered sequence, so no induction over sequences is needed.
`OnDiskAtLast` and `CloseEnds` are only model-checked, being liveness.

### ServerConnections and ServerConnectionsProofs

`main` accepts sockets; `adder` is the task that puts a socket into the
`Connection` of its key (address and port); `active` is `Trackable`'s table, `conn`
the Connections with their users, the slots of `_pfds`, `_inMsgs` and
`_nextSocket`; `poller` is the task `pollConnection` of each, which queues itself
again after a turn. A turn polls, visits the marked slots one message at a time,
answers (every block of a request for several, each of which may fail and close
the socket), adds nothing up but the sockets it closed, and removes the
Connection when it is empty. `alive` becomes false with a close message, and then
`main` stops the pool and deletes the connections.

Run `conns`: two sockets of one client's key, two messages each, up to two
blocks in an answer, one client that hangs up, one failed `poll`. It shows
`SocketsPolled` (an open socket is in one slot of the living Connection of its key),
`MessagesServed` and `ServerStops`. The key contains the client's ephemeral port,
so two sockets with one key are rare in practice; the instance has them because
only they make a Connection's slots, its users and `_inMsgs` interesting.
Fairness: the pool's threads take queued tasks in turn (ServerConnections relies
on `TasksServed` of `ThreadPool`), and `addSocket` gets the lock at last (the
poller gives it back in every turn, hence the strong fairness).

Proved in `ServerConnectionsProofs`, for any numbers of sockets, clients, messages and
failures: `TypeOK`, `SocketsPolled`, `UsersCoverSockets`, `EventsCounted`,
`PolledWhileAlive` and `SendsToOpenSocket`, of which the run checks the first invariant
only. `UsersCoverSockets` is not inductive: `removeConnection` takes one user off
however many sockets the turn closed, and what makes that safe is `UsersSound`, that a turn in
which a socket was closed owes at most one of the users that are left over. `SlotCount`
(no socket in two slots, only slots with a socket marked, `_inMsgs` of them) and
`TaskSound` (the socket that is served is in a slot that is no longer marked, so that closing
it leaves `_inMsgs` right) are about a Connection and its task; `SocketSound` ties
a socket's state, its adder and the table of Connections together, and `LifeSound` says
that a task that has its turn has a Connection until the server ends.

### ClientCleanup

The end of a client, `tazerCleanup`: `cleanup` is where the program's thread is in it,
`objects` what it has not deleted yet, in the order of `Lib.cpp:206-208` and `~Cache`.
A job is one block that a read or a prefetch asks for: `asker[j]` is the place of the
asking, `transfer[j]`, `unpack[j]` and `writeBack[j]` its tasks in `_transferPool`,
`_decompressionPool` and `_writePool`, each of which has one thread
(`Config.h:108-110`, `Lib.cpp:117`), and `ready[j]` is set by the task before it ends. What
`terminate` does is taken from `ThreadPool`: it waits for the queue, or gives up, and joins
the threads, which end the tasks they have.

It goes along in the run `conns`, with which it shares nothing (one of the two moves and
the other stays as it began): one read and two prefetches. `CleanupSound` says that
whoever asks, and each of their tasks, has what it uses until it ends (`UsersOutlived`:
the pools it adds to, the caches it reports to), and that the cleanup ends: nobody waits
for a task in a pool that is gone. It rests on the order, the count `_outstandingWrites`
being asked twice, and the join of the prefetch thread. Two prefetches let one stay in the queue while
the other is under way; with two reads as well it holds, too (780 thousand states). Fairness is
weak for each job's steps and for the cleanup; the server answers at last. Not here: the
pools of `OutputFile`, other threads of the program that go on reading (a correct
program's do not), and the caches in files, which have write pools of their own.

Proved in `ServerConnectionsProofs`, for any reads and prefetches: `UsersOutlived`
(`UsersAreOutlived`); that the cleanup ends stays with TLC. `CleanupInv` adds to it what ties
a task to the one who asked for it: a transfer or a decompression that is queued or runs has
not made its request ready, so whoever asked is still testing or waiting (`JobSound`), and that
nobody asks once the prefetches were joined, nothing is written once the writes settled after
that, and what is there at each stage (`StageSound`).

### FileCache and FileCacheProofs

`NewBoundedFilelockCache` and `NewBoundedLinkfileCache`: one bin of a cache in
files that processes of several nodes share. `dir` says which files are there,
`shm[n]` the flags' memory of a node, `start[p]` the place in the constructor;
`flag` is `_writers`, per node with `fcntl` and per process with links;
`fileLock` the `fcntl` lock or the link; `disk` and `data` the two files, `copy[p]`
the entries in a process's memory, which all its threads read into and change
without a lock when they poll. Every access to a file is a step, since a process
may be killed (`Crash`) or exit (`Gone`) between any two. The kernel gives back
the file locks of a dead process, but neither its link nor its flag.

`lost[i]` is a history that no step reads: how many changes of entry `i` never got to disk,
since a poll of another thread of the process read over them between `Update` and `Store`
(`Overwrites`). A request that is counted in one entry and later finds its block in another adds
to it, too: it takes itself off where it was not counted.

| Run | Instance | Shows |
| --- | --- | --- |
| `filecache` | 2 nodes, both kinds of lock, one entry for two blocks; one request of each of 3 processes, one of which may be killed, or two requests of one process and one of another for the same block | `OneInBin`, `ServesOwnBlock`, `CountBehindByLost`, `RequestsServed` |
| `filecache_counts` | the same | that `CountCoversUsers` fails |

`CountCoversUsers`, that a count on disk is never less than the users of its entry, is what the comment before
`blockAvailable` relies on (`NewBoundedFilelockCache.cpp:476-477`). It is false: two requests of
one process and one of another are enough, of which the first polls while the second has
incremented the shared copy and not written it. `CountBehindByLost` is what the code keeps: a
count falls behind by one for each such poll at most, and by nothing else.

Bounds: two processes of a node share its flags, the third is
kept out by the file only; one entry makes the two blocks collide; two requests of one process
for a block are the least that share a copy, and the third, of another process, is the one for whom they wait.
Eviction is in the model but is not reached, other than by the mutant of `ServesOwnBlock`, since an
entry that was filled keeps a user for ever (as in `BlockCache`). `RequestsServed` makes an exception of requests near a
process that ended, which the code does not save: with links any other request, with `fcntl`
those of its node, and, if it ended while it held the mutex of the flags
(`_shmLock`), those of any node that then wait for a process of that one.
Fairness: processes are scheduled and a wait ends in time (weak, for `Start`, and for `Step` or
`PollTimeout` of each request), and each of the two spins gets its turn
(random waits), hence strong for `LockFlag` and `LockFile`.

Proved in `FileCacheProofs`, for any sets of processes, nodes, requests and
blocks, any number of requests of a process, any `Assoc` and any number of crashes. First `TypeOK` and `OneInBin`. What is
inductive is not exclusion but whose lock it is: `FileOwned` (who is in the bin or
leaves it has the file in its name), `FlagOwned` (who wants or has the file set the
flag), `ThenKnown` and `WayKnown` (a request in the bin knows where it goes on and
which entry it is about). The end of a process takes the file from its own
requests only, and those are no longer in the bin.

Then `CountBehindByLost` (`UsersCovered`), without any condition, from `CountLaw`: the count and
`lost` together are at least the number of users, and as long as a change is in the copy only, what
will be written agrees with that.

Last, what holds until something is lost (`NothingLost`): `ServesOwnBlock`, `CountCoversUsers`
(`CountsProtect`, which follows from the bound) and `WrittenIsAvailable`, the first and the last from `BinInv`, which TLC checked
on instances with two requests of a process and with two entries. Its parts: what is on disk has at
most one entry of a block, fills its entries in order, and has the data of every
available entry (`EntriesOK`); a count is at least the number of its users, and more than the
number of those that will take themselves off again, so it never comes back to nothing and no
entry is given to another block (`CountsOK`, `NeverFree`); who is counted finds its block in
its entry (`UsersFindBlock`); the copy that a request in the bin changes is what it
read (`CopySound`): other requests of its process poll into that copy without a lock, and what they
read is what it had read, or a change is lost. `Phase` and `BinWasFull` say what a request has reserved by when.

### ClientFiles

`file`, `desc` and `stream` are the three `Trackable` tables of the client library,
`objs` the `TazerFile` objects ever made with their vector of positions, `opened`
and `used` the descriptors and FILEs of the operating system, which gives out the
lowest free descriptor and any free address. A thread `th[t]` is in one of open,
fopen, read, close, fclose, stat; each access to a table is one step, since
`Trackable` holds its lock throughout, and so is each access to a position, which
has no lock. The program is a correct one: a descriptor is used by one thread and
not after its close.

`fclose` gives the FILE back to the C library, and with it the descriptor, before the entry of the
stream is removed (`KernelClose`, `RemoveStream`), so that `AddStream` of another thread
may join an entry that is still there. If the descriptor is the same, which is so when nothing
else was opened or closed in between, this does no harm. If it is not, the calls of the new stream go
to the file of the old descriptor. `strayed`, a history that no step reads, says that this has happened. What
follows is modelled as the code does it: a call uses the file of another thread, a deleted one
(`UsesDeleted`) or none (`NoFile`); in the last two cases the process may end (`Dies`).

Run `clientfiles`, its first part: a thread with descriptors and two with streams, two
files, two descriptors, one FILE pointer, three opens: `FindsItsFile` (until a stream strays, a call finds the
file it opened, a live one, and a position of its own) and `NothingLeft` (the same for the tables at the
end). One pointer makes the two streams meet in one entry, with the same descriptor and with different ones;
three opens let a thread reuse a descriptor that another has just closed while its tables still
change. Both kinds of joining happen in the run, and both properties fail there without their `~strayed`.

Proved in `ServerConnectionsProofs`, for any threads, streams, files, descriptors and addresses and any
number of opens: `FindsItsFile` (`CallsFindTheirFile`) and `NothingLeft` (`NothingIsLeft`). The three tables
count their users each on its own, so `FilesInv` ties them together: a descriptor of the system
is with one thread (`Apart`), from before its entry is made until after it is removed, so that the entry of a
descriptor always has one user and is its thread's (`ThreadSound`, `EntriesOwned`); the entry of a stream counts
the threads that joined it and have not left it (`StreamCounted`), and has the descriptor of each of
them (`ThreadSound`); a name counts
exactly the threads between its `AddFile` and their `RemoveFile` (`FileCounted`), and an object
that is alive is that of one name (`ObjectsNamed`), so that the last close of a name deletes
what nobody else uses. A thread whose stream is not yet removed may have lost its descriptor
to another thread, which is why `Apart` ends with `KernelClose`. What is inductive is
`FilesSafe`: a stream has strayed, the process has ended, or `FilesInv` holds.

### ReadPath

One position of an open file: `pos` and `eof` are `_filePos[index]` and `_eof[index]`,
`source` the file with its block size and its prefetcher, `call` where the last call
began and what it stored, `ahead` the blocks it asked for in advance and `lastIndex`
the place in a `PerfectPrefetcher`'s trace. The calls are `read` and `fread` (one
`Read`), `readv`, `fgetc`, `fgets`, and `lseek`, `fseek` and `ftell`. A read is the whole handler: the
block numbers of `InputFile::read` (`LocalFile::read` has the same), the bytes of
`LocalFileCache::getBlockData`, `copyBlock` for every block and the prefetcher's
list, with unsigned integers of `Word` and `Long` values. How the blocks come is the
matter of `BlockCache` and `LocalCache`; here they have come.

`MCClientFiles` takes it along in the run `clientfiles`: a behaviour is one of
`ClientFiles`, of `ReadPath`, of `SharedMemory` or of `UrlFiles` (each moves only while the
others are in their initial states). `ReadsExact` compares what a call stored with a plain
definition, the bytes from its position on in their places, for files up to 6 bytes,
block sizes 1 to 3, positions that any sequence of seeks and reads leads to, past the end and
after wrapping around, too, and counts from nothing to more than the file; and it says
that no block outside of the file is asked for in advance, whatever the sign of the delta
and wherever the trace ends. The files cover less than a block,
whole blocks, and blocks with a rest. A word of 16 is more than the largest file and
count, so that nothing is said of counts that do not fit into it, nor of
`fgets` in a file of which the size does not fit an `int` (section 4).

Proved in `BlockCacheProofs`: `ReadsExact` (`ReadsAreExact`), for any `Word` and `Long`, any block
sizes, and files of any size below `Word`. The work is in arithmetic: what the first and the last block
number bound (`FirstBlock`, `LastBlock`), that the cases of `copyBlock` are all
one rule, the part that the block has in common with the read (`PartOfBlock`), and that these
parts are together the bytes of the read (`StoredBytes`). The prefetchers need `PrefetchFits`: `MaxSize`
and `1 + MaxDelta + num` blocks do not exceed `Long`. Its instance satisfies it, and with 64 bits so does
every file of less than 2^32 bytes with a delta and a number of blocks of that order. Without it
a block number times the block size wraps around to a block that seems to be in the file. With it
a negative delta does lead to a block number near `Long`, but its product wraps around behind the
end of the file (`WrapsBehind`), and the list stays empty. `ReadInv` joins to `ReadsExact` what
the prefetcher is like and that the index of a trace never runs past it.

### SharedMemory

How processes of a node come to share memory: `memory` is the object of
`NewSharedMemoryCache` (`SharedMemoryCache` has the same constructor), `table` that of
`FileCacheRegister`, each with whether it was made (`shm_open` with `O_EXCL` had
success), its flag, its lock and its content; `once` is what keeps a process from doing either
twice. A thread `work[w]` opens one file in one process: it gets the cache, the
register, an index for the file's name, and puts a block of that index into the cache.
Every access to the memory is a step; what runs under a lock of the memory is several,
since a process may be killed anywhere (`Kill`) and started again, with the objects as
they are. Run `clientfiles`, its third part: two processes, two names, two kills.
`SharedMemoryKept` fails if a process uses the memory before the flag. A maker that is killed
before it set the flag leaves the others waiting for ever (`NewSharedMemoryCache.cpp:113`,
`FileCacheRegister.cpp:163`), as does one killed with a lock: hence no liveness here. There are
no more names than places (section 4).

Proved in `ReaderWriterLockProofs`, for any processes and finite set of names, and any
number of kills: `SharedMemoryKept` (`MemoryIsKept`). It says nothing about who made what, so
that a step could not keep it alone. `SharedInv` adds, first, that the memory has one maker: it is
made once and never unmade, the thread that makes it stands in the steps from the
`shm_open` that had success to the flag, and everybody who is past these steps, or whose
process remembers the cache (`once`), has seen the flag (`MakerInv`; `ConstructorInv` says
the same of the register). Second, that no name is written twice, and that there
is no gap below `available` while the lock is free: only its holder makes one, between the
number and the name, and one who is killed there keeps the lock (`NamesOnce`,
`WorkerSound`). A holder who found that his name is missing has a place for it, as the names that
are there are different and not his (`RoomForName`).

### UrlFiles

A local file whose name is a URL (a build with curl): `curl` is what the threads of a
process share, the queue of handles with `_started` and the flag and readers of
`_initLock`; `user[u]` a thread with its UrlDownload, first the one that finds the size, then
the one that fetches blocks. `cowardlyTryWriterLock` is two steps, the exchange of the flag
and the look at the readers, as between them another thread may become one. The
header, the count and a block each hold a handle; a block gets the whole file in packets
of any size, from which `WriteMemoryRangeCallback` copies (`CopyOf`), and curl may give
up anywhere: its time limit is one second. A request whose download failed goes on to
the next cache.

Run `clientfiles`, its fourth part: two threads, two handles, a file of 5 bytes in blocks
of 2, with and without handles kept from the start. `DownloadsSound` says that
every handle is free or has one user, that all are there while they are said to be
(`HandlesKept`), and that a block has the right bytes, all of them as far as the file was
counted (`BlocksWhole`). Packets may lie before, in, over and after the block, or stick out
on either side, which is each case of the callback. No liveness: a thread can be left
without handles (section 4).

Proved in `ReaderWriterLockProofs`, for any finite sets of threads and handles, any size of
the file and of a block, and any packets: `DownloadsSound` (`DownloadsAreSound`). `UrlInv` adds
two arguments to it. The handles: a thread that made or destroys them
holds the flag and saw no readers, a thread between `enter` and `leave` is a reader unless the
handles are kept from the start, and the queue and the users' hands hold every handle once
(`HandlesInv`, `UserSound`). The block: what a download has got is the part of the wanted
range that lies in the bytes that have passed (`Arrived`), in order, after each packet, whichever
of the five cases it is (`DownloadInv`).

### LocalCache and LocalCacheProofs

Files on a local disk, read through a `MemoryCache`, a `SharedMemoryCache` and a
`LocalFileCache`: the server's `ServeFile::transferBlk` and the client's
`LocalFile::read`, which build the same chain from the classes under
`caches/bounded/deprecated`. `bin` and `data` are the entries and the memory of one
bin of each cache, `stream` the open file of `_fstreamMap` with its lock and its
position, `status` the users of a file and `req` the requests. The bin's lock is
held during a whole read or write of a level, which is one action; a wait, the
search for the stream, the use of the data and the release by the write pool are
others. Here the counts are given back, so entries are evicted.

Run `localcache`: a server with two clients that ask for one block, and another
process of the node that asks for a second one through the same shared cache;
one entry per bin; one process may be killed. It shows `DataHeld`
(`AnswersOwnBlock` and `CountExact`), `StreamOpenWhileRead` and `EveryRequestAnswered`. Bounds: one entry
for two blocks makes eviction, a full bin and the wait for another's reservation
happen on each level. The invariants were also checked with a fourth request
(2.0 million states). Polls time out only after a kill; fairness is weak for each
request, strong for the stream's lock. Abstracted: any available entry without
users may be given up (the code takes the oldest). A process is killed only
outside of a bin's lock: inside, the lock in the shared memory stays locked and
every process of the node waits.

Proved in `LocalCacheProofs`, for any processes, users, requests, files, blocks, any
`Assoc` and any levels over the disk: `TypeOK`, `DataHeld` and `StreamOpenWhileRead`. That an
answer has its own block needs `Pointing` (a request with data is among the holders of
an available entry, and an available entry has the data of its block); that the counts are
exact needs that a request is counted once in each cache, hence `Descending` (what it has
reserved is above it, with the assumption `LevelsDescend` that the levels end at the
disk) and that a bin has no block twice, hence that bins fill from the front. The stream is open
since `Fetching` ties a request on its way to a user with the file open. A process that is
killed needs no exception: its request stays among the holders for ever, as it does in
the count that is shared.

## 4. What the code does not promise

Each of these was met as a counterexample while a property was tried, or while
the code was read for the models. Definitions named here are in the modules and
show the behaviour with `tlc` when they are checked on the instance described;
no passing run checks them, since they do not hold; `filecache_counts` is a run that shows
one of them.

- *ReservationsReleased* (`BlockCache`, one block, one cache): above its origin,
  `writeBlock` calls `blockSet` with `reservedMap[this] = 1`, which adds a second
  user to a reserved entry, and the decrement is commented out
  (`NewBoundedCache.cpp:332`, `341`, `346-355`). Entries filled from below keep
  their users for ever and are never evicted. The same in `FileCache`.
- *ReadyMeansClientSide* (`BlockCache`): `read` tests `ready` before it waits; a
  transfer thread may have set it, and then the write pool may delete the request
  under that thread's hands (`InputFile.cpp:407`, `NetworkCache.cpp:221-225`, `284`).
- *FailedTransferEnds* (`ConnectionPool`, one server with one socket, which is the
  default, `Config.h:116`): after a failed request the transfer task keeps `oldSev`
  and spins until `popConnection` yields another entry; the only one is its own
  (`NetworkCache.cpp:272-276`). The comments at `Connection.cpp:632` and
  `NetworkCache.cpp:278` say that the connection may be used again. It spins for
  ever, and with it the only transfer thread (`Lib.cpp:117`).
- *OneSizePerPool* (`ConnectionPool`, two servers, two sizes): `_fileSize` is tested
  and set without a lock (`ConnectionPool.cpp:254-255`), so both may join.
- *Reopened* (`WritePath`): `openFileOnServer` returns true whatever came back
  (`OutputFile.cpp:190`), although `Server.cpp:132` expects the client to open
  again.
- *EmptyConnectionsGo* (`ServerConnections`): `removeConnection` ignores how many
  sockets were closed (`Connection.cpp:708`); when two close in one turn, a
  Connection without sockets stays.
- *WrittenIsAvailable* (`FileCache`): a poll reads the entry from disk into the
  shared copy between `blockSet`'s change and its write, so that what was written
  may be lost; the block is then fetched again. This takes two requests of one process for
  the same block; nothing but such a poll does it (`WrittenStays`).
- *CountCoversUsers* (`FileCache`, two requests of one process and one of another for the
  same block): a poll of the first request reads the entry from disk into the process's copy
  while the second is between its change of that copy and the write of it, so that the
  count of the second is lost (`NewBoundedFilelockCache.cpp:483-492`). The comment before it
  relies on the count (`476-477`). TLC finds it in the run `filecache_counts`; what holds without
  exception is `CountBehindByLost`. No entry was found evicted under its user, with three requests of
  a process and two of another either: the user that a filled entry keeps for ever makes up for
  the lost one.
- *PositionKept* (`ClientFiles`, two threads that open one file): `push_back` moves
  the positions (`TazerFile.cpp:275-283`) while a read adds to the old ones
  (`InputFile.cpp:497`); the move of the position is lost.
- *FindsItsFile* and *NothingLeft* once a stream has strayed (`ClientFiles`, two threads that
  use streams): `fclose` gives the FILE and its descriptor back before `removeStream`
  (`Lib.h:242-243`), and an `fopen` that gets the same address joins the old entry. If it has the
  same descriptor this does no harm; with another one, its calls go to that descriptor's file, which
  may be another thread's, deleted or none, and the tables keep entries. Without `~strayed` TLC
  finds both properties violated in the run's instance.
- Outside of the models: `sendWriteMsg` sends `dataSize` bytes even if the
  compressed chunk is longer (`Message.cpp:379`), and a chunk compressed to its own
  size is taken for uncompressed (`Server.cpp:176`); a second `close` queues a freed
  buffer again; a second descriptor at another position makes the loop of
  `OutputFile::write` endless; `seek` has no effect on a file opened for appending
  (`ServeFile.cpp:473-475`); a read of 2^32 bytes or more wraps in `copyBlock`, and
  `fgets` keeps the position in an `int` (`Lib.cpp:497`); `fgetc` at the end of a file
  returns a byte that was never set if no read found `eof` before (`Lib.cpp:482-487`), and
  `ftell` takes `eof` back, since it is a seek; a local file of no bytes is divided by its
  block size of zero (`LocalFile.cpp:192`); a
  file that does not exist is deleted twice, and its destructor removes the stream
  of an index that was never set (`ServeFile.cpp:518`); `LocalFile` and `InputFile` register
  their caches under the same names (`LocalFile.cpp:127`); after 10000 names
  `registerFile` returns 0 (`FileCacheRegister.cpp:140`); a process killed inside a
  lock in shared memory leaves it locked.
- Downloads (`UrlFiles`): a thread whose try for the lock failed because another one was
  about to destroy the handles enters as a reader after that, finds no handles and spins for
  ever (`UrlDownload.cpp:135`, `153-154`, `92-99`), unless a third thread makes new ones. A header
  that came is freed before it is looked at (`UrlDownload.cpp:360-363`), and both looks
  return the opposite of their names (`391`, `401`), so a file that the server does not have
  is taken for one with the bytes of the error page. A count that is cut short by the time
  limit gives a shorter file (`455-456`). A request whose download failed ends at
  `LocalFileCache`, which reads a file of that name. `UnboundedCache::writeBlock` takes the
  block's number for the file's (`UnboundedCache.cpp:110`), which has no effect, as
  neither of the two caches is writable.
- At exit (`ClientCleanup`): the task of a transfer or decompression goes on after it made
  the request ready (`NetworkCache.cpp:145-147`, `283-284`); if `ready` was found set at once
  (`InputFile.cpp:407`) nobody waits for the rest of the task, which uses the caches when
  they may be gone. `UsersOutlived` leaves this tail out.
- Receiving: a block longer than what is expected is refused with its bytes unread, so that
  the next answer on that socket is taken from them; a request for a file that the server does
  not have open, after a restart of the server for instance, gets no answer,
  and the client waits for it for two hours (`RSocketAdapter.cpp:138-143`).

## 5. What is proved, and what only checked

Theorems rest on the assumptions in the modules: `ThreadsFinite`, `Topology`
(which caches, levels and bins fit together, and that the sets of requests are
finite), `NoneIsNoSlot` (the sentinel is none of the values it stands beside), `PoolConstants` of
`ConnectionPool` and of `ThreadPool`, `NoneIsNothing` (the same for the pools;
they name finite sets of actors), `FileCacheConstants`, `ConnectionConstants`,
`CleanupConstants`, `ClientFilesConstants`, `SharedMemoryConstants` (there are as many
places as names), `UrlConstants`, `LocalCacheConstants`, `WriteConstants` and
`LevelsDescend` (the caches of a process end at the disk). For `ReadPath`, `ReadConstants`; its
theorem assumes `PrefetchFits` besides (section 3).
Liveness under fairness stays with TLC; so do ENABLED and anything that needs
induction over data, which the prover does not do. Every safety property of the runs is
proved, both refinements included: what TLC alone checks are the temporal
properties under fairness. Two hypotheses on constants remain, which section 3 justifies: `PrefetchFits` for `ReadsExact`,
and `MaxBreaks = 0`, the promise of `OutputFileSpec`, for what holds of writing only while no
socket breaks. The runs that check these properties satisfy them. `FileCache` and `ClientFiles` have
none, for any number of requests of a process and of threads with streams. Where the code does go
wrong there, a history variable says that it has: `lost` in `FileCache` (a poll has read over a
change) and `strayed` in `ClientFiles` (a stream has joined the entry of another descriptor). Both
are set by the step that does it and read by no other; `CountBehindByLost` bounds
the damage of the first, and the other theorems about these two modules say what holds until
then. Section 4 tells what fails afterwards.

## 6. Not modelled

Formats and transport (Message, RSocketAdapter), statistics, logging and timers
have no behaviour that a state machine would show. lz4 and xxhash are vendored.
`PriorityPool` and `PriorityPool2` are not used, nor are `FcntlCache`, `FilelockCache`
and their locks, whose creation is commented out (`InputFile.cpp:170-182`). Of the
caches under `deprecated`, `MemoryCache`, `SharedMemoryCache` and `BoundedCache` are
`LocalCache`; `FileCache` (an optional burst buffer, `InputFile.cpp:149-161`) and
`BoundedFilelockCache` are not modelled, nor is `UrlFileCache`, which downloads whole files
when an option is set. The rest of section 1 that has no module is
in the plan of section 2.
