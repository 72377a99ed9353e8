------------------------------- MODULE WritePath -------------------------------
(***************************************************************************)
(* Writing: OutputFile in the client processes, the messages, the server's *)
(* handlers and ServeFile.                                                 *)
(*                                                                         *)
(* Each client opens the same output file, writes, seeks and closes.  A    *)
(* write fills a buffer; full buffers become chunks that are compressed by *)
(* one pool and sent by another, one at a time and in the order of their   *)
(* numbers, each on the client's socket, which it locks until the answer   *)
(* came.  On the server the connection of each socket is polled by a       *)
(* thread of its own; a write is copied to a task of ServeFile's pool,     *)
(* which has one thread, and acknowledged.                                 *)
(*                                                                         *)
(* A socket may break: what was sent may or may not have arrived, what was *)
(* answered is lost.  The client notices when it sends or receives.  It    *)
(* restarts the socket after a failed send, and after a failed answer to   *)
(* its open message; it never sends anything twice (Config::socketRetry is *)
(* 1).  An answer that never comes is given up after the time-out of the   *)
(* socket, two hours: no server is slower than that.                       *)
(*                                                                         *)
(* A byte is <<c, k>>, the k-th that client c wrote.  One descriptor for   *)
(* each client: with a second one at another position, the loop of write   *)
(* does not end.                                                           *)
(***************************************************************************)
EXTENDS Naturals, FiniteSets, Sequences, SequencesExt

CONSTANTS Clients,
          Space,         \* what fits into a buffer, outputFileBufferSize
          CompThreads,   \* threads that numClientDecompThreads
          Compressing,   \* the clients whose meta file says to compress
          RemoveOutput,  \* Config::removeOutput
          MaxBytes,      \* bytes that a client writes (a bound)
          MaxSeeks,      \* and how often it seeks (a bound)
          MaxBreaks      \* sockets that break (a bound)

ASSUME WriteConstants ==
  /\ IsFiniteSet(Clients) /\ Space \in Nat \ {0} /\ CompThreads \in Nat \ {0}
  /\ Compressing \subseteq Clients /\ RemoveOutput \in BOOLEAN
  /\ MaxBytes \in Nat /\ MaxSeeks \in Nat /\ MaxBreaks \in Nat

VARIABLES
  app,       \* where the application's thread is in open, write or close
  buffer,    \* [fp, cnt]: _bufferFp and _bufferCnt
  pos, size, \* _filePos of the descriptor, and _fileSize
  given,     \* bytes copied out of the application's memory so far
  rest,      \* what the write that runs still has to copy
  seqNum, sendNum,   \* _seqNum and _sendNum
  compQ,     \* chunks in _decompressionPool, as a set: numbers order them
  xferQ,     \* chunks in _transferPool
  xfer,      \* the transfer thread: [at, chunk]
  sock,      \* the number of the client's socket
  net,       \* for each socket [up, req, rep]: what is under way
  handler,   \* for each socket the server's thread: [at, msg, file]
  served,    \* the ServeFile: [file, users, at], file its number
  created,   \* ServeFiles created so far
  tasks,     \* the queue of ServeFile::_pool: chunks of some file
  content,   \* the bytes of the file on disk
  home,      \* the ServeFile a client's open message led to (history)
  seeks, breaks  \* bounds

fileVars   == <<buffer, pos, size, given, rest, seqNum, seeks>>
poolVars   == <<compQ, xferQ, xfer, sendNum>>
netVars    == <<sock, net, breaks>>
serverVars == <<handler, served, created, tasks, content, home>>
vars == <<app, fileVars, poolVars, netVars, serverVars>>

Sockets == 0 .. MaxBreaks

(* A chunk: its number, where it is to go, and the bytes in it.            *)
Chunks == [seq : Nat, fp : Nat, from : Nat, cnt : Nat]
BytesOf(c, k) == [i \in 1 .. k.cnt |-> <<c, k.from + i>>]

Open  == [type |-> "open"]
Close == [type |-> "close"]
WriteMsg(k) == [type |-> "write", chunk |-> k]

Idle == [at |-> "idle"]

Smaller(m, n) == IF m < n THEN m ELSE n

Init ==
  /\ app = [c \in Clients |-> "new"]
  /\ buffer = [c \in Clients |-> [fp |-> 0, cnt |-> 0]]
  /\ pos = [c \in Clients |-> 0] /\ size = [c \in Clients |-> 0]
  /\ given = [c \in Clients |-> 0] /\ rest = [c \in Clients |-> 0]
  /\ seqNum = [c \in Clients |-> 0] /\ sendNum = [c \in Clients |-> 0]
  /\ compQ = [c \in Clients |-> {}] /\ xferQ = [c \in Clients |-> {}]
  /\ xfer = [c \in Clients |-> Idle]
  /\ sock = [c \in Clients |-> 0]
  /\ net = [c \in Clients |-> [s \in Sockets |->
              [up |-> TRUE, req |-> <<>>, rep |-> <<>>]]]
  /\ handler = [c \in Clients |-> [s \in Sockets |-> Idle]]
  /\ served = [file |-> 0, users |-> 0, at |-> "none"]
  /\ created = 0 /\ tasks = <<>> /\ content = <<>>
  /\ home = [c \in Clients |-> 0]
  /\ seeks = 0 /\ breaks = 0

-------------------------------------------------------------------------------
(* The client's socket.                                                    *)

Current(c) == net[c][sock[c]]

(* clientSendRetry: a message that cannot be sent is lost and the socket   *)
(* restarted.                                                              *)
Send(c, m) ==
  IF Current(c).up
  THEN /\ net' = [net EXCEPT ![c][sock[c]].req = Append(@, m)]
       /\ UNCHANGED <<sock, breaks>>
  ELSE /\ sock' = [sock EXCEPT ![c] = @ + 1]
       /\ UNCHANGED <<net, breaks>>

Sent(c) == Current(c).up

(* An answer arrives.                                                      *)
Receive(c) ==
  /\ Current(c).rep # <<>>
  /\ net' = [net EXCEPT ![c][sock[c]].rep = Tail(@)]
  /\ UNCHANGED <<sock, breaks>>

(* No answer will arrive: the socket is broken, or the server has nothing  *)
(* to say, which the time-out of the socket ends.                          *)
NoAnswer(c) ==
  /\ Current(c).rep = <<>>
  /\ Current(c).up => /\ Current(c).req = <<>>
                      /\ handler[c][sock[c]].at \in {"idle", "remove", "delete"}
  /\ UNCHANGED netVars

(* restartSocket, of a socket that broke.                                  *)
Restart(c) ==
  /\ ~Current(c).up /\ Current(c).rep = <<>>
  /\ sock' = [sock EXCEPT ![c] = @ + 1]
  /\ UNCHANGED <<net, breaks>>

Break(c) ==
  /\ breaks < MaxBreaks /\ breaks' = breaks + 1
  /\ Current(c).up
  /\ \E arrives \in BOOLEAN :
       net' = [net EXCEPT ![c][sock[c]] =
                 [up |-> FALSE, req |-> IF arrives THEN @.req ELSE <<>>,
                  rep |-> <<>>]]
  /\ UNCHANGED <<app, fileVars, poolVars, sock, serverVars>>

-------------------------------------------------------------------------------
(* The application's thread in OutputFile.                                 *)

(* open: the file is active, whatever became of the message.               *)
OpenFile(c) ==
  /\ app[c] = "new"
  /\ Send(c, Open)
  /\ app' = [app EXCEPT ![c] = IF Sent(c) THEN "opening" ELSE "ready"]
  /\ UNCHANGED <<fileVars, poolVars, serverVars>>

OpenEnd(c) ==
  /\ app[c] = "opening" /\ app' = [app EXCEPT ![c] = "ready"]
  /\ Receive(c) \/ Restart(c)
  /\ UNCHANGED <<fileVars, poolVars, serverVars>>

(* The first n bytes of the buffer, as the next chunk, to the pools.       *)
AddChunk(c, n) ==
  LET k == [seq |-> seqNum[c], fp |-> buffer[c].fp, cnt |-> buffer[c].cnt + n,
            from |-> given[c] - buffer[c].cnt]
  IN  /\ seqNum' = [seqNum EXCEPT ![c] = @ + 1]
      /\ IF c \in Compressing
         THEN compQ' = [compQ EXCEPT ![c] = @ \cup {k}] /\ UNCHANGED xferQ
         ELSE xferQ' = [xferQ EXCEPT ![c] = @ \cup {k}] /\ UNCHANGED compQ

Write(c) ==
  /\ app[c] = "ready" /\ app' = [app EXCEPT ![c] = "writing"]
  /\ \E n \in 1 .. MaxBytes - given[c] :
       /\ rest' = [rest EXCEPT ![c] = n]
       /\ pos'  = [pos EXCEPT ![c] = @ + n]
       /\ size' = [size EXCEPT ![c] = IF pos'[c] > @ THEN pos'[c] + 1 ELSE @]
  /\ UNCHANGED <<buffer, given, seqNum, seeks,
                 poolVars, netVars, serverVars>>

(* A mutant: what is in the buffer already is forgotten.                   *)
BufferEndsMutant(c) ==
  \/ rest[c] > Space
  \/ buffer[c].cnt + buffer[c].fp # pos[c] - rest[c]

(* The loop of write: the buffer is full, or is for another position.      *)
BufferEnds(c) ==
  \/ rest[c] > Space - buffer[c].cnt
  \/ buffer[c].cnt + buffer[c].fp # pos[c] - rest[c]

FillBuffer(c) ==
  /\ app[c] = "writing" /\ BufferEnds(c)
  /\ LET n == Smaller(rest[c], Space - buffer[c].cnt)
     IN  /\ AddChunk(c, n)
         /\ rest'   = [rest EXCEPT ![c] = @ - n]
         /\ given'  = [given EXCEPT ![c] = @ + n]
         /\ buffer' = [buffer EXCEPT ![c] = [fp |-> @.fp + @.cnt + n, cnt |-> 0]]
  /\ UNCHANGED <<app, pos, size, seeks, xfer, sendNum,
                 netVars, serverVars>>

(* The transfer thread takes a chunk off the queue before it knows whether *)
(* it is its turn, so that one chunk more or less may be counted.          *)
NumTasks(c) ==
  {Cardinality(xferQ[c])} \cup
  (IF xfer[c] = Idle /\ xferQ[c] # {} THEN {Cardinality(xferQ[c]) - 1} ELSE {})

(* What is left is copied, and sent at once if nothing waits to be sent.   *)
WriteEnd(c) ==
  /\ app[c] = "writing" /\ ~BufferEnds(c)
  /\ app'   = [app EXCEPT ![c] = "ready"]
  /\ rest'  = [rest EXCEPT ![c] = 0]
  /\ given' = [given EXCEPT ![c] = @ + rest[c]]
  /\ \/ /\ 0 \in NumTasks(c)
        /\ AddChunk(c, rest[c])
        /\ buffer' = [buffer EXCEPT ![c] = [fp |-> pos[c], cnt |-> 0]]
     \/ /\ NumTasks(c) # {0}
        /\ buffer' = [buffer EXCEPT ![c].cnt = @ + rest[c]]
        /\ UNCHANGED <<seqNum, compQ, xferQ>>
  /\ UNCHANGED <<pos, size, seeks, xfer, sendNum, netVars, serverVars>>

(* A mutant: the buffer keeps the position it had.                         *)
SeekMutant(c) ==
  /\ seeks < MaxSeeks /\ seeks' = seeks + 1
  /\ app[c] = "ready"
  /\ AddChunk(c, 0)
  /\ \E p \in {0, pos[c], size[c]} : pos' = [pos EXCEPT ![c] = p]
  /\ buffer' = [buffer EXCEPT ![c].cnt = 0]
  /\ UNCHANGED <<app, given, rest, size, xfer, sendNum, netVars, serverVars>>

(* seek, to the start, to where it is, or to the end: the buffer is sent   *)
(* even if it is empty.                                                    *)
Seek(c) ==
  /\ seeks < MaxSeeks /\ seeks' = seeks + 1
  /\ app[c] = "ready"
  /\ AddChunk(c, 0)
  /\ \E p \in {0, pos[c], size[c]} :
       /\ pos' = [pos EXCEPT ![c] = p]
       /\ buffer' = [buffer EXCEPT ![c] = [fp |-> p, cnt |-> 0]]
  /\ UNCHANGED <<app, given, rest, size, xfer, sendNum,
                 netVars, serverVars>>

(* A mutant: a buffer that is not full is not sent.                        *)
CloseFileMutant(c) ==
  /\ app[c] = "ready" /\ app' = [app EXCEPT ![c] = "draining"]
  /\ UNCHANGED <<fileVars, poolVars, netVars, serverVars>>

(* close: the rest of the buffer is sent, then every chunk must have had   *)
(* its turn, then the server is told, and its answer waited for.           *)
CloseFile(c) ==
  /\ app[c] = "ready" /\ app' = [app EXCEPT ![c] = "draining"]
  /\ IF buffer[c].cnt > 0 THEN AddChunk(c, 0)
                          ELSE UNCHANGED <<seqNum, compQ, xferQ>>
  /\ UNCHANGED <<buffer, pos, size, given, rest, seeks, xfer, sendNum,
                 netVars, serverVars>>

CloseDrained(c) ==
  /\ app[c] = "draining" /\ seqNum[c] = sendNum[c]
  /\ app' = [app EXCEPT ![c] = "closing"]
  /\ Send(c, Close)
  /\ UNCHANGED <<fileVars, poolVars, serverVars>>

CloseEnd(c) ==
  /\ app[c] = "closing" /\ app' = [app EXCEPT ![c] = "closed"]
  /\ Receive(c) \/ NoAnswer(c)
  /\ seqNum'  = [seqNum EXCEPT ![c] = 0]
  /\ sendNum' = [sendNum EXCEPT ![c] = 0]
  /\ UNCHANGED <<buffer, pos, size, given, rest, seeks,
                 compQ, xferQ, xfer, serverVars>>

-------------------------------------------------------------------------------
(* The pools of the client process.                                        *)

(* Chunks are compressed in the order they came, up to CompThreads of them *)
(* at a time, and may be done in any order.                                *)
CompressChunk(c) ==
  /\ \E k \in compQ[c] :
       /\ Cardinality({j \in compQ[c] : j.seq < k.seq}) < CompThreads
       /\ compQ' = [compQ EXCEPT ![c] = @ \ {k}]
       /\ xferQ' = [xferQ EXCEPT ![c] = @ \cup {k}]
  /\ UNCHANGED <<app, fileVars, xfer, sendNum, netVars, serverVars>>

(* The chunk with the lowest number is first.  A task that finds that it   *)
(* is not its turn puts itself back, which changes nothing.                *)
First(c, k) == \A j \in xferQ[c] : k.seq <= j.seq

(* A mutant: chunks are sent as they come.                                 *)
HasTurnMutant(c, k) == k \in xferQ[c]

HasTurn(c, k) == k.seq = sendNum[c]

(* A mutant: a chunk that could not be sent does not end its turn.         *)
TransferMutant(c) ==
  /\ xfer[c] = Idle
  /\ \E k \in xferQ[c] :
       /\ First(c, k) /\ HasTurn(c, k)
       /\ xferQ' = [xferQ EXCEPT ![c] = @ \ {k}]
       /\ Send(c, WriteMsg(k))
       /\ xfer' = [xfer EXCEPT ![c] = IF Sent(c) THEN [at |-> "answer", chunk |-> k]
                                               ELSE Idle]
  /\ UNCHANGED <<app, fileVars, compQ, sendNum, serverVars>>

Transfer(c) ==
  /\ xfer[c] = Idle
  /\ \E k \in xferQ[c] :
       /\ First(c, k) /\ HasTurn(c, k)
       /\ xferQ' = [xferQ EXCEPT ![c] = @ \ {k}]
       /\ Send(c, WriteMsg(k))
       /\ xfer' = [xfer EXCEPT ![c] = IF Sent(c) THEN [at |-> "answer", chunk |-> k]
                                               ELSE Idle]
  /\ sendNum' = [sendNum EXCEPT ![c] = IF Sent(c) THEN @ ELSE @ + 1]
  /\ UNCHANGED <<app, fileVars, compQ, serverVars>>

(* Mutants: only an acknowledged chunk ends its turn; or it is sent again. *)
TransferEndUnanswered(c) ==
  /\ xfer[c].at = "answer" /\ xfer' = [xfer EXCEPT ![c] = Idle]
  /\ \/ Receive(c) /\ sendNum' = [sendNum EXCEPT ![c] = @ + 1]
     \/ NoAnswer(c) /\ UNCHANGED sendNum
  /\ UNCHANGED <<app, fileVars, compQ, xferQ, serverVars>>
TransferEndRetry(c) ==
  /\ xfer[c].at = "answer" /\ xfer' = [xfer EXCEPT ![c] = Idle]
  /\ \/ Receive(c) /\ sendNum' = [sendNum EXCEPT ![c] = @ + 1] /\ UNCHANGED xferQ
     \/ /\ Restart(c) /\ UNCHANGED sendNum
        /\ xferQ' = [xferQ EXCEPT ![c] = @ \cup {xfer[c].chunk}]
  /\ UNCHANGED <<app, fileVars, compQ, serverVars>>

(* With or without an acknowledgement, it is the next chunk's turn.        *)
TransferEnd(c) ==
  /\ xfer[c].at = "answer" /\ xfer' = [xfer EXCEPT ![c] = Idle]
  /\ Receive(c) \/ NoAnswer(c)
  /\ sendNum' = [sendNum EXCEPT ![c] = @ + 1]
  /\ UNCHANGED <<app, fileVars, compQ, xferQ, serverVars>>

-------------------------------------------------------------------------------
(* The server's threads, one for each socket.                              *)

At(c, s, a) == handler[c][s].at = a
To(c, s, h) == handler' = [handler EXCEPT ![c][s] = h]
GoTo(c, s, a) == To(c, s, [at |-> a])

Answer(c, s) ==
  /\ net' = [net EXCEPT ![c][s].rep =
               IF net[c][s].up THEN Append(@, "answer") ELSE @]
  /\ UNCHANGED <<sock, breaks>>

ServerOnly == UNCHANGED <<app, fileVars, poolVars>>

(* pollConnection: the next message, which may be there though the socket  *)
(* is broken by now.                                                       *)
Poll(c, s) ==
  /\ At(c, s, "idle") /\ net[c][s].req # <<>>
  /\ LET m == Head(net[c][s].req)
     IN  To(c, s, IF m.type = "write" THEN [at |-> "write", chunk |-> m.chunk]
                                      ELSE [at |-> m.type])
  /\ net' = [net EXCEPT ![c][s].req = Tail(@)]
  /\ ServerOnly
  /\ UNCHANGED <<sock, breaks, served, created, tasks, content, home>>

(* Trackable keeps its lock while it deletes.                              *)
MutexFree == served.at # "dying"

(* A mutant: only the first client is counted.                             *)
ServerOpenMutant(c, s) ==
  /\ At(c, s, "open") /\ MutexFree
  /\ IF served.at = "none"
     THEN /\ created' = created + 1
          /\ served' = [file |-> created + 1, users |-> 1, at |-> "open"]
          /\ content' = <<>>
     ELSE UNCHANGED <<served, created, content>>
  /\ home' = [home EXCEPT ![c] = served'.file]
  /\ GoTo(c, s, "opened")
  /\ ServerOnly /\ UNCHANGED <<netVars, tasks>>

(* openFile: the file is there, or is created, which empties it on disk.   *)
ServerOpen(c, s) ==
  /\ At(c, s, "open") /\ MutexFree
  /\ IF served.at = "none"
     THEN /\ created' = created + 1
          /\ served' = [file |-> created + 1, users |-> 1, at |-> "open"]
          /\ content' = <<>>
     ELSE /\ served' = [served EXCEPT !.users = @ + 1]
          /\ UNCHANGED <<created, content>>
  /\ home' = [home EXCEPT ![c] = served'.file]
  /\ GoTo(c, s, "opened")
  /\ ServerOnly /\ UNCHANGED <<netVars, tasks>>

(* An answer that cannot be sent undoes it.                                *)
ServerOpenAnswer(c, s) ==
  /\ At(c, s, "opened")
  /\ Answer(c, s)
  /\ GoTo(c, s, IF net[c][s].up THEN "idle" ELSE "remove")
  /\ ServerOnly /\ UNCHANGED <<served, created, tasks, content, home>>

(* writeDataToFile: without a file there is no answer.                     *)
Lookup(c, s) ==
  /\ At(c, s, "write") /\ MutexFree
  /\ IF served.at = "open"
     THEN To(c, s, [at |-> "data", chunk |-> handler[c][s].chunk,
                    file |-> served.file])
     ELSE GoTo(c, s, "idle")
  /\ ServerOnly /\ UNCHANGED <<netVars, served, created, tasks, content, home>>

(* writeData of the file that was found: a copy goes to the pool, unless   *)
(* the file's destructor has _prefetchLock, or ran already (anything may   *)
(* happen then; that the data are dropped stands for it).                  *)
WriteData(c, s) ==
  /\ At(c, s, "data")
  /\ tasks' = IF served.at = "open" /\ served.file = handler[c][s].file
              THEN Append(tasks, [client |-> c, chunk |-> handler[c][s].chunk])
              ELSE tasks
  /\ GoTo(c, s, "ack")
  /\ ServerOnly /\ UNCHANGED <<netVars, served, created, content, home>>

Acknowledge(c, s) ==
  /\ At(c, s, "ack") /\ GoTo(c, s, "idle")
  /\ Answer(c, s)
  /\ ServerOnly /\ UNCHANGED <<served, created, tasks, content, home>>

(* closeFile: the answer first, then the file is removed.                  *)
ServerClose(c, s) ==
  /\ At(c, s, "close") /\ GoTo(c, s, "remove")
  /\ Answer(c, s)
  /\ ServerOnly /\ UNCHANGED <<served, created, tasks, content, home>>

(* A mutant: whoever closes deletes.                                       *)
RemoveUserMutant(c, s) ==
  /\ At(c, s, "remove") /\ MutexFree
  /\ IF served.at = "none" THEN UNCHANGED served /\ GoTo(c, s, "idle")
     ELSE served' = [served EXCEPT !.at = "dying"] /\ GoTo(c, s, "delete")
  /\ ServerOnly /\ UNCHANGED <<netVars, created, tasks, content, home>>

(* RemoveTrackable: the last user's turn deletes the file.                 *)
RemoveUser(c, s) ==
  /\ At(c, s, "remove") /\ MutexFree
  /\ IF served.at = "none" THEN UNCHANGED served /\ GoTo(c, s, "idle")
     ELSE /\ served' = [served EXCEPT !.users = @ - 1,
                           !.at = IF served.users = 1 THEN "dying" ELSE "open"]
          /\ GoTo(c, s, IF served.users = 1 THEN "delete" ELSE "idle")
  /\ ServerOnly /\ UNCHANGED <<netVars, created, tasks, content, home>>

(* ~ServeFile waits for the outstanding writes.                            *)
Delete(c, s) ==
  /\ At(c, s, "delete") /\ GoTo(c, s, "idle")
  /\ tasks = <<>>
  /\ served' = [file |-> 0, users |-> 0, at |-> "none"]
  /\ content' = IF RemoveOutput THEN <<>> ELSE content
  /\ ServerOnly /\ UNCHANGED <<netVars, created, tasks, home>>

(* A task of the pool.  The file is opened to append: seekp has no effect. *)
AppendToFile ==
  /\ tasks # <<>> /\ tasks' = Tail(tasks)
  /\ content' = content \o BytesOf(Head(tasks).client, Head(tasks).chunk)
  /\ ServerOnly /\ UNCHANGED <<netVars, handler, served, created, home>>

-------------------------------------------------------------------------------
ClientStep(c) ==
  \/ OpenFile(c) \/ OpenEnd(c)
  \/ Write(c) \/ FillBuffer(c) \/ WriteEnd(c) \/ Seek(c)
  \/ CloseFile(c) \/ CloseDrained(c) \/ CloseEnd(c)

PoolStep(c) == CompressChunk(c) \/ Transfer(c) \/ TransferEnd(c)

HandlerStep(c, s) ==
  \/ Poll(c, s) \/ ServerOpen(c, s) \/ ServerOpenAnswer(c, s)
  \/ Lookup(c, s) \/ WriteData(c, s) \/ Acknowledge(c, s)
  \/ ServerClose(c, s) \/ RemoveUser(c, s) \/ Delete(c, s)

Next ==
  \/ \E c \in Clients : ClientStep(c) \/ PoolStep(c) \/ Break(c)
  \/ \E c \in Clients, s \in Sockets : HandlerStep(c, s)
  \/ AppendToFile

Spec == Init /\ [][Next]_vars

(* Threads that can go on do.  Nobody has to open, write or close.         *)
FairSpec ==
  /\ Spec
  /\ \A c \in Clients :
       /\ WF_vars(OpenEnd(c) \/ FillBuffer(c) \/ WriteEnd(c)
                   \/ CloseDrained(c) \/ CloseEnd(c))
       /\ WF_vars(CompressChunk(c)) /\ WF_vars(Transfer(c) \/ TransferEnd(c))
       /\ \A s \in Sockets : WF_vars(HandlerStep(c, s))
  /\ WF_vars(AppendToFile)

-------------------------------------------------------------------------------
(* Every variable has its type.  seqNum and sendNum are unsigned in        *)
(* OutputFile, users is unsigned in Trackable.                             *)
TypeOK ==
  /\ app \in [Clients -> {"new", "opening", "ready", "writing", "draining",
                         "closing", "closed"}]
  /\ buffer \in [Clients -> [fp : Nat, cnt : 0 .. Space]]
  /\ \A f \in {pos, size, seqNum, sendNum, home} : f \in [Clients -> Nat]
  /\ \A f \in {given, rest} : f \in [Clients -> 0 .. MaxBytes]
  /\ \A c \in Clients : compQ[c] \subseteq Chunks /\ xferQ[c] \subseteq Chunks
  /\ sock \in [Clients -> Sockets]
  /\ served.users \in 0 .. Cardinality(Clients) /\ created \in Nat
  /\ \A i \in DOMAIN tasks : tasks[i].chunk \in Chunks

(* The clients that the server counts as users of the file, without faults.*)
CloseUnderWay(c) ==
  \/ app[c] \notin {"closing", "closed"}
  \/ Close \in ToSet(net[c][0].req)
  \/ handler[c][0].at \in {"close", "remove", "delete"}
Counted == {c \in Clients : home[c] # 0 /\ CloseUnderWay(c)}

(* _users of Trackable is the number of clients that opened the file and   *)
(* did not give it up: neither does the file go while somebody writes, nor *)
(* does it stay when the last one closed it (no socket breaks).            *)
UsersExact == served.at = "open" => served.users = Cardinality(Counted)

(* A handler that looked a file up, without counting as a user, finds it   *)
(* alive when it writes, and finds one at all (no socket breaks).          *)
WritesFindTheirFile ==
  \A c \in Clients, s \in Sockets :
    /\ At(c, s, "data") => served.at = "open" /\ served.file = handler[c][s].file
    /\ At(c, s, "write") => served.at = "open" /\ served.file = home[c]

(* What OutputFile hands over is appended to the file once, in order, and  *)
(* completely before ~ServeFile ends (no socket breaks).                   *)
OutputFile == INSTANCE OutputFileSpec WITH
  writing <- Counted,
  party   <- {c \in Clients : home[c] # 0 /\ home[c] = created},
  log     <- content
AppendsInOrder == OutputFile!Spec

(* The server acknowledges before the data are on disk, and a close before *)
(* the file is closed; but what was written before a close gets there,     *)
(* unless the file was opened anew (no socket breaks).                     *)
OnDiskAtLast ==
  \A c \in Clients :
    app[c] = "closed" ~> \/ home[c] # created
                         \/ OutputFile!Appended(c) = given[c]

(* The second condition of the loop in write never holds for a single      *)
(* descriptor: else the loop sends empty chunks for ever.                  *)
BufferFollowsPosition ==
  \A c \in Clients :
    app[c] \in {"ready", "writing"} =>
      buffer[c].cnt + buffer[c].fp = pos[c] - rest[c]

(* Every number between sendNum and seqNum belongs to one chunk on its     *)
(* way: a missing one stops every chunk behind it, and close.              *)
Pending(c) == {k.seq : k \in compQ[c] \cup xferQ[c]} \cup
              (IF xfer[c] = Idle THEN {} ELSE {sendNum[c]})
NoNumberMissing ==
  \A c \in Clients : Pending(c) = sendNum[c] .. seqNum[c] - 1

(* Whatever sockets break, no byte is appended twice: a chunk whose        *)
(* acknowledgement got lost is not sent again.                             *)
AtMostOnce == IsInjective(content)

(* close ends, whatever sockets break: failed chunks have their turn too.  *)
CloseEnds == \A c \in Clients : app[c] = "draining" ~> app[c] = "closed"

(* "Must remove file since the client will try to reopen...": a client     *)
(* that goes on to write has the file open on the server.                  *)
Reopened ==
  \A c \in Clients, s \in Sockets : At(c, s, "write") => served.at = "open"
===============================================================================
