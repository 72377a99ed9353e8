---------------------------- MODULE WritePathProofs ----------------------------
(***************************************************************************)
(* Writing, for any number of clients, bytes and seeks, any buffer and any *)
(* number of threads that compress; and, where it is said so, for sockets  *)
(* that break.                                                             *)
(*                                                                         *)
(* A byte is not appended twice because it is in one spot at a time, from  *)
(* the buffer over the pools, the socket, the handler and the task to the  *)
(* file, and every step moves it or loses it.  Nobody writes to a file     *)
(* that is gone because a client has one message under way at most, so     *)
(* that its close comes after its writes, and is counted until then.       *)
(* Bytes are appended in order because nothing overtakes: what is before a *)
(* chunk is in the file, or nearer to it.  So the whole implements         *)
(* OutputFileSpec.                                                         *)
(***************************************************************************)
EXTENDS WritePath, FiniteSetTheorems, SequenceTheorems, TLAPS

(* The types of what is sent, and of what the variables are made of.       *)
Messages == [type : {"open", "close"}] \cup [type : {"write"}, chunk : Chunks]
Lines    == [up : BOOLEAN, req : Seq(Messages), rep : Seq({"answer"})]
Handlers ==
  [at : {"idle", "open", "opened", "ack", "close", "remove", "delete"}]
    \cup [at : {"write"}, chunk : Chunks] \cup [at : {"data"}, chunk : Chunks, file : Nat]
Tasks == [client : Clients, chunk : Chunks]

(* The buffer follows the descriptor's position until the file is closed,  *)
(* and what it holds was given.                                            *)
BufferSound(c) ==
  /\ buffer[c].cnt <= given[c] /\ given[c] + rest[c] <= MaxBytes
  /\ app[c] # "writing" => rest[c] = 0
  /\ app[c] \notin {"draining", "closing", "closed"} =>
       buffer[c].cnt + buffer[c].fp + rest[c] = pos[c]

FileInv ==
  /\ app \in [Clients -> {"new", "opening", "ready", "writing", "draining",
                          "closing", "closed"}]
  /\ buffer \in [Clients -> [fp : Nat, cnt : 0 .. Space]]
  /\ pos \in [Clients -> Nat] /\ size \in [Clients -> Nat] /\ seqNum \in [Clients -> Nat]
  /\ given \in [Clients -> 0 .. MaxBytes] /\ rest \in [Clients -> 0 .. MaxBytes]
  /\ \A c \in Clients : BufferSound(c)

PoolTypes ==
  /\ compQ \in [Clients -> SUBSET Chunks] /\ xferQ \in [Clients -> SUBSET Chunks]
  /\ xfer \in [Clients -> {Idle} \cup [at : {"answer"}, chunk : Chunks]]
  /\ sendNum \in [Clients -> Nat]

(* A client restarts its socket at most as often as sockets break.         *)
SockSound(c) ==
  /\ sock[c] + (IF net[c][sock[c]].up THEN 0 ELSE 1) <= breaks
  /\ \A s \in Sockets : s > sock[c] => net[c][s].up

NetInv ==
  /\ sock \in [Clients -> Sockets] /\ net \in [Clients -> [Sockets -> Lines]]
  /\ breaks \in 0 .. MaxBreaks
  /\ \A c \in Clients : SockSound(c)

(* The file that is open has users.                                        *)
ServerInv ==
  /\ handler \in [Clients -> [Sockets -> Handlers]]
  /\ served \in [file : Nat, users : Nat, at : {"none", "open", "dying"}]
  /\ created \in Nat /\ tasks \in Seq(Tasks) /\ content \in Seq(Clients \X Nat)
  /\ home \in [Clients -> Nat]
  /\ served.at = "open" => served.users > 0

Types == FileInv /\ PoolTypes /\ NetInv /\ ServerInv

(* The chunks on their way have the numbers from sendNum to seqNum, each   *)
(* once; the one that waits for its answer has the first.                  *)
Queued(c) == compQ[c] \cup xferQ[c]
NumbersSound(c) ==
  /\ \A j, k \in Queued(c) : j.seq = k.seq => j = k
  /\ compQ[c] \cap xferQ[c] = {}
  /\ xfer[c] # Idle => \A k \in Queued(c) : k.seq # sendNum[c]
  /\ sendNum[c] <= seqNum[c] /\ Pending(c) = sendNum[c] .. seqNum[c] - 1
  /\ app[c] \in {"closing", "closed"} => seqNum[c] = sendNum[c]
NumbersInv == \A c \in Clients : NumbersSound(c)

(* What a client has not made a chunk of yet begins after the mark.        *)
Mark(c) == IF app[c] \in {"draining", "closing", "closed"} THEN given[c]
                                                          ELSE given[c] - buffer[c].cnt
Carries(k, n) == k.from < n /\ n <= k.from + k.cnt

(* Where the n-th byte of a client is: a place has a name and a number.    *)
AtClient(c, n, p) == p = <<"client", 0, 0>> /\ n > Mark(c)
AtComp(c, n, p) == \E k \in compQ[c] : p = <<"comp", k, 0>> /\ Carries(k, n)
AtXfer(c, n, p) == \E k \in xferQ[c] : p = <<"xfer", k, 0>> /\ Carries(k, n)
AtSent(c, n, p) ==
  \E s \in Sockets : \E i \in DOMAIN net[c][s].req :
    /\ p = <<"sent", s, i>> /\ net[c][s].req[i].type = "write"
    /\ Carries(net[c][s].req[i].chunk, n)
AtHandler(c, n, p) ==
  \E s \in Sockets :
    /\ p = <<"handler", s, 0>> /\ handler[c][s].at \in {"write", "data"}
    /\ Carries(handler[c][s].chunk, n)
AtTask(c, n, p) ==
  \E i \in DOMAIN tasks :
    p = <<"task", i, 0>> /\ tasks[i].client = c /\ Carries(tasks[i].chunk, n)
AtFile(c, n, p) == \E i \in DOMAIN content : p = <<"file", i, 0>> /\ content[i] = <<c, n>>

InPools(c, n, p)  == AtClient(c, n, p) \/ AtComp(c, n, p) \/ AtXfer(c, n, p)
OnServer(c, n, p) == AtHandler(c, n, p) \/ AtTask(c, n, p) \/ AtFile(c, n, p)
Spot(c, n, p)     == InPools(c, n, p) \/ AtSent(c, n, p) \/ OnServer(c, n, p)

OneSpotOf(c, n) == \A p, q : Spot(c, n, p) /\ Spot(c, n, q) => p = q
OneSpot == \A c \in Clients, n \in Nat : OneSpotOf(c, n)

-------------------------------------------------------------------------------
(* Types.                                                                  *)

(* Before anyone opens the file, every variable has its type.              *)
THEOREM InitTypes == Init => Types
<1> SUFFICES ASSUME Init PROVE Types
  OBVIOUS
<1> USE WriteConstants
<1>1. FileInv
  BY DEF Init, FileInv, BufferSound
<1>2. PoolTypes
  BY DEF Init, PoolTypes
<1>3. NetInv
  <2>1. [up |-> TRUE, req |-> <<>>, rep |-> <<>>] \in Lines
    BY DEF Lines
  <2> QED
    BY <2>1 DEF Init, NetInv, SockSound, Sockets
<1>4. ServerInv
  <2>1. Idle \in Handlers
    BY DEF Idle, Handlers
  <2> QED
    BY <2>1 DEF Init, ServerInv
<1> QED
  BY <1>1, <1>2, <1>3, <1>4 DEF Types

(* What the steps of the others leave alone.                               *)
LEMMA Frames ==
  ASSUME NEW c \in Clients
  PROVE  /\ ClientStep(c) => UNCHANGED serverVars
         /\ PoolStep(c) => UNCHANGED <<app, fileVars, serverVars>>
         /\ Break(c) => UNCHANGED <<app, fileVars, poolVars, sock, serverVars>>
<1>1. ClientStep(c) => UNCHANGED serverVars
  BY DEF ClientStep, OpenFile, OpenEnd, Write, FillBuffer, WriteEnd, Seek, CloseFile,
         CloseDrained, CloseEnd, serverVars
<1>2. PoolStep(c) => UNCHANGED <<app, fileVars, serverVars>>
  BY DEF PoolStep, CompressChunk, Transfer, TransferEnd
<1>3. Break(c) => UNCHANGED <<app, fileVars, poolVars, sock, serverVars>>
  BY DEF Break
<1> QED
  BY <1>1, <1>2, <1>3

LEMMA HandlerFrame ==
  ASSUME NEW c \in Clients, NEW s \in Sockets, HandlerStep(c, s)
  PROVE  UNCHANGED <<app, fileVars, poolVars, sock, breaks>>
BY DEF HandlerStep, Poll, ServerOpen, ServerOpenAnswer, Lookup, WriteData, Acknowledge,
       ServerClose, RemoveUser, Delete, ServerOnly, Answer, netVars

LEMMA AppendFrame ==
  AppendToFile => UNCHANGED <<app, fileVars, poolVars, netVars, handler, served, created, home>>
BY DEF AppendToFile, ServerOnly

LEMMA FileFrame ==
  FileInv /\ UNCHANGED <<app, fileVars>> => FileInv'
BY DEF FileInv, BufferSound, fileVars

(* The chunk that AddChunk makes.                                          *)
NewChunk(c, n) ==
  [seq |-> seqNum[c], fp |-> buffer[c].fp, cnt |-> buffer[c].cnt + n,
   from |-> given[c] - buffer[c].cnt]

LEMMA NewChunkType ==
  ASSUME FileInv, NEW c \in Clients, NEW n \in Nat
  PROVE  NewChunk(c, n) \in Chunks
<1> DEFINE f == given[c] - buffer[c].cnt
           k == buffer[c].cnt + n
<1>1. f \in Nat /\ k \in Nat /\ seqNum[c] \in Nat /\ buffer[c].fp \in Nat
  BY WriteConstants DEF FileInv, BufferSound
<1>2. NewChunk(c, n) = [seq |-> seqNum[c], fp |-> buffer[c].fp, cnt |-> k, from |-> f]
  BY DEF NewChunk
<1> HIDE DEF f, k
<1> QED
  BY <1>1, <1>2 DEF Chunks

LEMMA AddChunkEffect ==
  ASSUME NEW c \in Clients, NEW n \in Nat, AddChunk(c, n)
  PROVE  /\ seqNum' = [seqNum EXCEPT ![c] = @ + 1]
         /\ \/ /\ compQ' = [compQ EXCEPT ![c] = @ \cup {NewChunk(c, n)}]
               /\ UNCHANGED xferQ
            \/ /\ xferQ' = [xferQ EXCEPT ![c] = @ \cup {NewChunk(c, n)}]
               /\ UNCHANGED compQ
BY DEF AddChunk, NewChunk

(* The loop of write copies no more than is left, and than fits.           *)
LEMMA FilledType ==
  ASSUME FileInv, NEW c \in Clients
  PROVE  /\ Smaller(rest[c], Space - buffer[c].cnt) \in Nat
         /\ Smaller(rest[c], Space - buffer[c].cnt) <= rest[c]
         /\ rest[c] \in Nat /\ buffer[c].cnt \in Nat /\ buffer[c].cnt <= Space
BY WriteConstants DEF FileInv, Smaller

LEMMA FileStep ==
  ASSUME FileInv, NEW c \in Clients, ClientStep(c)
  PROVE  FileInv'
<1> USE WriteConstants
<1>1. ASSUME NEW a \in {"ready", "opening"}, app' = [app EXCEPT ![c] = a],
             app[c] \in {"new", "opening"}, UNCHANGED fileVars
      PROVE  FileInv'
  BY <1>1 DEF FileInv, BufferSound, fileVars
<1>2. CASE OpenFile(c)
  BY <1>1, <1>2 DEF OpenFile
<1>3. CASE OpenEnd(c)
  BY <1>1, <1>3 DEF OpenEnd
<1>4. CASE Write(c)
  <2> PICK n \in 1 .. MaxBytes - given[c] :
        /\ rest' = [rest EXCEPT ![c] = n]
        /\ pos'  = [pos EXCEPT ![c] = @ + n]
        /\ size' = [size EXCEPT ![c] = IF pos'[c] > @ THEN pos'[c] + 1 ELSE @]
    BY <1>4 DEF Write
  <2>1. UNCHANGED <<buffer, given, seqNum>> /\ app[c] = "ready"
        /\ app' = [app EXCEPT ![c] = "writing"]
    BY <1>4 DEF Write
  <2>2. given[c] \in 0 .. MaxBytes /\ n \in 0 .. MaxBytes /\ n \in Nat
    BY DEF FileInv
  <2>3. /\ app' \in [Clients -> {"new", "opening", "ready", "writing", "draining",
                                 "closing", "closed"}]
        /\ pos' \in [Clients -> Nat] /\ rest' \in [Clients -> 0 .. MaxBytes]
    BY <2>1, <2>2 DEF FileInv
  <2>4. size' \in [Clients -> Nat]
    BY <2>2, <2>3 DEF FileInv
  <2>5. ASSUME NEW d \in Clients PROVE BufferSound(d)'
    BY <2>1, <2>2 DEF FileInv, BufferSound
  <2> QED
    BY <2>1, <2>3, <2>4, <2>5 DEF FileInv
<1>5. CASE FillBuffer(c)
  <2> DEFINE n == Smaller(rest[c], Space - buffer[c].cnt)
  <2>1. n \in Nat /\ n <= rest[c] /\ rest[c] \in Nat /\ buffer[c].cnt \in Nat
    BY FilledType
  <2>2. /\ rest'   = [rest EXCEPT ![c] = @ - n]
        /\ given'  = [given EXCEPT ![c] = @ + n]
        /\ buffer' = [buffer EXCEPT ![c] = [fp |-> @.fp + @.cnt + n, cnt |-> 0]]
        /\ UNCHANGED <<app, pos, size>> /\ app[c] = "writing"
        /\ AddChunk(c, n)
    BY <1>5 DEF FillBuffer
  <2> HIDE DEF n
  <2>3. seqNum' \in [Clients -> Nat]
    BY <2>1, <2>2, AddChunkEffect DEF FileInv
  <2>4. /\ rest' \in [Clients -> 0 .. MaxBytes] /\ given' \in [Clients -> 0 .. MaxBytes]
        /\ buffer' \in [Clients -> [fp : Nat, cnt : 0 .. Space]]
    BY <2>1, <2>2 DEF FileInv, BufferSound
  <2>5. ASSUME NEW d \in Clients PROVE BufferSound(d)'
    BY <2>1, <2>2 DEF FileInv, BufferSound
  <2> QED
    BY <2>2, <2>3, <2>4, <2>5 DEF FileInv
<1>6. CASE WriteEnd(c)
  <2>1. /\ app[c] = "writing" /\ ~BufferEnds(c)
        /\ app'   = [app EXCEPT ![c] = "ready"]
        /\ rest'  = [rest EXCEPT ![c] = 0]
        /\ given' = [given EXCEPT ![c] = @ + rest[c]]
        /\ UNCHANGED <<pos, size>>
    BY <1>6 DEF WriteEnd
  <2>2. /\ rest[c] \in Nat /\ buffer[c].cnt \in Nat /\ given[c] \in Nat /\ pos[c] \in Nat
        /\ given[c] + rest[c] <= MaxBytes /\ buffer[c].cnt + rest[c] <= Space
        /\ buffer[c].cnt <= given[c] /\ buffer[c].fp \in Nat
        /\ buffer[c].cnt + buffer[c].fp + rest[c] = pos[c]
    BY <2>1 DEF BufferEnds, FileInv, BufferSound
  <2>3. seqNum' \in [Clients -> Nat]
    <3>1. AddChunk(c, rest[c]) \/ UNCHANGED seqNum
      BY <1>6 DEF WriteEnd
    <3>2. AddChunk(c, rest[c]) => seqNum' = [seqNum EXCEPT ![c] = @ + 1]
      BY <2>2, AddChunkEffect
    <3> QED
      BY <3>1, <3>2 DEF FileInv
  <2>4. buffer' \in [Clients -> [fp : Nat, cnt : 0 .. Space]]
    BY <1>6, <2>2 DEF FileInv, WriteEnd
  <2>5. ASSUME NEW d \in Clients PROVE BufferSound(d)'
    <3>1. CASE buffer' = [buffer EXCEPT ![c] = [fp |-> pos[c], cnt |-> 0]]
      BY <2>1, <2>2, <3>1 DEF FileInv, BufferSound
    <3>2. CASE buffer' = [buffer EXCEPT ![c].cnt = @ + rest[c]]
      BY <2>1, <2>2, <3>2 DEF FileInv, BufferSound
    <3> QED
      BY <1>6, <3>1, <3>2 DEF WriteEnd
  <2>6. /\ app' \in [Clients -> {"new", "opening", "ready", "writing", "draining",
                                 "closing", "closed"}]
        /\ rest' \in [Clients -> 0 .. MaxBytes] /\ given' \in [Clients -> 0 .. MaxBytes]
    BY <2>1, <2>2 DEF FileInv
  <2> QED
    BY <2>1, <2>3, <2>4, <2>5, <2>6 DEF FileInv
<1>7. CASE Seek(c)
  <2> PICK p \in {0, pos[c], size[c]} :
        /\ pos' = [pos EXCEPT ![c] = p]
        /\ buffer' = [buffer EXCEPT ![c] = [fp |-> p, cnt |-> 0]]
    BY <1>7 DEF Seek
  <2>1. app[c] = "ready" /\ UNCHANGED <<app, given, rest, size>> /\ AddChunk(c, 0)
    BY <1>7 DEF Seek
  <2>2. p \in Nat
    BY DEF FileInv
  <2>3. seqNum' \in [Clients -> Nat]
    BY <2>1, AddChunkEffect DEF FileInv
  <2>4. ASSUME NEW d \in Clients PROVE BufferSound(d)'
    BY <2>1, <2>2 DEF FileInv, BufferSound
  <2>5. pos' \in [Clients -> Nat] /\ buffer' \in [Clients -> [fp : Nat, cnt : 0 .. Space]]
    BY <2>2 DEF FileInv
  <2> QED
    BY <2>1, <2>3, <2>4, <2>5 DEF FileInv
<1>8. CASE CloseFile(c)
  <2>1. seqNum' \in [Clients -> Nat]
    BY <1>8, AddChunkEffect DEF FileInv, CloseFile
  <2>2. app[c] = "ready" /\ app' = [app EXCEPT ![c] = "draining"]
        /\ UNCHANGED <<buffer, pos, size, given, rest>>
    BY <1>8 DEF CloseFile
  <2> QED
    BY <2>1, <2>2 DEF FileInv, BufferSound
<1>9. CASE CloseDrained(c)
  BY <1>9 DEF CloseDrained, FileInv, BufferSound, fileVars
<1>10. CASE CloseEnd(c)
  BY <1>10 DEF CloseEnd, FileInv, BufferSound
<1> QED
  BY <1>2, <1>3, <1>4, <1>5, <1>6, <1>7, <1>8, <1>9, <1>10 DEF ClientStep

(* The pools.                                                              *)
LEMMA AddChunkPools ==
  ASSUME FileInv, PoolTypes, NEW c \in Clients, NEW n \in Nat, AddChunk(c, n),
         UNCHANGED <<xfer, sendNum>>
  PROVE  PoolTypes'
<1>1. NewChunk(c, n) \in Chunks
  BY NewChunkType
<1> QED
  BY <1>1, AddChunkEffect DEF PoolTypes

LEMMA PoolFrame ==
  PoolTypes /\ UNCHANGED poolVars => PoolTypes'
BY DEF PoolTypes, poolVars

LEMMA PoolTypesStep ==
  ASSUME FileInv, PoolTypes, NEW c \in Clients, ClientStep(c) \/ PoolStep(c)
  PROVE  PoolTypes'
<1>1. ASSUME NEW n \in Nat, AddChunk(c, n), UNCHANGED <<xfer, sendNum>>
      PROVE  PoolTypes'
  BY <1>1, AddChunkPools
<1>2. rest[c] \in Nat
  BY FilledType
<1>3. CASE OpenFile(c) \/ OpenEnd(c) \/ Write(c) \/ CloseDrained(c)
  BY <1>3, PoolFrame DEF OpenFile, OpenEnd, Write, CloseDrained
<1>4. CASE FillBuffer(c)
  BY <1>1, <1>4, FilledType DEF FillBuffer
<1>5. CASE WriteEnd(c)
  BY <1>1, <1>2, <1>5, PoolFrame DEF WriteEnd, poolVars
<1>6. CASE Seek(c)
  BY <1>1, <1>6 DEF Seek
<1>7. CASE CloseFile(c)
  BY <1>1, <1>7, PoolFrame DEF CloseFile, poolVars
<1>8. CASE CloseEnd(c)
  BY <1>8 DEF CloseEnd, PoolTypes
<1>9. CASE CompressChunk(c)
  BY <1>9 DEF CompressChunk, PoolTypes
<1>10. CASE Transfer(c)
  <2> PICK k \in xferQ[c] :
        /\ xferQ' = [xferQ EXCEPT ![c] = @ \ {k}]
        /\ xfer' = [xfer EXCEPT ![c] = IF Sent(c) THEN [at |-> "answer", chunk |-> k]
                                                ELSE Idle]
    BY <1>10 DEF Transfer
  <2>1. [at |-> "answer", chunk |-> k] \in [at : {"answer"}, chunk : Chunks]
    BY DEF PoolTypes
  <2> QED
    BY <1>10, <2>1 DEF Transfer, PoolTypes
<1>11. CASE TransferEnd(c)
  BY <1>11 DEF TransferEnd, PoolTypes
<1> QED
  BY <1>3, <1>4, <1>5, <1>6, <1>7, <1>8, <1>9, <1>10, <1>11 DEF ClientStep, PoolStep

(* The sockets.                                                            *)
LEMMA MessageTypes ==
  /\ Open \in Messages /\ Close \in Messages
  /\ \A k \in Chunks : WriteMsg(k) \in Messages
BY DEF Open, Close, WriteMsg, Messages

(* What a client or its pools do to the sockets.                           *)
NetMoves(c) ==
  \/ UNCHANGED netVars
  \/ \E m \in Messages : Send(c, m)
  \/ Receive(c)
  \/ Restart(c)

LEMMA NetMovesStep ==
  ASSUME PoolTypes, NEW c \in Clients, ClientStep(c) \/ PoolStep(c)
  PROVE  NetMoves(c)
<1>1. CASE OpenFile(c) \/ CloseDrained(c)
  BY <1>1, MessageTypes DEF OpenFile, CloseDrained, NetMoves
<1>2. CASE OpenEnd(c) \/ CloseEnd(c) \/ TransferEnd(c)
  BY <1>2 DEF OpenEnd, CloseEnd, TransferEnd, NoAnswer, NetMoves
<1>3. CASE Write(c) \/ FillBuffer(c) \/ WriteEnd(c) \/ Seek(c) \/ CloseFile(c)
  BY <1>3 DEF Write, FillBuffer, WriteEnd, Seek, CloseFile, NetMoves
<1>4. CASE CompressChunk(c)
  BY <1>4 DEF CompressChunk, NetMoves
<1>5. CASE Transfer(c)
  <2> PICK k \in xferQ[c] : Send(c, WriteMsg(k))
    BY <1>5 DEF Transfer
  <2> QED
    BY MessageTypes DEF NetMoves, PoolTypes
<1> QED
  BY <1>1, <1>2, <1>3, <1>4, <1>5 DEF ClientStep, PoolStep

(* One line of the net, or one handler, changes.                           *)
LineSet(c, s, l)    == net' = [net EXCEPT ![c] = [@ EXCEPT ![s] = l]]
HandlerSet(c, s, h) == handler' = [handler EXCEPT ![c] = [@ EXCEPT ![s] = h]]

LEMMA LineSetEffect ==
  ASSUME net \in [Clients -> [Sockets -> Lines]], NEW c \in Clients, NEW s \in Sockets,
         NEW l, LineSet(c, s, l)
  PROVE  /\ l \in Lines => net' \in [Clients -> [Sockets -> Lines]]
         /\ net'[c][s] = l
         /\ \A d \in Clients, t \in Sockets : d # c \/ t # s => net'[d][t] = net[d][t]
BY DEF LineSet

LEMMA HandlerSetEffect ==
  ASSUME handler \in [Clients -> [Sockets -> Handlers]], NEW c \in Clients,
         NEW s \in Sockets, NEW h, HandlerSet(c, s, h)
  PROVE  /\ h \in Handlers => handler' \in [Clients -> [Sockets -> Handlers]]
         /\ handler'[c][s] = h
         /\ \A d \in Clients, t \in Sockets :
              d # c \/ t # s => handler'[d][t] = handler[d][t]
BY DEF HandlerSet

LEMMA LineTypes ==
  ASSUME NetInv, NEW c \in Clients, NEW s \in Sockets
  PROVE  /\ net[c][s] \in Lines /\ net[c][s].up \in BOOLEAN
         /\ net[c][s].req \in Seq(Messages) /\ net[c][s].rep \in Seq({"answer"})
         /\ sock[c] \in Sockets /\ Current(c) = net[c][sock[c]]
<1>1. net[c][s] \in Lines
  BY DEF NetInv
<1> QED
  BY <1>1 DEF NetInv, Lines, Current

Line(u, q, a) == [up |-> u, req |-> q, rep |-> a]

LEMMA LineType ==
  ASSUME NEW u \in BOOLEAN, NEW q \in Seq(Messages), NEW a \in Seq({"answer"})
  PROVE  /\ Line(u, q, a) \in Lines /\ Line(u, q, a).up = u
         /\ Line(u, q, a).req = q /\ Line(u, q, a).rep = a
BY DEF Lines, Line

LEMMA LineExcept ==
  ASSUME NEW r \in Lines, NEW x
  PROVE  /\ [r EXCEPT !.req = x] = Line(r.up, x, r.rep)
         /\ [r EXCEPT !.rep = x] = Line(r.up, r.req, x)
<1> DEFINE B == BOOLEAN
<1>1. r \in [up : B, req : Seq(Messages), rep : Seq({"answer"})]
  BY DEF Lines
<1> HIDE DEF B
<1> QED
  BY <1>1 DEF Line

(* What each of the moves makes of a line.                                 *)
LEMMA SendEffect ==
  ASSUME NetInv, NEW c \in Clients, NEW m, Send(c, m), Sent(c)
  PROVE  /\ LineSet(c, sock[c], Line(net[c][sock[c]].up, Append(net[c][sock[c]].req, m),
                                     net[c][sock[c]].rep))
         /\ UNCHANGED <<sock, breaks>>
<1> DEFINE r == net[c][sock[c]]
           q == Append(r.req, m)
<1>1. sock[c] \in Sockets /\ r \in Lines
  BY LineTypes DEF NetInv
<1>2. /\ net' = [net EXCEPT ![c] = [net[c] EXCEPT ![sock[c]] = [r EXCEPT !.req = q]]]
      /\ UNCHANGED <<sock, breaks>>
  BY <1>1 DEF Send, Sent, NetInv
<1> HIDE DEF r, q
<1>3. LineSet(c, sock[c], Line(r.up, q, r.rep))
  BY <1>1, <1>2, LineExcept DEF LineSet
<1> QED
  BY <1>2, <1>3 DEF r, q

LEMMA ReceiveEffect ==
  ASSUME NetInv, NEW c \in Clients, Receive(c)
  PROVE  /\ LineSet(c, sock[c], Line(net[c][sock[c]].up, net[c][sock[c]].req,
                                     Tail(net[c][sock[c]].rep)))
         /\ UNCHANGED <<sock, breaks>> /\ net[c][sock[c]].rep # <<>>
<1> DEFINE r == net[c][sock[c]]
           a == Tail(r.rep)
<1>1. sock[c] \in Sockets /\ r \in Lines
  BY LineTypes DEF NetInv
<1>2. /\ net' = [net EXCEPT ![c] = [net[c] EXCEPT ![sock[c]] = [r EXCEPT !.rep = a]]]
      /\ UNCHANGED <<sock, breaks>> /\ r.rep # <<>>
  BY <1>1 DEF Receive, NetInv, Current
<1> HIDE DEF r, a
<1>3. LineSet(c, sock[c], Line(r.up, r.req, a))
  BY <1>1, <1>2, LineExcept DEF LineSet
<1> QED
  BY <1>2, <1>3 DEF r, a

LEMMA AnswerEffect ==
  ASSUME NetInv, NEW c \in Clients, NEW s \in Sockets, Answer(c, s)
  PROVE  LineSet(c, s, Line(net[c][s].up, net[c][s].req,
                            IF net[c][s].up THEN Append(net[c][s].rep, "answer")
                                            ELSE net[c][s].rep))
<1> DEFINE r == net[c][s]
           a == IF r.up THEN Append(r.rep, "answer") ELSE r.rep
<1>1. r \in Lines
  BY LineTypes
<1>2. net' = [net EXCEPT ![c] = [net[c] EXCEPT ![s] = [r EXCEPT !.rep = a]]]
  BY DEF Answer, NetInv
<1> HIDE DEF r, a
<1>3. LineSet(c, s, Line(r.up, r.req, a))
  BY <1>1, <1>2, LineExcept DEF LineSet
<1> QED
  BY <1>3 DEF r, a

LEMMA PollEffect ==
  ASSUME NetInv, NEW c \in Clients, NEW s \in Sockets, Poll(c, s)
  PROVE  LineSet(c, s, Line(net[c][s].up, Tail(net[c][s].req), net[c][s].rep))
<1> DEFINE r == net[c][s]
           q == Tail(r.req)
<1>1. r \in Lines
  BY LineTypes
<1>2. net' = [net EXCEPT ![c] = [net[c] EXCEPT ![s] = [r EXCEPT !.req = q]]]
  BY DEF Poll, NetInv
<1> HIDE DEF r, q
<1>3. LineSet(c, s, Line(r.up, q, r.rep))
  BY <1>1, <1>2, LineExcept DEF LineSet
<1> QED
  BY <1>3 DEF r, q

(* The net keeps its shape, whoever moves.                                 *)
LEMMA LineKeeps ==
  ASSUME NetInv, NEW c \in Clients, NEW s \in Sockets,
         NEW q \in Seq(Messages), NEW a \in Seq({"answer"}),
         LineSet(c, s, Line(net[c][s].up, q, a)), UNCHANGED <<sock, breaks>>
  PROVE  NetInv'
<1> DEFINE l == Line(net[c][s].up, q, a)
<1>1. l \in Lines /\ l.up = net[c][s].up
  BY LineTypes, LineType
<1>2. LineSet(c, s, l) /\ net \in [Clients -> [Sockets -> Lines]]
  BY DEF NetInv
<1> HIDE DEF l
<1>3. /\ net' \in [Clients -> [Sockets -> Lines]]
      /\ \A d \in Clients, t \in Sockets : net'[d][t].up = net[d][t].up
  BY <1>1, <1>2, LineSetEffect
<1> QED
  BY <1>3 DEF NetInv, SockSound

LEMMA RestartKeeps ==
  ASSUME NetInv, NEW c \in Clients, ~net[c][sock[c]].up,
         sock' = [sock EXCEPT ![c] = @ + 1], UNCHANGED <<net, breaks>>
  PROVE  NetInv'
<1>1. /\ sock[c] \in Sockets /\ SockSound(c) /\ breaks \in 0 .. MaxBreaks
      /\ sock \in [Clients -> Sockets]
  BY DEF NetInv
<1>2. sock[c] + 1 \in Sockets /\ sock[c] + 1 > sock[c] /\ sock[c] + 1 <= breaks
  BY <1>1, WriteConstants DEF SockSound, Sockets
<1>3. net[c][sock[c] + 1].up
  BY <1>1, <1>2 DEF SockSound
<1>4. SockSound(c)'
  BY <1>1, <1>2, <1>3 DEF SockSound, Sockets
<1>5. ASSUME NEW d \in Clients PROVE SockSound(d)'
  BY <1>1, <1>4, <1>5 DEF SockSound, NetInv
<1>6. sock' \in [Clients -> Sockets]
  BY <1>1, <1>2
<1> QED
  BY <1>5, <1>6 DEF NetInv

LEMMA AppendMessage ==
  /\ \A q \in Seq(Messages), m \in Messages : Append(q, m) \in Seq(Messages)
  /\ \A q \in Seq(Messages) : q # <<>> => Tail(q) \in Seq(Messages)
  /\ \A a \in Seq({"answer"}) : a # <<>> => Tail(a) \in Seq({"answer"})
  /\ \A a \in Seq({"answer"}) : Append(a, "answer") \in Seq({"answer"})
OBVIOUS

LEMMA NetFrame ==
  NetInv /\ UNCHANGED netVars => NetInv'
BY DEF NetInv, SockSound, netVars

LEMMA NetMovesKeep ==
  ASSUME NetInv, NEW c \in Clients, NetMoves(c)
  PROVE  NetInv'
<1>1. sock[c] \in Sockets /\ net[c][sock[c]].req \in Seq(Messages)
      /\ net[c][sock[c]].rep \in Seq({"answer"})
  BY LineTypes DEF NetInv
<1>2. CASE UNCHANGED netVars
  BY <1>2, NetFrame
<1>3. ASSUME NEW m \in Messages, Send(c, m) PROVE NetInv'
  <2>1. CASE Sent(c)
    BY <1>1, <1>3, <2>1, SendEffect, LineKeeps, AppendMessage
  <2>2. CASE ~Sent(c)
    BY <1>1, <1>3, <2>2, RestartKeeps DEF Send, Sent, Current
  <2> QED
    BY <2>1, <2>2
<1>4. CASE Receive(c)
  BY <1>1, <1>4, ReceiveEffect, LineKeeps, AppendMessage
<1>5. CASE Restart(c)
  BY <1>5, RestartKeeps DEF Restart, Current
<1> QED
  BY <1>2, <1>3, <1>4, <1>5 DEF NetMoves

LEMMA BreakKeeps ==
  ASSUME NetInv, NEW c \in Clients, Break(c)
  PROVE  NetInv'
<1>1. /\ sock[c] \in Sockets /\ net[c][sock[c]].up
      /\ net[c][sock[c]].req \in Seq(Messages) /\ net[c][sock[c]] \in Lines
  BY LineTypes DEF NetInv, Break
<1>0. PICK arrives \in BOOLEAN :
      net' = [net EXCEPT ![c][sock[c]] =
                [up |-> FALSE, req |-> IF arrives THEN @.req ELSE <<>>, rep |-> <<>>]]
  BY DEF Break
<1> DEFINE q == IF arrives THEN net[c][sock[c]].req ELSE <<>>
           l == Line(FALSE, q, <<>>)
<1>2. q \in Seq(Messages)
  BY <1>1
<1>3. LineSet(c, sock[c], l)
  BY <1>0, <1>1 DEF LineSet, Line, NetInv
<1> HIDE DEF q
<1>4. l \in Lines /\ ~l.up
  BY <1>2 DEF Line, Lines
<1>5. UNCHANGED sock /\ breaks' = breaks + 1 /\ breaks' \in 0 .. MaxBreaks
  BY WriteConstants DEF NetInv, Break
<1> HIDE DEF l
<1>6. /\ net' \in [Clients -> [Sockets -> Lines]] /\ net'[c][sock[c]] = l
      /\ \A d \in Clients, t \in Sockets :
           d # c \/ t # sock[c] => net'[d][t] = net[d][t]
  <2>1. net \in [Clients -> [Sockets -> Lines]] /\ sock[c] \in Sockets
    BY <1>1 DEF NetInv
  <2> QED
    BY <1>3, <1>4, <2>1, LineSetEffect
<1>7. ASSUME NEW d \in Clients PROVE SockSound(d)'
  <2>1. SockSound(d) /\ sock[d] \in Sockets /\ breaks \in Nat
    BY DEF NetInv
  <2>2. ASSUME NEW t \in Sockets, t > sock[d]  PROVE net'[d][t].up
    BY <1>6, <2>1, <2>2 DEF SockSound, Sockets
  <2>3. sock[d] + (IF net'[d][sock[d]].up THEN 0 ELSE 1) <= breaks + 1
    BY <1>1, <1>4, <1>6, <2>1 DEF SockSound, Sockets
  <2> QED
    BY <1>5, <2>2, <2>3 DEF SockSound
<1> QED
  BY <1>5, <1>6, <1>7 DEF NetInv

LEMMA HandlersKeepNet ==
  ASSUME NetInv, NEW c \in Clients, NEW s \in Sockets, HandlerStep(c, s)
  PROVE  NetInv'
<1>1. net[c][s].req \in Seq(Messages) /\ net[c][s].rep \in Seq({"answer"})
  BY LineTypes
<1>2. UNCHANGED <<sock, breaks>>
  BY HandlerFrame
<1>3. CASE Poll(c, s)
  BY <1>1, <1>2, <1>3, PollEffect, LineKeeps, AppendMessage DEF Poll
<1>4. CASE Answer(c, s)
  <2>1. (IF net[c][s].up THEN Append(net[c][s].rep, "answer") ELSE net[c][s].rep)
          \in Seq({"answer"})
    BY <1>1
  <2> QED
    BY <1>1, <1>2, <1>4, <2>1, AnswerEffect, LineKeeps
<1>5. UNCHANGED netVars \/ Answer(c, s) \/ Poll(c, s)
  BY DEF HandlerStep, ServerOpen, ServerOpenAnswer, Lookup, WriteData, Acknowledge,
         ServerClose, RemoveUser, Delete
<1> QED
  BY <1>3, <1>4, <1>5, NetFrame

(* The server.                                                             *)
LEMMA HandlerTypes ==
  /\ \A a \in {"idle", "open", "opened", "ack", "close", "remove", "delete"} :
       [at |-> a] \in Handlers
  /\ \A k \in Chunks : [at |-> "write", chunk |-> k] \in Handlers
  /\ \A k \in Chunks, f \in Nat : [at |-> "data", chunk |-> k, file |-> f] \in Handlers
BY DEF Handlers

LEMMA ToKeeps ==
  ASSUME handler \in [Clients -> [Sockets -> Handlers]], NEW c \in Clients,
         NEW s \in Sockets, NEW h \in Handlers, To(c, s, h)
  PROVE  HandlerSet(c, s, h) /\ handler' \in [Clients -> [Sockets -> Handlers]]
<1>1. HandlerSet(c, s, h)
  BY DEF To, HandlerSet
<1> QED
  BY <1>1, HandlerSetEffect

(* Where a handler is says what it has.                                    *)
LEMMA HandlerHas ==
  ASSUME ServerInv, NEW c \in Clients, NEW s \in Sockets
  PROVE  /\ handler[c][s] \in Handlers
         /\ At(c, s, "write") => handler[c][s].chunk \in Chunks
         /\ At(c, s, "data")  => handler[c][s].chunk \in Chunks /\ handler[c][s].file \in Nat
<1>1. handler[c][s] \in Handlers
  BY DEF ServerInv
<1> QED
  BY <1>1 DEF Handlers, At

(* The next handler after Poll.                                            *)
Taken(m) == IF m.type = "write" THEN [at |-> "write", chunk |-> m.chunk]
                                ELSE [at |-> m.type]

LEMMA TakenType ==
  ASSUME NEW m \in Messages
  PROVE  /\ Taken(m) \in Handlers
         /\ m.type = "write" => m.chunk \in Chunks /\ Taken(m).chunk = m.chunk
         /\ Taken(m).at = m.type /\ m.type \in {"write", "open", "close"}
BY DEF Messages, Taken, Handlers

LEMMA PollTakes ==
  ASSUME NetInv, NEW c \in Clients, NEW s \in Sockets, Poll(c, s)
  PROVE  /\ Head(net[c][s].req) \in Messages
         /\ To(c, s, Taken(Head(net[c][s].req)))
<1>1. net[c][s].req \in Seq(Messages) /\ net[c][s].req # <<>>
  BY LineTypes DEF Poll
<1> QED
  BY <1>1 DEF Poll, Taken

LEMMA ServerFrame ==
  ServerInv /\ UNCHANGED serverVars => ServerInv'
BY DEF ServerInv, serverVars

LEMMA ServerStep ==
  ASSUME NetInv, ServerInv, NEW c \in Clients, NEW s \in Sockets, HandlerStep(c, s)
  PROVE  ServerInv'
<1>1. handler \in [Clients -> [Sockets -> Handlers]]
  BY DEF ServerInv
<1>2. ASSUME NEW h \in Handlers, To(c, s, h),
             UNCHANGED <<served, created, tasks, content, home>>
      PROVE  ServerInv'
  BY <1>1, <1>2, ToKeeps DEF ServerInv
<1>3. ASSUME NEW a \in {"idle", "open", "opened", "ack", "close", "remove", "delete"},
             GoTo(c, s, a)
      PROVE  [at |-> a] \in Handlers /\ To(c, s, [at |-> a])
             /\ handler' \in [Clients -> [Sockets -> Handlers]]
  BY <1>1, <1>3, ToKeeps, HandlerTypes DEF GoTo
<1>4. CASE Poll(c, s)
  BY <1>2, <1>4, PollTakes, TakenType DEF Poll
<1>5. CASE ServerOpen(c, s)
  <2>1. handler' \in [Clients -> [Sockets -> Handlers]] /\ UNCHANGED tasks
    BY <1>3, <1>5 DEF ServerOpen
  <2>2. CASE served.at = "none"
    <3>1. served' = [file |-> created + 1, users |-> 1, at |-> "open"]
          /\ created' = created + 1 /\ content' = <<>>
          /\ home' = [home EXCEPT ![c] = served'.file]
      BY <1>5, <2>2 DEF ServerOpen
    <3> QED
      BY <2>1, <3>1 DEF ServerInv
  <2>3. CASE served.at # "none"
    <3> DEFINE u == served.users + 1
    <3>1. u \in Nat /\ u > 0
      BY DEF ServerInv
    <3>2. served' = [served EXCEPT !.users = u] /\ UNCHANGED <<created, content>>
          /\ home' = [home EXCEPT ![c] = served'.file]
      BY <1>5, <2>3 DEF ServerOpen
    <3> HIDE DEF u
    <3> QED
      BY <2>1, <3>1, <3>2 DEF ServerInv
  <2> QED
    BY <2>2, <2>3
<1>6. CASE ServerOpenAnswer(c, s)
  <2>1. GoTo(c, s, "idle") \/ GoTo(c, s, "remove")
    BY <1>6 DEF ServerOpenAnswer
  <2> QED
    BY <1>2, <1>3, <1>6, <2>1 DEF ServerOpenAnswer
<1>7. CASE Lookup(c, s)
  <2>1. handler[c][s].chunk \in Chunks /\ served.file \in Nat
    BY <1>7, HandlerHas DEF Lookup, ServerInv
  <2>2. [at |-> "data", chunk |-> handler[c][s].chunk, file |-> served.file] \in Handlers
    BY <2>1, HandlerTypes
  <2> QED
    BY <1>2, <1>3, <1>7, <2>2 DEF Lookup
<1>8. CASE WriteData(c, s)
  <2>1. handler[c][s].chunk \in Chunks
    BY <1>8, HandlerHas DEF WriteData
  <2>2. [client |-> c, chunk |-> handler[c][s].chunk] \in Tasks
    BY <2>1 DEF Tasks
  <2>3. tasks' \in Seq(Tasks)
    BY <1>8, <2>2 DEF WriteData, ServerInv
  <2>4. handler' \in [Clients -> [Sockets -> Handlers]]
    BY <1>3, <1>8 DEF WriteData
  <2> QED
    BY <1>8, <2>3, <2>4 DEF WriteData, ServerInv
<1>9. CASE Acknowledge(c, s) \/ ServerClose(c, s)
  BY <1>2, <1>3, <1>9 DEF Acknowledge, ServerClose
<1>10. CASE RemoveUser(c, s)
  <2>1. CASE served.at = "none"
    BY <1>2, <1>3, <1>10, <2>1 DEF RemoveUser
  <2>2. CASE served.at # "none"
    <3> DEFINE u == served.users - 1
               a == IF served.users = 1 THEN "dying" ELSE "open"
    <3>1. served.at = "open" /\ served.users \in Nat /\ served.users > 0
      BY <1>10, <2>2 DEF RemoveUser, MutexFree, ServerInv
    <3>2. u \in Nat /\ a \in {"dying", "open"} /\ (a = "open" => u > 0)
      BY <3>1
    <3>3. served' = [served EXCEPT !.users = u, !.at = a]
      BY <1>10, <2>2 DEF RemoveUser
    <3>4. GoTo(c, s, "delete") \/ GoTo(c, s, "idle")
      BY <1>10, <2>2 DEF RemoveUser
    <3>5. handler' \in [Clients -> [Sockets -> Handlers]]
      BY <1>3, <3>4
    <3> HIDE DEF u, a
    <3> QED
      BY <1>10, <3>2, <3>3, <3>5 DEF RemoveUser, ServerInv
  <2> QED
    BY <2>1, <2>2
<1>11. CASE Delete(c, s)
  <2>1. handler' \in [Clients -> [Sockets -> Handlers]]
    BY <1>3, <1>11 DEF Delete
  <2>2. content' \in Seq(Clients \X Nat)
    BY <1>11 DEF Delete, ServerInv
  <2> QED
    BY <1>11, <2>1, <2>2 DEF Delete, ServerInv
<1> QED
  BY <1>4, <1>5, <1>6, <1>7, <1>8, <1>9, <1>10, <1>11 DEF HandlerStep

LEMMA BytesType ==
  ASSUME NEW c \in Clients, NEW k \in Chunks
  PROVE  BytesOf(c, k) \in Seq(Clients \X Nat)
<1>1. k.cnt \in Nat /\ k.from \in Nat
  BY DEF Chunks
<1>2. \A i \in 1 .. k.cnt : <<c, k.from + i>> \in Clients \X Nat
  BY <1>1
<1> QED
  BY <1>1, <1>2 DEF BytesOf

LEMMA AppendKeepsServer ==
  ASSUME ServerInv, AppendToFile
  PROVE  ServerInv'
<1>1. tasks \in Seq(Tasks) /\ tasks # <<>>
  BY DEF ServerInv, AppendToFile
<1>2. Head(tasks) \in Tasks /\ Tail(tasks) \in Seq(Tasks)
  BY <1>1
<1>3. BytesOf(Head(tasks).client, Head(tasks).chunk) \in Seq(Clients \X Nat)
  BY <1>2, BytesType DEF Tasks
<1>4. content' \in Seq(Clients \X Nat)
  BY <1>3 DEF AppendToFile, ServerInv
<1> QED
  BY <1>2, <1>4 DEF AppendToFile, ServerInv

(* Every call, task and handler keeps the types, the place of the buffer   *)
(* and the count of the sockets that broke.                                *)
THEOREM TypesStep ==
  ASSUME Types, [Next]_vars
  PROVE  Types'
<1> USE DEF Types
<1>1. ASSUME NEW c \in Clients, ClientStep(c) PROVE Types'
  BY <1>1, FileStep, PoolTypesStep, NetMovesStep, NetMovesKeep, Frames, ServerFrame
<1>2. ASSUME NEW c \in Clients, PoolStep(c) PROVE Types'
  BY <1>2, FileFrame, PoolTypesStep, NetMovesStep, NetMovesKeep, Frames, ServerFrame
<1>3. ASSUME NEW c \in Clients, Break(c) PROVE Types'
  BY <1>3, FileFrame, PoolFrame, BreakKeeps, Frames, ServerFrame
<1>4. ASSUME NEW c \in Clients, NEW s \in Sockets, HandlerStep(c, s) PROVE Types'
  BY <1>4, FileFrame, PoolFrame, HandlersKeepNet, HandlerFrame, ServerStep
<1>5. CASE AppendToFile
  BY <1>5, FileFrame, PoolFrame, NetFrame, AppendFrame, AppendKeepsServer
<1>6. CASE UNCHANGED vars
  BY <1>6, FileFrame, PoolFrame, NetFrame, ServerFrame DEF vars
<1> QED
  BY <1>1, <1>2, <1>3, <1>4, <1>5, <1>6 DEF Next

-------------------------------------------------------------------------------
(* The numbers of the chunks.                                              *)

(* What NumbersSound(c) is about.                                          *)
NumbersOf(c) == <<compQ[c], xferQ[c], xfer[c], seqNum[c], sendNum[c], app[c]>>

LEMMA NumbersFrame ==
  ASSUME NEW c \in Clients, NumbersSound(c),
         compQ'[c] = compQ[c], xferQ'[c] = xferQ[c], xfer'[c] = xfer[c],
         seqNum'[c] = seqNum[c], sendNum'[c] = sendNum[c],
         app'[c] = app[c] \/ app'[c] \notin {"closing", "closed"}
  PROVE  NumbersSound(c)'
BY DEF NumbersSound, Pending, Queued

LEMMA NumberTypes ==
  ASSUME FileInv, PoolTypes, NEW c \in Clients
  PROVE  /\ seqNum[c] \in Nat /\ sendNum[c] \in Nat
         /\ compQ[c] \subseteq Chunks /\ xferQ[c] \subseteq Chunks
         /\ \A k \in Queued(c) : k.seq \in Nat
         /\ xfer[c].at = "answer" <=> xfer[c] # Idle
<1>1. /\ seqNum[c] \in Nat /\ sendNum[c] \in Nat
      /\ compQ[c] \subseteq Chunks /\ xferQ[c] \subseteq Chunks
      /\ xfer[c] \in {Idle} \cup [at : {"answer"}, chunk : Chunks]
  BY DEF FileInv, PoolTypes
<1>2. \A k \in Queued(c) : k.seq \in Nat
  BY <1>1 DEF Queued, Chunks
<1>3. xfer[c].at = "answer" <=> xfer[c] # Idle
  BY <1>1 DEF Idle
<1> QED
  BY <1>1, <1>2, <1>3

(* A new chunk has the next number.                                        *)
LEMMA AddChunkNumbers ==
  ASSUME FileInv, PoolTypes, NEW c \in Clients, NumbersSound(c), NEW n \in Nat,
         AddChunk(c, n), UNCHANGED <<xfer, sendNum>>,
         app'[c] \notin {"closing", "closed"}
  PROVE  NumbersSound(c)'
<1> DEFINE k == NewChunk(c, n)
<1>1. /\ k.seq = seqNum[c] /\ seqNum' = [seqNum EXCEPT ![c] = @ + 1]
      /\ \/ /\ compQ' = [compQ EXCEPT ![c] = @ \cup {k}]
            /\ UNCHANGED xferQ
         \/ /\ xferQ' = [xferQ EXCEPT ![c] = @ \cup {k}]
            /\ UNCHANGED compQ
  BY AddChunkEffect DEF NewChunk
<1> HIDE DEF k
<1>2. /\ seqNum[c] \in Nat /\ sendNum[c] \in Nat /\ sendNum[c] <= seqNum[c]
      /\ seqNum'[c] = seqNum[c] + 1 /\ sendNum'[c] = sendNum[c] /\ xfer'[c] = xfer[c]
  BY <1>1, NumberTypes DEF NumbersSound, FileInv
<1>3. /\ Queued(c)' = Queued(c) \cup {k}
      /\ \/ compQ'[c] = compQ[c] \cup {k} /\ xferQ'[c] = xferQ[c]
         \/ compQ'[c] = compQ[c] /\ xferQ'[c] = xferQ[c] \cup {k}
  BY <1>1 DEF PoolTypes, Queued
<1>4. \A j \in Queued(c) : j.seq \in Nat /\ j.seq < seqNum[c]
  BY <1>2, NumberTypes DEF NumbersSound, Pending, Queued
<1>5. k \notin Queued(c)
  BY <1>1, <1>2, <1>4
<1>6. xfer[c] # Idle => sendNum[c] < seqNum[c]
  BY <1>2 DEF NumbersSound, Pending
<1>7. Pending(c)' = Pending(c) \cup {seqNum[c]}
  BY <1>1, <1>2, <1>3 DEF Pending, Queued
<1>8. Pending(c)' = sendNum[c] .. (seqNum[c] + 1) - 1
  BY <1>2, <1>7 DEF NumbersSound
<1>9. \A i, j \in Queued(c) \cup {k} : i.seq = j.seq => i = j
  BY <1>1, <1>2, <1>4 DEF NumbersSound
<1>10. (compQ[c] \cap xferQ[c] = {})'
  BY <1>3, <1>5 DEF NumbersSound, Queued
<1>11. xfer[c] # Idle => \A j \in Queued(c) \cup {k} : j.seq # sendNum[c]
  BY <1>1, <1>2, <1>6 DEF NumbersSound
<1>12. Pending(c)' = sendNum'[c] .. seqNum'[c] - 1 /\ sendNum'[c] <= seqNum'[c]
  BY <1>2, <1>8
<1> QED
  BY <1>2, <1>3, <1>9, <1>10, <1>11, <1>12 DEF NumbersSound

LEMMA NumbersStepOf ==
  ASSUME FileInv, PoolTypes, NEW c \in Clients, NumbersSound(c),
         ClientStep(c) \/ PoolStep(c)
  PROVE  NumbersSound(c)'
<1>1. /\ seqNum[c] \in Nat /\ sendNum[c] \in Nat /\ rest[c] \in Nat
      /\ \A k \in Queued(c) : k.seq \in Nat
      /\ xfer[c].at = "answer" <=> xfer[c] # Idle
  BY NumberTypes, FilledType
<1>2. CASE OpenFile(c) \/ OpenEnd(c) \/ Write(c)
  BY <1>2, NumbersFrame DEF OpenFile, OpenEnd, Write, fileVars, poolVars, FileInv
<1>3. CASE FillBuffer(c)
  BY <1>3, AddChunkNumbers, FilledType DEF FillBuffer
<1>4. CASE WriteEnd(c)
  <2>1. app'[c] = "ready" /\ UNCHANGED <<xfer, sendNum>>
    BY <1>4 DEF WriteEnd, FileInv
  <2>2. CASE AddChunk(c, rest[c])
    BY <1>1, <2>1, <2>2, AddChunkNumbers
  <2>3. CASE UNCHANGED <<seqNum, compQ, xferQ>>
    BY <2>1, <2>3, NumbersFrame
  <2> QED
    BY <1>4, <2>2, <2>3 DEF WriteEnd
<1>5. CASE Seek(c)
  BY <1>5, AddChunkNumbers DEF Seek
<1>6. CASE CloseFile(c)
  <2>1. app'[c] = "draining" /\ UNCHANGED <<xfer, sendNum>>
    BY <1>6 DEF CloseFile, FileInv
  <2> QED
    BY <1>6, <2>1, AddChunkNumbers, NumbersFrame DEF CloseFile
<1>7. CASE CloseDrained(c)
  BY <1>7 DEF CloseDrained, NumbersSound, Pending, Queued, fileVars, poolVars
<1>8. CASE CloseEnd(c)
  <2>1. /\ app[c] = "closing" /\ UNCHANGED <<compQ, xferQ, xfer>>
        /\ seqNum' = [seqNum EXCEPT ![c] = 0] /\ sendNum' = [sendNum EXCEPT ![c] = 0]
    BY <1>8 DEF CloseEnd
  <2>2. seqNum'[c] = 0 /\ sendNum'[c] = 0
    BY <2>1 DEF FileInv, PoolTypes
  <2>3. Pending(c) = {}
    BY <1>1, <2>1 DEF NumbersSound
  <2>4. Queued(c) = {} /\ xfer[c] = Idle
    BY <2>3 DEF Pending, Queued
  <2> QED
    BY <2>1, <2>2, <2>4 DEF NumbersSound, Pending, Queued
<1>9. CASE CompressChunk(c)
  <2> PICK k \in compQ[c] : /\ compQ' = [compQ EXCEPT ![c] = @ \ {k}]
                            /\ xferQ' = [xferQ EXCEPT ![c] = @ \cup {k}]
    BY <1>9 DEF CompressChunk
  <2>1. compQ'[c] = compQ[c] \ {k} /\ xferQ'[c] = xferQ[c] \cup {k}
        /\ UNCHANGED <<xfer, sendNum, seqNum, app>>
    BY <1>9 DEF CompressChunk, PoolTypes, fileVars
  <2>2. Queued(c)' = Queued(c) /\ Pending(c)' = Pending(c)
    BY <2>1 DEF Queued, Pending
  <2>3. (compQ[c] \cap xferQ[c] = {})'
    BY <2>1 DEF NumbersSound
  <2> QED
    BY <2>1, <2>2, <2>3 DEF NumbersSound
<1>10. CASE Transfer(c)
  <2> PICK k \in xferQ[c] :
        /\ HasTurn(c, k)
        /\ xferQ' = [xferQ EXCEPT ![c] = @ \ {k}]
        /\ xfer' = [xfer EXCEPT ![c] = IF Sent(c) THEN [at |-> "answer", chunk |-> k]
                                                ELSE Idle]
    BY <1>10 DEF Transfer
  <2>1. /\ xfer[c] = Idle /\ xferQ'[c] = xferQ[c] \ {k} /\ UNCHANGED <<compQ, app, seqNum>>
        /\ sendNum'[c] = IF Sent(c) THEN sendNum[c] ELSE sendNum[c] + 1
        /\ k.seq = sendNum[c] /\ k \in Queued(c)
    BY <1>10 DEF Transfer, PoolTypes, fileVars, HasTurn, Queued
  <2>2. Queued(c)' = Queued(c) \ {k}
    BY <2>1 DEF Queued, NumbersSound
  <2>3. /\ \A j \in Queued(c)' : j.seq # sendNum[c]
        /\ \A i, j \in Queued(c)' : i.seq = j.seq => i = j
        /\ (compQ[c] \cap xferQ[c] = {})'
    BY <2>1, <2>2 DEF NumbersSound
  <2>4. {j.seq : j \in Queued(c)} = sendNum[c] .. seqNum[c] - 1
    BY <2>1 DEF NumbersSound, Pending, Queued
  <2>5. {j.seq : j \in Queued(c)'} = sendNum[c] + 1 .. seqNum[c] - 1
    BY <1>1, <2>1, <2>2, <2>4 DEF NumbersSound
  <2>6. sendNum[c] < seqNum[c] /\ app'[c] \notin {"closing", "closed"}
    BY <1>1, <2>1, <2>4 DEF NumbersSound
  <2>7. CASE Sent(c)
    <3>1. xfer'[c] # Idle /\ sendNum'[c] = sendNum[c]
      BY <2>1, <2>7 DEF PoolTypes, Idle
    <3>2. Pending(c)' = sendNum[c] .. seqNum[c] - 1
      BY <1>1, <2>5, <2>6, <3>1 DEF Pending, Queued
    <3> QED
      BY <1>1, <2>1, <2>3, <2>6, <3>1, <3>2 DEF NumbersSound
  <2>8. CASE ~Sent(c)
    <3>1. xfer'[c] = Idle /\ sendNum'[c] = sendNum[c] + 1
      BY <2>1, <2>8 DEF PoolTypes
    <3>2. Pending(c)' = sendNum[c] + 1 .. seqNum[c] - 1
      BY <2>5, <3>1 DEF Pending, Queued
    <3> QED
      BY <1>1, <2>1, <2>3, <2>6, <3>1, <3>2 DEF NumbersSound
  <2> QED
    BY <2>7, <2>8
<1>11. CASE TransferEnd(c)
  <2>1. /\ xfer[c] # Idle /\ xfer'[c] = Idle /\ sendNum'[c] = sendNum[c] + 1
        /\ UNCHANGED <<compQ, xferQ, app, seqNum>>
    BY <1>1, <1>11 DEF TransferEnd, PoolTypes, fileVars
  <2>2. Queued(c)' = Queued(c) /\ Pending(c)' = {k.seq : k \in Queued(c)}
    BY <2>1 DEF Queued, Pending
  <2>3. {k.seq : k \in Queued(c)} \cup {sendNum[c]} = sendNum[c] .. seqNum[c] - 1
        /\ sendNum[c] \notin {k.seq : k \in Queued(c)}
    BY <2>1 DEF NumbersSound, Pending, Queued
  <2>4. Pending(c)' = sendNum[c] + 1 .. seqNum[c] - 1 /\ sendNum[c] < seqNum[c]
    BY <1>1, <2>2, <2>3 DEF NumbersSound
  <2> QED
    BY <1>1, <2>1, <2>2, <2>4 DEF NumbersSound
<1> QED
  BY <1>2, <1>3, <1>4, <1>5, <1>6, <1>7, <1>8, <1>9, <1>10, <1>11 DEF ClientStep, PoolStep

(* The steps of a client are about that client only.                       *)
LEMMA OthersKeep ==
  ASSUME FileInv, PoolTypes, NEW c \in Clients, NEW d \in Clients, d # c,
         ClientStep(c) \/ PoolStep(c)
  PROVE  /\ app'[d] = app[d] /\ buffer'[d] = buffer[d] /\ given'[d] = given[d]
         /\ seqNum'[d] = seqNum[d] /\ sendNum'[d] = sendNum[d] /\ xfer'[d] = xfer[d]
         /\ compQ'[d] = compQ[d] /\ xferQ'[d] = xferQ[d]
<1> USE DEF FileInv, PoolTypes
<1>1. CASE OpenFile(c) \/ OpenEnd(c) \/ CloseDrained(c)
  BY <1>1 DEF OpenFile, OpenEnd, CloseDrained, fileVars, poolVars
<1>2. CASE Write(c)
  BY <1>2 DEF Write, poolVars
<1>3. CASE FillBuffer(c)
  BY <1>3 DEF FillBuffer, AddChunk
<1>4. CASE WriteEnd(c)
  BY <1>4 DEF WriteEnd, AddChunk
<1>5. CASE Seek(c)
  BY <1>5 DEF Seek, AddChunk
<1>6. CASE CloseFile(c)
  BY <1>6 DEF CloseFile, AddChunk
<1>7. CASE CloseEnd(c)
  BY <1>7 DEF CloseEnd
<1>8. CASE CompressChunk(c)
  BY <1>8 DEF CompressChunk, fileVars
<1>9. CASE Transfer(c)
  BY <1>9 DEF Transfer, fileVars
<1>10. CASE TransferEnd(c)
  BY <1>10 DEF TransferEnd, fileVars
<1> QED
  BY <1>1, <1>2, <1>3, <1>4, <1>5, <1>6, <1>7, <1>8, <1>9, <1>10 DEF ClientStep, PoolStep

(* OutputFile's constructor sets both numbers to zero: no chunk is under way.*)
THEOREM InitNumbers == Init => NumbersInv
<1> SUFFICES ASSUME Init, NEW c \in Clients PROVE NumbersSound(c)
  BY DEF NumbersInv
<1> QED
  BY DEF Init, NumbersSound, Pending, Queued

(* addTransferTask counts up, once for each chunk whose turn it was, failed*)
(* or not; write counts up once for each chunk it makes.                   *)
THEOREM NumbersStep ==
  ASSUME Types, NumbersInv, [Next]_vars
  PROVE  NumbersInv'
<1> SUFFICES ASSUME NEW d \in Clients PROVE NumbersSound(d)'
  BY DEF NumbersInv
<1> USE DEF Types
<1>1. NumbersSound(d)
  BY DEF NumbersInv
<1>2. ASSUME NEW c \in Clients, ClientStep(c) \/ PoolStep(c) PROVE NumbersSound(d)'
  <2>1. CASE c = d
    BY <1>1, <1>2, <2>1, NumbersStepOf
  <2>2. CASE c # d
    BY <1>1, <1>2, <2>2, NumbersFrame, OthersKeep
  <2> QED
    BY <2>1, <2>2
<1>3. CASE UNCHANGED <<app, fileVars, poolVars>>
  BY <1>1, <1>3, NumbersFrame DEF fileVars, poolVars
<1>4. ASSUME NEW c \in Clients, Break(c) PROVE NumbersSound(d)'
  BY <1>3, <1>4, Frames
<1>5. ASSUME NEW c \in Clients, NEW s \in Sockets, HandlerStep(c, s) PROVE NumbersSound(d)'
  BY <1>3, <1>5, HandlerFrame
<1>6. CASE AppendToFile \/ UNCHANGED vars
  BY <1>3, <1>6, AppendFrame DEF vars
<1> QED
  BY <1>2, <1>4, <1>5, <1>6 DEF Next

-------------------------------------------------------------------------------
(* A byte is in one spot.                                                  *)

LEMMA SpotsKept ==
  ASSUME NEW c \in Clients, NEW n \in Nat, OneSpotOf(c, n),
         \A p : Spot(c, n, p)' => Spot(c, n, p)
  PROVE  OneSpotOf(c, n)'
BY DEF OneSpotOf

(* From a to b, if it moves; it is not in both afterwards.                 *)
LEMMA SpotsMoved ==
  ASSUME NEW c \in Clients, NEW n \in Nat, OneSpotOf(c, n), NEW a, NEW b,
         \A p : Spot(c, n, p)' => \/ p # b /\ Spot(c, n, p)
                                  \/ p = b /\ Spot(c, n, a),
         ~(Spot(c, n, a)' /\ Spot(c, n, b)')
  PROVE  OneSpotOf(c, n)'
BY DEF OneSpotOf

(* Frames of the zones.                                                    *)
LEMMA PoolsKept ==
  ASSUME NEW c \in Clients, NEW n \in Nat, NEW p,
         compQ'[c] = compQ[c], xferQ'[c] = xferQ[c], Mark(c)' = Mark(c)
  PROVE  InPools(c, n, p)' <=> InPools(c, n, p)
BY DEF InPools, AtClient, AtComp, AtXfer

LEMMA SentKept ==
  ASSUME NEW c \in Clients, NEW n \in Nat, NEW p,
         \A s \in Sockets : net'[c][s].req = net[c][s].req
  PROVE  AtSent(c, n, p)' <=> AtSent(c, n, p)
BY DEF AtSent

LEMMA ServerKept ==
  ASSUME NEW c \in Clients, NEW n \in Nat, NEW p,
         handler'[c] = handler[c], UNCHANGED <<tasks, content>>
  PROVE  OnServer(c, n, p)' <=> OnServer(c, n, p)
BY DEF OnServer, AtHandler, AtTask, AtFile

(* Only a message that is sent changes what is under way.                  *)
LEMMA RequestsKept ==
  ASSUME NetInv, NEW c \in Clients, NEW d \in Clients,
         UNCHANGED netVars \/ Receive(c) \/ Restart(c) \/ (\E m : Send(c, m) /\ ~Sent(c))
  PROVE  \A t \in Sockets : net'[d][t].req = net[d][t].req
<1>1. CASE UNCHANGED net
  BY <1>1
<1>2. CASE Receive(c)
  <2> DEFINE l == Line(net[c][sock[c]].up, net[c][sock[c]].req, Tail(net[c][sock[c]].rep))
  <2>1. LineSet(c, sock[c], l) /\ l.req = net[c][sock[c]].req
    BY <1>2, ReceiveEffect DEF Line
  <2>2. net \in [Clients -> [Sockets -> Lines]] /\ sock[c] \in Sockets
    BY DEF NetInv
  <2> HIDE DEF l
  <2>3. /\ net'[c][sock[c]] = l
        /\ \A e \in Clients, t \in Sockets : e # c \/ t # sock[c] => net'[e][t] = net[e][t]
    BY <2>1, <2>2, LineSetEffect
  <2> QED
    BY <2>1, <2>3
<1> QED
  BY <1>1, <1>2 DEF netVars, Restart, Send, Sent

LEMMA AnswersKeepRequests ==
  ASSUME NetInv, NEW c \in Clients, NEW s \in Sockets, NEW d \in Clients,
         UNCHANGED netVars \/ Answer(c, s)
  PROVE  \A t \in Sockets : net'[d][t].req = net[d][t].req
<1>1. CASE UNCHANGED netVars
  BY <1>1 DEF netVars
<1>2. CASE Answer(c, s)
  <2> DEFINE l == Line(net[c][s].up, net[c][s].req,
                       IF net[c][s].up THEN Append(net[c][s].rep, "answer")
                                       ELSE net[c][s].rep)
  <2>1. LineSet(c, s, l) /\ l.req = net[c][s].req
    BY <1>2, AnswerEffect DEF Line
  <2>2. net \in [Clients -> [Sockets -> Lines]]
    BY DEF NetInv
  <2> HIDE DEF l
  <2>3. /\ net'[c][s] = l
        /\ \A e \in Clients, t \in Sockets : e # c \/ t # s => net'[e][t] = net[e][t]
    BY <2>1, <2>2, LineSetEffect
  <2> QED
    BY <2>1, <2>3
<1> QED
  BY <1>1, <1>2

(* What is sent is a spot only if it is a write.                           *)
LEMMA SendEffects ==
  ASSUME NetInv, NEW c \in Clients, NEW m \in Messages, Send(c, m), Sent(c)
  PROVE  /\ sock[c] \in Sockets /\ net[c][sock[c]].req \in Seq(Messages)
         /\ net'[c][sock[c]].req = Append(net[c][sock[c]].req, m)
         /\ \A d \in Clients, t \in Sockets :
              d # c \/ t # sock[c] => net'[d][t].req = net[d][t].req
<1> DEFINE r == net[c][sock[c]]
           l == Line(r.up, Append(r.req, m), r.rep)
<1>1. sock[c] \in Sockets /\ r.req \in Seq(Messages)
  BY LineTypes DEF NetInv
<1>2. LineSet(c, sock[c], l) /\ l.req = Append(r.req, m)
  BY SendEffect DEF Line
<1>3. net \in [Clients -> [Sockets -> Lines]]
  BY DEF NetInv
<1> HIDE DEF l
<1>4. /\ net'[c][sock[c]] = l
      /\ \A d \in Clients, t \in Sockets : d # c \/ t # sock[c] => net'[d][t] = net[d][t]
  BY <1>1, <1>2, <1>3, LineSetEffect
<1> QED
  BY <1>1, <1>2, <1>4

LEMMA AppendAt ==
  ASSUME NEW T, NEW q \in Seq(T), NEW m \in T, NEW i \in DOMAIN Append(q, m)
  PROVE  \/ i \in DOMAIN q /\ Append(q, m)[i] = q[i]
         \/ i = Len(q) + 1 /\ Append(q, m)[i] = m
OBVIOUS

LEMMA SentSpots ==
  ASSUME NetInv, NEW c \in Clients, NEW m \in Messages, Send(c, m), Sent(c),
         NEW d \in Clients, NEW n \in Nat, NEW p, AtSent(d, n, p)'
  PROVE  \/ AtSent(d, n, p)
         \/ /\ d = c /\ m.type = "write" /\ Carries(m.chunk, n)
            /\ p = <<"sent", sock[c], Len(net[c][sock[c]].req) + 1>>
<1> DEFINE q == net[c][sock[c]].req
<1>1. /\ q \in Seq(Messages) /\ sock[c] \in Sockets
      /\ net'[c][sock[c]].req = Append(q, m)
      /\ \A e \in Clients, t \in Sockets :
           e # c \/ t # sock[c] => net'[e][t].req = net[e][t].req
  BY SendEffects
<1>a. PICK t \in Sockets : \E i \in DOMAIN net'[d][t].req :
        /\ p = <<"sent", t, i>> /\ net'[d][t].req[i].type = "write"
        /\ Carries(net'[d][t].req[i].chunk, n)
  BY DEF AtSent, Carries
<1>2. PICK i \in DOMAIN net'[d][t].req :
        /\ p = <<"sent", t, i>> /\ net'[d][t].req[i].type = "write"
        /\ Carries(net'[d][t].req[i].chunk, n)
  BY <1>a
<1>3. ASSUME i \in DOMAIN net[d][t].req, net'[d][t].req[i] = net[d][t].req[i]
      PROVE  AtSent(d, n, p)
  BY <1>2, <1>3 DEF AtSent
<1>4. CASE d # c \/ t # sock[c]
  BY <1>1, <1>2, <1>3, <1>4
<1>5. CASE d = c /\ t = sock[c]
  <2>1. net'[d][t].req = Append(q, m) /\ net[d][t].req = q
    BY <1>1, <1>5
  <2> HIDE DEF q
  <2>2. i \in DOMAIN Append(q, m)
    BY <1>2, <2>1
  <2>3. \/ i \in DOMAIN q /\ net'[d][t].req[i] = q[i]
        \/ i = Len(q) + 1 /\ net'[d][t].req[i] = m
    BY <2>1, <2>2, AppendAt
  <2>4. CASE i \in DOMAIN q /\ net'[d][t].req[i] = q[i]
    BY <1>3, <2>1, <2>4
  <2>5. CASE i = Len(q) + 1 /\ net'[d][t].req[i] = m
    BY <1>1, <1>2, <1>5, <2>5 DEF q
  <2> QED
    BY <2>3, <2>4, <2>5
<1> QED
  BY <1>4, <1>5

LEMMA MarkTypes ==
  ASSUME FileInv, NEW c \in Clients
  PROVE  /\ given[c] \in Nat /\ buffer[c].cnt \in Nat /\ buffer[c].cnt <= given[c]
         /\ Mark(c) \in Nat
BY WriteConstants DEF FileInv, BufferSound, Mark

(* A chunk is made: its bytes move from the client to a pool.              *)
LEMMA ChunkSpots ==
  ASSUME FileInv, PoolTypes, NEW c \in Clients, NEW m \in Nat, AddChunk(c, m),
         Mark(c) = given[c] - buffer[c].cnt, Mark(c)' = given[c] + m,
         NEW n \in Nat, OneSpotOf(c, n),
         \A p : AtSent(c, n, p)' => AtSent(c, n, p),
         \A p : OnServer(c, n, p)' => OnServer(c, n, p)
  PROVE  OneSpotOf(c, n)'
<1> DEFINE k == NewChunk(c, m)
           a == <<"client", 0, 0>>
<1>1. \/ compQ'[c] = compQ[c] \cup {k} /\ xferQ'[c] = xferQ[c]
      \/ compQ'[c] = compQ[c] /\ xferQ'[c] = xferQ[c] \cup {k}
  BY AddChunkEffect DEF PoolTypes
<1>2. Carries(k, n) <=> given[c] - buffer[c].cnt < n /\ n <= given[c] + m
  BY MarkTypes DEF Carries, NewChunk
<1> HIDE DEF k
<1>3. Carries(k, n) => Spot(c, n, a) /\ ~AtClient(c, n, a)'
  BY <1>2, MarkTypes DEF Spot, InPools, AtClient
<1>4. \A p : AtClient(c, n, p)' => AtClient(c, n, p)
  BY MarkTypes DEF AtClient
<1>5. ASSUME NEW b \in {<<"comp", k, 0>>, <<"xfer", k, 0>>},
             \A p : Spot(c, n, p)' => \/ Spot(c, n, p)
                                      \/ p = b /\ Carries(k, n)
      PROVE  OneSpotOf(c, n)'
  <2>1. CASE Carries(k, n)
    <3>1. \A p : Spot(c, n, p)' => \/ p # b /\ Spot(c, n, p)
                                   \/ p = b /\ Spot(c, n, a)
      BY <1>3, <1>5, <2>1
    <3>2. ~Spot(c, n, a)'
      BY <1>3, <2>1 DEF Spot, InPools, AtComp, AtXfer, AtSent, OnServer, AtHandler,
                        AtTask, AtFile
    <3> QED
      BY <3>1, <3>2, SpotsMoved
  <2>2. CASE ~Carries(k, n)
    BY <1>5, <2>2, SpotsKept
  <2> QED
    BY <2>1, <2>2
<1>6. CASE compQ'[c] = compQ[c] \cup {k} /\ xferQ'[c] = xferQ[c]
  <2>1. \A p : AtComp(c, n, p)' => AtComp(c, n, p) \/ (p = <<"comp", k, 0>> /\ Carries(k, n))
    BY <1>6 DEF AtComp, Carries
  <2>2. \A p : AtXfer(c, n, p)' => AtXfer(c, n, p)
    BY <1>6 DEF AtXfer
  <2>3. \A p : Spot(c, n, p)' => Spot(c, n, p) \/ (p = <<"comp", k, 0>> /\ Carries(k, n))
    BY <1>4, <2>1, <2>2, Zenon DEF Spot, InPools
  <2> QED
    BY <1>5, <2>3
<1>7. CASE compQ'[c] = compQ[c] /\ xferQ'[c] = xferQ[c] \cup {k}
  <2>1. \A p : AtXfer(c, n, p)' => AtXfer(c, n, p) \/ (p = <<"xfer", k, 0>> /\ Carries(k, n))
    BY <1>7 DEF AtXfer, Carries
  <2>2. \A p : AtComp(c, n, p)' => AtComp(c, n, p)
    BY <1>7 DEF AtComp
  <2>3. \A p : Spot(c, n, p)' => Spot(c, n, p) \/ (p = <<"xfer", k, 0>> /\ Carries(k, n))
    BY <1>4, <2>1, <2>2, Zenon DEF Spot, InPools
  <2> QED
    BY <1>5, <2>3
<1> QED
  BY <1>1, <1>6, <1>7

(* The client's own steps, and what they leave on the server.              *)
LEMMA ServerSame ==
  ASSUME NEW d \in Clients, NEW n \in Nat, UNCHANGED serverVars
  PROVE  \A p : OnServer(d, n, p)' <=> OnServer(d, n, p)
<1>1. handler'[d] = handler[d] /\ UNCHANGED <<tasks, content>>
  BY DEF serverVars
<1> QED
  BY <1>1, ServerKept

LEMMA QuietMessages ==
  Open.type # "write" /\ Close.type # "write"
BY DEF Open, Close

(* Nothing but Transfer sends a write.                                     *)
LEMMA QuietSends ==
  ASSUME NetInv, NEW c \in Clients, NEW d \in Clients, NEW n \in Nat,
         \/ UNCHANGED netVars \/ Receive(c) \/ Restart(c)
         \/ Send(c, Open) \/ Send(c, Close)
  PROVE  \A p : AtSent(d, n, p)' => AtSent(d, n, p)
<1>1. ASSUME NEW m \in Messages, m.type # "write", Send(c, m)
      PROVE  \A p : AtSent(d, n, p)' => AtSent(d, n, p)
  <2>1. CASE Sent(c)
    BY <1>1, <2>1, SentSpots
  <2>2. CASE ~Sent(c)
    BY <1>1, <2>2, RequestsKept, SentKept
  <2> QED
    BY <2>1, <2>2
<1>2. CASE UNCHANGED netVars \/ Receive(c) \/ Restart(c)
  BY <1>2, RequestsKept, SentKept
<1> QED
  BY <1>1, <1>2, MessageTypes, QuietMessages

LEMMA ClientSends ==
  ASSUME PoolTypes, NEW c \in Clients,
         ClientStep(c) \/ CompressChunk(c) \/ TransferEnd(c)
  PROVE  \/ UNCHANGED netVars \/ Receive(c) \/ Restart(c)
         \/ Send(c, Open) \/ Send(c, Close)
BY DEF ClientStep, OpenFile, CloseDrained, OpenEnd, CloseEnd, TransferEnd, NoAnswer, Write,
       FillBuffer, WriteEnd, Seek, CloseFile, CompressChunk

LEMMA PoolsSame ==
  ASSUME NEW c \in Clients, NEW n \in Nat, OneSpotOf(c, n),
         compQ'[c] = compQ[c], xferQ'[c] = xferQ[c], Mark(c)' = Mark(c),
         \A p : AtSent(c, n, p)' => AtSent(c, n, p),
         \A p : OnServer(c, n, p)' => OnServer(c, n, p)
  PROVE  OneSpotOf(c, n)'
<1>1. \A p : Spot(c, n, p)' => Spot(c, n, p)
  BY PoolsKept DEF Spot
<1> QED
  BY <1>1, SpotsKept

(* What a client's own step does to its chunks.                            *)
LEMMA ClientChunks ==
  ASSUME Types, NEW c \in Clients, ClientStep(c)
  PROVE  \/ UNCHANGED <<compQ, xferQ>> /\ Mark(c)' = Mark(c)
         \/ \E n \in Nat : /\ AddChunk(c, n) /\ Mark(c) = given[c] - buffer[c].cnt
                           /\ Mark(c)' = given[c] + n
<1> USE DEF Types
<1>1. /\ rest[c] \in Nat /\ given[c] \in Nat /\ buffer[c].cnt \in Nat
      /\ buffer[c].cnt <= given[c] /\ buffer[c] \in [fp : Nat, cnt : 0 .. Space]
  BY FilledType, MarkTypes DEF FileInv
<1>2. CASE OpenFile(c)
  <2>1. app[c] = "new" /\ app'[c] \in {"opening", "ready"} /\ UNCHANGED <<buffer, given>>
    BY <1>2 DEF OpenFile, FileInv, fileVars
  <2> QED
    BY <1>2, <2>1 DEF OpenFile, poolVars, Mark
<1>3. CASE OpenEnd(c)
  <2>1. app[c] = "opening" /\ app'[c] = "ready" /\ UNCHANGED <<buffer, given>>
    BY <1>3 DEF OpenEnd, FileInv, fileVars
  <2> QED
    BY <1>3, <2>1 DEF OpenEnd, poolVars, Mark
<1>4. CASE Write(c)
  <2>1. app[c] = "ready" /\ app'[c] = "writing" /\ UNCHANGED <<buffer, given>>
    BY <1>4 DEF Write, FileInv
  <2> QED
    BY <1>4, <2>1 DEF Write, poolVars, Mark
<1>5. CASE FillBuffer(c)
  <2> DEFINE m == Smaller(rest[c], Space - buffer[c].cnt)
  <2>1. m \in Nat
    BY FilledType
  <2>2. /\ app[c] = "writing" /\ app' = app /\ AddChunk(c, m)
        /\ given' = [given EXCEPT ![c] = @ + m]
        /\ buffer' = [buffer EXCEPT ![c] = [fp |-> @.fp + @.cnt + m, cnt |-> 0]]
    BY <1>5 DEF FillBuffer
  <2> HIDE DEF m
  <2>3. given'[c] = given[c] + m /\ buffer'[c].cnt = 0
    BY <2>2 DEF FileInv
  <2>4. Mark(c) = given[c] - buffer[c].cnt /\ Mark(c)' = given[c] + m
    BY <1>1, <2>1, <2>2, <2>3 DEF Mark
  <2> QED
    BY <2>1, <2>2, <2>4
<1>6. CASE WriteEnd(c)
  <2>1. app[c] = "writing" /\ app'[c] = "ready" /\ given'[c] = given[c] + rest[c]
    BY <1>6 DEF WriteEnd, FileInv
  <2>2. CASE AddChunk(c, rest[c]) /\ buffer' = [buffer EXCEPT ![c] = [fp |-> pos[c], cnt |-> 0]]
    <3>1. buffer'[c].cnt = 0
      BY <2>2 DEF FileInv
    <3>2. Mark(c) = given[c] - buffer[c].cnt /\ Mark(c)' = given[c] + rest[c]
      BY <1>1, <2>1, <3>1 DEF Mark
    <3> QED
      BY <1>1, <2>1, <2>2, <3>2
  <2>3. CASE UNCHANGED <<compQ, xferQ>> /\ buffer' = [buffer EXCEPT ![c].cnt = @ + rest[c]]
    <3>1. buffer'[c].cnt = buffer[c].cnt + rest[c]
      BY <2>3 DEF FileInv
    <3>2. Mark(c)' = Mark(c)
      BY <1>1, <2>1, <3>1 DEF Mark
    <3> QED
      BY <2>3, <3>2
  <2> QED
    BY <1>6, <2>2, <2>3 DEF WriteEnd
<1>7. CASE Seek(c)
  <2>1. app[c] = "ready" /\ AddChunk(c, 0) /\ UNCHANGED <<app, given>> /\ buffer'[c].cnt = 0
    BY <1>7 DEF Seek, FileInv
  <2>2. Mark(c) = given[c] - buffer[c].cnt /\ Mark(c)' = given[c] + 0
    BY <1>1, <2>1 DEF Mark
  <2> QED
    BY <2>1, <2>2
<1>8. CASE CloseFile(c)
  <2>1. app[c] = "ready" /\ app'[c] = "draining" /\ UNCHANGED <<buffer, given>>
    BY <1>8 DEF CloseFile, FileInv
  <2>2. Mark(c) = given[c] - buffer[c].cnt /\ Mark(c)' = given[c] + 0
    BY <1>1, <2>1 DEF Mark
  <2>3. CASE AddChunk(c, 0)
    BY <2>1, <2>2, <2>3
  <2>4. CASE buffer[c].cnt = 0 /\ UNCHANGED <<compQ, xferQ>>
    BY <1>1, <2>2, <2>4
  <2> QED
    BY <1>1, <1>8, <2>3, <2>4 DEF CloseFile
<1>9. CASE CloseDrained(c)
  <2>1. app[c] = "draining" /\ app'[c] = "closing" /\ UNCHANGED <<buffer, given>>
    BY <1>9 DEF CloseDrained, FileInv, fileVars
  <2> QED
    BY <1>9, <2>1 DEF CloseDrained, poolVars, Mark
<1>10. CASE CloseEnd(c)
  <2>1. app[c] = "closing" /\ app'[c] = "closed" /\ UNCHANGED <<buffer, given>>
    BY <1>10 DEF CloseEnd, FileInv
  <2> QED
    BY <1>10, <2>1 DEF CloseEnd, Mark
<1> QED
  BY <1>2, <1>3, <1>4, <1>5, <1>6, <1>7, <1>8, <1>9, <1>10 DEF ClientStep

LEMMA ClientSpots ==
  ASSUME Types, NEW c \in Clients, NEW n \in Nat, OneSpotOf(c, n), ClientStep(c)
  PROVE  OneSpotOf(c, n)'
<1> USE DEF Types
<1>1. /\ \A p : AtSent(c, n, p)' => AtSent(c, n, p)
      /\ \A p : OnServer(c, n, p)' => OnServer(c, n, p)
  BY ClientSends, QuietSends, ServerSame, Frames
<1>2. ASSUME UNCHANGED <<compQ, xferQ>>, Mark(c)' = Mark(c) PROVE OneSpotOf(c, n)'
  BY <1>1, <1>2, PoolsSame
<1>3. ASSUME NEW m \in Nat, AddChunk(c, m), Mark(c) = given[c] - buffer[c].cnt,
             Mark(c)' = given[c] + m
      PROVE  OneSpotOf(c, n)'
  BY <1>1, <1>3, ChunkSpots
<1> QED
  BY <1>2, <1>3, ClientChunks

(* The steps of the pools.                                                 *)
LEMMA PoolSpots ==
  ASSUME Types, NEW c \in Clients, NEW n \in Nat, OneSpotOf(c, n), PoolStep(c)
  PROVE  OneSpotOf(c, n)'
<1> USE DEF Types
<1>1. Mark(c)' = Mark(c) /\ \A p : OnServer(c, n, p)' => OnServer(c, n, p)
  BY Frames, ServerSame DEF Mark, fileVars
<1>2. CASE CompressChunk(c)
  <2>0. PICK k \in compQ[c] : /\ compQ' = [compQ EXCEPT ![c] = @ \ {k}]
                              /\ xferQ' = [xferQ EXCEPT ![c] = @ \cup {k}]
    BY <1>2 DEF CompressChunk
  <2> DEFINE a == <<"comp", k, 0>>
             b == <<"xfer", k, 0>>
  <2>1. k \in compQ[c] /\ compQ'[c] = compQ[c] \ {k} /\ xferQ'[c] = xferQ[c] \cup {k}
    BY <2>0 DEF PoolTypes
  <2>2. \A p : AtSent(c, n, p)' => AtSent(c, n, p)
    BY <1>2, ClientSends, QuietSends
  <2>3. \A p : AtComp(c, n, p)' => AtComp(c, n, p) /\ p # a
    BY <2>1 DEF AtComp, Carries
  <2>4. \A p : AtXfer(c, n, p)' => AtXfer(c, n, p) \/ (p = b /\ AtComp(c, n, a))
    BY <2>1 DEF AtXfer, AtComp, Carries
  <2>5. \A p : AtClient(c, n, p)' => AtClient(c, n, p)
    BY <1>1 DEF AtClient
  <2>6. \A p : Spot(c, n, p)' => Spot(c, n, p) \/ (p = b /\ Spot(c, n, a))
    BY <1>1, <2>2, <2>3, <2>4, <2>5 DEF Spot, InPools
  <2>7. Spot(c, n, a)' => AtComp(c, n, a)'
    BY DEF Spot, InPools, AtClient, AtXfer, AtSent, OnServer, AtHandler, AtTask, AtFile
  <2>8. ~Spot(c, n, a)'
    BY <2>3, <2>7
  <2> HIDE DEF a, b
  <2>9. CASE Spot(c, n, a)
    BY <2>6, <2>8, <2>9, SpotsMoved
  <2>10. CASE ~Spot(c, n, a)
    BY <2>6, <2>10, SpotsKept
  <2> QED
    BY <2>9, <2>10
<1>3. CASE Transfer(c)
  <2>0. PICK k \in xferQ[c] : /\ xferQ' = [xferQ EXCEPT ![c] = @ \ {k}]
                              /\ Send(c, WriteMsg(k))
    BY <1>3 DEF Transfer
  <2> DEFINE a == <<"xfer", k, 0>>
             b == <<"sent", sock[c], Len(net[c][sock[c]].req) + 1>>
             m == WriteMsg(k)
  <2>1. /\ k \in xferQ[c] /\ compQ' = compQ /\ xferQ'[c] = xferQ[c] \ {k}
        /\ m \in Messages /\ m.type = "write" /\ m.chunk = k /\ Send(c, m)
    BY <1>3, <2>0, MessageTypes DEF PoolTypes, Transfer, WriteMsg
  <2> HIDE DEF m
  <2>2. \A p : AtComp(c, n, p)' => AtComp(c, n, p)
    BY <2>1 DEF AtComp, Carries
  <2>3. \A p : AtXfer(c, n, p)' => AtXfer(c, n, p) /\ p # a
    BY <2>1 DEF AtXfer, Carries
  <2>4. \A p : AtSent(c, n, p)' => AtSent(c, n, p) \/ (p = b /\ Carries(k, n))
    <3>1. CASE Sent(c)
      BY <2>1, <3>1, SentSpots
    <3>2. CASE ~Sent(c)
      BY <2>1, <3>2, RequestsKept, SentKept
    <3> QED
      BY <3>1, <3>2
  <2>5. \A p : AtClient(c, n, p)' => AtClient(c, n, p)
    BY <1>1 DEF AtClient
  <2>6. Carries(k, n) => AtXfer(c, n, a)
    BY <2>1 DEF AtXfer
  <2>7. \A p : Spot(c, n, p)' => Spot(c, n, p) \/ (p = b /\ Spot(c, n, a))
    BY <1>1, <2>2, <2>3, <2>4, <2>5, <2>6 DEF Spot, InPools
  <2>8. Spot(c, n, a)' => AtXfer(c, n, a)'
    BY DEF Spot, InPools, AtClient, AtComp, AtSent, OnServer, AtHandler, AtTask, AtFile
  <2>9. ~Spot(c, n, a)'
    BY <2>3, <2>8
  <2> HIDE DEF a, b
  <2>10. CASE Spot(c, n, a)
    BY <2>7, <2>9, <2>10, SpotsMoved
  <2>11. CASE ~Spot(c, n, a)
    BY <2>7, <2>11, SpotsKept
  <2> QED
    BY <2>10, <2>11
<1>4. CASE TransferEnd(c)
  <2>1. UNCHANGED <<compQ, xferQ>>
    BY <1>4 DEF TransferEnd
  <2>2. \A p : AtSent(c, n, p)' => AtSent(c, n, p)
    BY <1>4, ClientSends, QuietSends
  <2> QED
    BY <1>1, <2>1, <2>2, PoolsSame
<1> QED
  BY <1>2, <1>3, <1>4 DEF PoolStep

(* The other clients' bytes stay where they are.                           *)
LEMMA OtherSpots ==
  ASSUME Types, NEW c \in Clients, NEW d \in Clients, d # c, NEW n \in Nat,
         OneSpotOf(d, n), ClientStep(c) \/ PoolStep(c)
  PROVE  OneSpotOf(d, n)'
<1> USE DEF Types
<1>1. compQ'[d] = compQ[d] /\ xferQ'[d] = xferQ[d] /\ Mark(d)' = Mark(d)
  BY OthersKeep DEF Mark
<1>2. \A p : OnServer(d, n, p)' => OnServer(d, n, p)
  BY ServerSame, Frames
<1>3. \A p : AtSent(d, n, p)' => AtSent(d, n, p)
  <2>1. CASE Transfer(c)
    <3>1. PICK k \in xferQ[c] : Send(c, WriteMsg(k))
      BY <2>1 DEF Transfer
    <3>2. WriteMsg(k) \in Messages
      BY MessageTypes DEF PoolTypes
    <3>3. CASE Sent(c)
      BY <3>1, <3>2, <3>3, SentSpots
    <3>4. CASE ~Sent(c)
      BY <3>1, <3>4, RequestsKept, SentKept
    <3> QED
      BY <3>3, <3>4
  <2> QED
    BY <2>1, ClientSends, QuietSends DEF PoolStep
<1> QED
  BY <1>1, <1>2, <1>3, PoolsSame

LEMMA BreakSpots ==
  ASSUME Types, NEW c \in Clients, NEW d \in Clients, NEW n \in Nat,
         OneSpotOf(d, n), Break(c)
  PROVE  OneSpotOf(d, n)'
<1> USE DEF Types
<1>1. PICK arrives \in BOOLEAN :
        net' = [net EXCEPT ![c][sock[c]] =
                  [up |-> FALSE, req |-> IF arrives THEN @.req ELSE <<>>, rep |-> <<>>]]
  BY DEF Break
<1>2. \A t \in Sockets : net'[d][t].req = net[d][t].req \/ net'[d][t].req = <<>>
  BY <1>1 DEF NetInv
<1>3. \A p : AtSent(d, n, p)' => AtSent(d, n, p)
  BY <1>2 DEF AtSent, Carries
<1>4. \A p : OnServer(d, n, p)' => OnServer(d, n, p)
  BY Frames, ServerSame
<1>5. UNCHANGED <<compQ, xferQ>> /\ Mark(d)' = Mark(d)
  BY Frames DEF poolVars, fileVars, Mark
<1> QED
  BY <1>3, <1>4, <1>5, PoolsSame

(* A handler that has no chunk afterwards.                                 *)
LEMMA HandlerSpots ==
  ASSUME ServerInv, NEW c \in Clients, NEW s \in Sockets, NEW h \in Handlers, To(c, s, h),
         NEW d \in Clients, NEW n \in Nat, NEW p, AtHandler(d, n, p)'
  PROVE  \/ AtHandler(d, n, p) /\ (d = c => p # <<"handler", s, 0>>)
         \/ /\ d = c /\ p = <<"handler", s, 0>> /\ h.at \in {"write", "data"}
            /\ Carries(h.chunk, n)
<1>1. /\ handler'[c][s] = h
      /\ \A e \in Clients, t \in Sockets : e # c \/ t # s => handler'[e][t] = handler[e][t]
  BY ToKeeps, HandlerSetEffect DEF ServerInv
<1>2. PICK t \in Sockets :
        /\ p = <<"handler", t, 0>> /\ handler'[d][t].at \in {"write", "data"}
        /\ Carries(handler'[d][t].chunk, n)
  BY DEF AtHandler, Carries
<1>3. CASE d # c \/ t # s
  BY <1>1, <1>2, <1>3 DEF AtHandler
<1>4. CASE d = c /\ t = s
  BY <1>1, <1>2, <1>4
<1> QED
  BY <1>3, <1>4

(* Steps of the server that move nothing.                                  *)
LEMMA ServerSpots ==
  ASSUME NEW d \in Clients, NEW n \in Nat, OneSpotOf(d, n),
         UNCHANGED <<app, fileVars, poolVars>>,
         \A p : AtSent(d, n, p)' => AtSent(d, n, p),
         \A p : AtHandler(d, n, p)' => AtHandler(d, n, p),
         \A p : AtTask(d, n, p)' => AtTask(d, n, p),
         \A p : AtFile(d, n, p)' => AtFile(d, n, p)
  PROVE  OneSpotOf(d, n)'
<1>1. UNCHANGED <<compQ, xferQ>> /\ Mark(d)' = Mark(d)
  BY DEF poolVars, fileVars, Mark
<1>2. \A p : OnServer(d, n, p)' => OnServer(d, n, p)
  BY DEF OnServer
<1> QED
  BY <1>1, <1>2, PoolsSame

LEMMA ContentSpots ==
  ASSUME NEW d \in Clients, NEW n \in Nat, content' = content \/ content' = <<>>
  PROVE  \A p : AtFile(d, n, p)' => AtFile(d, n, p)
BY DEF AtFile

LEMMA PollSpots ==
  ASSUME Types, NEW c \in Clients, NEW s \in Sockets, Poll(c, s),
         NEW d \in Clients, NEW n \in Nat, OneSpotOf(d, n)
  PROVE  OneSpotOf(d, n)'
<1> USE DEF Types
<1> DEFINE q == net[c][s].req
           l == Line(net[c][s].up, Tail(q), net[c][s].rep)
           h == Taken(Head(q))
<1>1. /\ q \in Seq(Messages) /\ q # <<>> /\ Head(q) \in Messages /\ h \in Handlers
      /\ To(c, s, h) /\ h.at = Head(q).type
      /\ Head(q).type = "write" => h.chunk = Head(q).chunk
      /\ Head(q).type \in {"write", "open", "close"}
  BY PollTakes, TakenType, LineTypes DEF Poll
<1>2. LineSet(c, s, l) /\ l.req = Tail(q)
  BY PollEffect DEF Line
<1>3. /\ UNCHANGED <<app, fileVars, poolVars, tasks, content>>
  BY DEF Poll, ServerOnly
<1> HIDE DEF l, h
<1>4. /\ net'[c][s].req = Tail(q)
      /\ \A e \in Clients, t \in Sockets : e # c \/ t # s => net'[e][t] = net[e][t]
  <2>1. net \in [Clients -> [Sockets -> Lines]]
    BY DEF NetInv
  <2> QED
    BY <1>2, <2>1, LineSetEffect
<1>5. /\ \A p : AtTask(d, n, p)' => AtTask(d, n, p)
      /\ \A p : AtFile(d, n, p)' => AtFile(d, n, p)
  BY <1>3, ContentSpots DEF AtTask, Carries
<1>6. CASE d # c
  <2>1. \A p : AtSent(d, n, p)' => AtSent(d, n, p)
    BY <1>4, <1>6, SentKept
  <2>2. \A p : AtHandler(d, n, p)' => AtHandler(d, n, p)
    BY <1>1, <1>6, HandlerSpots
  <2> QED
    BY <1>3, <1>5, <2>1, <2>2, ServerSpots
<1>7. CASE d = c
  <2> DEFINE a == <<"sent", s, 1>>
             b == <<"handler", s, 0>>
             Was(p, o) == \/ p = b /\ o = a
                          \/ \E i \in Nat : i > 0 /\ p = <<"sent", s, i>> /\ o = <<"sent", s, i + 1>>
                          \/ /\ p = o /\ p # b /\ \A i \in Nat : p # <<"sent", s, i>>
  <2>1. ASSUME NEW p, AtSent(c, n, p)' PROVE \E o : AtSent(c, n, o) /\ Was(p, o)
    <3>1. PICK t \in Sockets : \E i \in DOMAIN net'[c][t].req :
            /\ p = <<"sent", t, i>> /\ net'[c][t].req[i].type = "write"
            /\ Carries(net'[c][t].req[i].chunk, n)
      BY <2>1 DEF AtSent, Carries
    <3>2. PICK i \in DOMAIN net'[c][t].req :
            /\ p = <<"sent", t, i>> /\ net'[c][t].req[i].type = "write"
            /\ Carries(net'[c][t].req[i].chunk, n)
      BY <3>1
    <3>3. CASE t # s
      <4>1. AtSent(c, n, p)
        BY <1>4, <3>2, <3>3 DEF AtSent
      <4>2. Was(p, p)
        BY <3>2, <3>3
      <4> QED
        BY <4>1, <4>2
    <3>4. CASE t = s
      <4>1. i \in DOMAIN Tail(q) /\ net'[c][t].req[i] = Tail(q)[i]
        BY <1>4, <3>2, <3>4
      <4>2. i \in Nat /\ i > 0 /\ i + 1 \in DOMAIN q /\ Tail(q)[i] = q[i + 1]
        BY <1>1, <4>1
      <4>3. net[c][s].req[i + 1].type = "write" /\ Carries(net[c][s].req[i + 1].chunk, n)
        BY <3>2, <4>1, <4>2
      <4>4. AtSent(c, n, <<"sent", s, i + 1>>)
        BY <4>2, <4>3 DEF AtSent
      <4>5. Was(p, <<"sent", s, i + 1>>)
        BY <3>2, <3>4, <4>2
      <4> QED
        BY <4>4, <4>5
    <3> QED
      BY <3>3, <3>4
  <2>2. ASSUME NEW p, AtHandler(c, n, p)' PROVE \E o : Spot(c, n, o) /\ Was(p, o)
    <3>1. CASE AtHandler(c, n, p) /\ p # b
      <4>1. Was(p, p)
        BY <3>1 DEF AtHandler
      <4> QED
        BY <3>1, <4>1 DEF Spot, OnServer
    <3>2. CASE p = b /\ h.at \in {"write", "data"} /\ Carries(h.chunk, n)
      <4>1. Head(q).type = "write" /\ Carries(Head(q).chunk, n)
        BY <1>1, <3>2
      <4>2. 1 \in DOMAIN q /\ q[1] = Head(q)
        BY <1>1
      <4>3. AtSent(c, n, a)
        BY <4>1, <4>2 DEF AtSent
      <4> QED
        BY <3>2, <4>3 DEF Spot
    <3> QED
      BY <1>1, <2>2, <3>1, <3>2, HandlerSpots
  <2>3. ASSUME NEW p, Spot(c, n, p)' PROVE \E o : Spot(c, n, o) /\ Was(p, o)
    <3>1. CASE InPools(c, n, p)'
      <4>1. InPools(c, n, p)
        BY <1>3, <3>1, PoolsKept DEF poolVars, fileVars, Mark
      <4>2. Was(p, p)
        BY <4>1 DEF InPools, AtClient, AtComp, AtXfer
      <4> QED
        BY <4>1, <4>2 DEF Spot
    <3>2. CASE AtTask(c, n, p)' \/ AtFile(c, n, p)'
      <4>1. AtTask(c, n, p) \/ AtFile(c, n, p)
        BY <1>5, <1>7, <3>2
      <4>2. Was(p, p)
        BY <4>1 DEF AtTask, AtFile
      <4> QED
        BY <4>1, <4>2 DEF Spot, OnServer
    <3> QED
      BY <2>1, <2>2, <2>3, <3>1, <3>2 DEF Spot, OnServer
  <2>4. ASSUME NEW p1, NEW p2, NEW o, Was(p1, o), Was(p2, o) PROVE p1 = p2
    BY <2>4
  <2> HIDE DEF Was, a, b
  <2>5. \A p1, p2 : Spot(c, n, p1)' /\ Spot(c, n, p2)' => p1 = p2
    BY <1>7, <2>3, <2>4 DEF OneSpotOf
  <2> QED
    BY <1>7, <2>5 DEF OneSpotOf
<1> QED
  BY <1>6, <1>7

(* Steps after which the handler has no chunk.                             *)
LEMMA QuietSpots ==
  ASSUME Types, NEW c \in Clients, NEW s \in Sockets,
         NEW x \in {"idle", "open", "opened", "ack", "close", "remove", "delete"},
         GoTo(c, s, x), UNCHANGED netVars \/ Answer(c, s),
         UNCHANGED <<app, fileVars, poolVars, tasks>>,
         content' = content \/ content' = <<>>,
         NEW d \in Clients, NEW n \in Nat, OneSpotOf(d, n)
  PROVE  OneSpotOf(d, n)'
<1> USE DEF Types
<1>1. \A p : AtSent(d, n, p)' => AtSent(d, n, p)
  BY AnswersKeepRequests, SentKept
<1>2. [at |-> x] \in Handlers /\ [at |-> x].at \notin {"write", "data"}
      /\ To(c, s, [at |-> x])
  BY HandlerTypes DEF GoTo
<1>3. \A p : AtHandler(d, n, p)' => AtHandler(d, n, p)
  BY <1>2, HandlerSpots
<1>4. /\ \A p : AtTask(d, n, p)' => AtTask(d, n, p)
      /\ \A p : AtFile(d, n, p)' => AtFile(d, n, p)
  BY ContentSpots DEF AtTask, Carries
<1> QED
  BY <1>1, <1>3, <1>4, ServerSpots

LEMMA LookupSpots ==
  ASSUME Types, NEW c \in Clients, NEW s \in Sockets, Lookup(c, s),
         NEW d \in Clients, NEW n \in Nat, OneSpotOf(d, n)
  PROVE  OneSpotOf(d, n)'
<1> USE DEF Types
<1> DEFINE h == [at |-> "data", chunk |-> handler[c][s].chunk, file |-> served.file]
<1>1. UNCHANGED <<app, fileVars, poolVars, tasks, content>> /\ UNCHANGED netVars
  BY DEF Lookup, ServerOnly
<1>2. CASE GoTo(c, s, "idle")
  BY <1>1, <1>2, QuietSpots
<1>3. CASE To(c, s, h)
  <2>1. At(c, s, "write") /\ handler[c][s].chunk \in Chunks /\ served.file \in Nat
    BY HandlerHas DEF Lookup, ServerInv
  <2>2. h \in Handlers /\ h.chunk = handler[c][s].chunk
    BY <2>1, HandlerTypes
  <2> HIDE DEF h
  <2>3. \A p : AtHandler(d, n, p)' => AtHandler(d, n, p)
    <3>1. Carries(h.chunk, n) => AtHandler(c, n, <<"handler", s, 0>>)
      BY <2>1, <2>2 DEF AtHandler, At
    <3> QED
      BY <1>3, <2>2, <3>1, HandlerSpots
  <2>4. \A p : AtSent(d, n, p)' => AtSent(d, n, p)
    BY <1>1, RequestsKept, SentKept
  <2>5. /\ \A p : AtTask(d, n, p)' => AtTask(d, n, p)
        /\ \A p : AtFile(d, n, p)' => AtFile(d, n, p)
    BY <1>1, ContentSpots DEF AtTask, Carries
  <2> QED
    BY <1>1, <2>3, <2>4, <2>5, ServerSpots
<1> QED
  BY <1>2, <1>3 DEF Lookup

LEMMA WriteDataSpots ==
  ASSUME Types, NEW c \in Clients, NEW s \in Sockets, WriteData(c, s),
         NEW d \in Clients, NEW n \in Nat, OneSpotOf(d, n)
  PROVE  OneSpotOf(d, n)'
<1> USE DEF Types
<1>1. UNCHANGED <<app, fileVars, poolVars, content>> /\ UNCHANGED netVars /\ GoTo(c, s, "ack")
  BY DEF WriteData, ServerOnly
<1>2. CASE tasks' = tasks
  BY <1>1, <1>2, QuietSpots
<1>3. CASE tasks' = Append(tasks, [client |-> c, chunk |-> handler[c][s].chunk])
  <2> DEFINE t == [client |-> c, chunk |-> handler[c][s].chunk]
             a == <<"handler", s, 0>>
             b == <<"task", Len(tasks) + 1, 0>>
  <2>1. At(c, s, "data") /\ handler[c][s].chunk \in Chunks
    BY HandlerHas DEF WriteData
  <2>2. t \in Tasks /\ t.client = c /\ t.chunk = handler[c][s].chunk
    BY <2>1 DEF Tasks
  <2>3. tasks \in Seq(Tasks) /\ tasks' = Append(tasks, t)
    BY <1>3 DEF ServerInv
  <2> HIDE DEF t
  <2>4. \A p : AtTask(d, n, p)' =>
          AtTask(d, n, p) \/ (p = b /\ d = c /\ Carries(handler[c][s].chunk, n))
    <3>1. \A i \in DOMAIN tasks' : \/ i \in DOMAIN tasks /\ tasks'[i] = tasks[i]
                                   \/ i = Len(tasks) + 1 /\ tasks'[i] = t
      BY <2>2, <2>3, AppendAt
    <3> QED
      BY <2>2, <3>1 DEF AtTask, Carries
  <2>5. Carries(handler[c][s].chunk, n) => AtHandler(c, n, a)
    BY <2>1 DEF AtHandler, At
  <2>6. \A p : AtHandler(d, n, p)' => AtHandler(d, n, p) /\ (d = c => p # a)
    <3>1. [at |-> "ack"] \in Handlers /\ To(c, s, [at |-> "ack"])
          /\ [at |-> "ack"].at \notin {"write", "data"}
      BY <1>1, HandlerTypes DEF GoTo
    <3> QED
      BY <3>1, HandlerSpots
  <2>7. /\ \A p : AtFile(d, n, p)' => AtFile(d, n, p)
        /\ \A p : AtSent(d, n, p)' => AtSent(d, n, p)
        /\ \A p : InPools(d, n, p)' => InPools(d, n, p)
    <3>1. \A p : AtFile(d, n, p)' => AtFile(d, n, p)
      BY <1>1, ContentSpots
    <3>2. \A p : AtSent(d, n, p)' => AtSent(d, n, p)
      BY <1>1, RequestsKept, SentKept
    <3>3. \A p : InPools(d, n, p)' => InPools(d, n, p)
      BY <1>1, PoolsKept DEF poolVars, fileVars, Mark
    <3> QED
      BY <3>1, <3>2, <3>3
  <2>8. \A p : Spot(d, n, p)' => Spot(d, n, p) \/ (p = b /\ d = c /\ Spot(d, n, a))
    BY <2>4, <2>5, <2>6, <2>7 DEF Spot, OnServer
  <2>9. d = c => ~Spot(d, n, a)'
    <3>1. Spot(d, n, a)' => AtHandler(d, n, a)'
      BY DEF Spot, InPools, AtClient, AtComp, AtXfer, AtSent, OnServer, AtTask, AtFile
    <3> QED
      BY <2>6, <3>1
  <2> HIDE DEF a, b
  <2>10. CASE d = c /\ Spot(d, n, a)
    BY <2>8, <2>9, <2>10, SpotsMoved
  <2>11. CASE ~(d = c /\ Spot(d, n, a))
    BY <2>8, <2>11, SpotsKept
  <2> QED
    BY <2>10, <2>11
<1> QED
  BY <1>2, <1>3 DEF WriteData

LEMMA HandlerStepSpots ==
  ASSUME Types, NEW c \in Clients, NEW s \in Sockets, HandlerStep(c, s),
         NEW d \in Clients, NEW n \in Nat, OneSpotOf(d, n)
  PROVE  OneSpotOf(d, n)'
<1> USE DEF Types
<1>1. UNCHANGED <<app, fileVars, poolVars>>
  BY HandlerFrame
<1>2. CASE Poll(c, s) \/ Lookup(c, s) \/ WriteData(c, s)
  BY <1>2, PollSpots, LookupSpots, WriteDataSpots
<1>3. CASE ServerOpen(c, s)
  <2>1. GoTo(c, s, "opened") /\ UNCHANGED netVars /\ UNCHANGED tasks
        /\ (content' = content \/ content' = <<>>)
    BY <1>3 DEF ServerOpen
  <2> QED
    BY <1>1, <2>1, QuietSpots
<1>4. CASE ServerOpenAnswer(c, s)
  <2>1. (GoTo(c, s, "idle") \/ GoTo(c, s, "remove")) /\ Answer(c, s)
        /\ UNCHANGED <<tasks, content>>
    BY <1>4 DEF ServerOpenAnswer
  <2> QED
    BY <1>1, <2>1, QuietSpots
<1>5. CASE Acknowledge(c, s) \/ ServerClose(c, s)
  <2>1. (GoTo(c, s, "idle") \/ GoTo(c, s, "remove")) /\ Answer(c, s)
        /\ UNCHANGED <<tasks, content>>
    BY <1>5 DEF Acknowledge, ServerClose
  <2> QED
    BY <1>1, <2>1, QuietSpots
<1>6. CASE RemoveUser(c, s)
  <2>1. (GoTo(c, s, "idle") \/ GoTo(c, s, "delete")) /\ UNCHANGED netVars
        /\ UNCHANGED <<tasks, content>>
    BY <1>6 DEF RemoveUser
  <2> QED
    BY <1>1, <2>1, QuietSpots
<1>7. CASE Delete(c, s)
  <2>1. GoTo(c, s, "idle") /\ UNCHANGED netVars /\ UNCHANGED tasks
        /\ (content' = content \/ content' = <<>>)
    BY <1>7 DEF Delete
  <2> QED
    BY <1>1, <2>1, QuietSpots
<1> QED
  BY <1>2, <1>3, <1>4, <1>5, <1>6, <1>7 DEF HandlerStep

(* What the pool's thread does to the file, with the first task t.         *)
LEMMA AppendEffect ==
  ASSUME ServerInv, AppendToFile
  PROVE  \E t \in Tasks :
           /\ t = tasks[1] /\ 1 \in DOMAIN tasks /\ t.client \in Clients /\ t.chunk \in Chunks
           /\ t.chunk.from \in Nat /\ t.chunk.cnt \in Nat /\ Len(content) \in Nat
           /\ tasks' = Tail(tasks) /\ DOMAIN content = 1 .. Len(content)
           /\ Len(tasks) \in Nat /\ Len(tasks') = Len(tasks) - 1
           /\ DOMAIN tasks = 1 .. Len(tasks) /\ DOMAIN tasks' = 1 .. Len(tasks) - 1
           /\ \A i \in 1 .. Len(tasks) - 1 : tasks'[i] = tasks[i + 1]
           /\ content' = content \o BytesOf(t.client, t.chunk)
           /\ DOMAIN content' = 1 .. Len(content) + t.chunk.cnt
           /\ \A i \in DOMAIN content : content'[i] = content[i]
           /\ \A i \in 1 .. t.chunk.cnt :
                content'[Len(content) + i] = <<t.client, t.chunk.from + i>>
<1>1. PICK t : t = Head(tasks)
  OBVIOUS
<1>2. /\ tasks \in Seq(Tasks) /\ tasks # <<>> /\ tasks' = Tail(tasks)
      /\ content \in Seq(Clients \X Nat) /\ content' = content \o BytesOf(t.client, t.chunk)
  BY <1>1 DEF ServerInv, AppendToFile
<1>3. t \in Tasks /\ t = tasks[1] /\ 1 \in DOMAIN tasks
  BY <1>1, <1>2
<1>4. t.client \in Clients /\ t.chunk \in Chunks
  BY <1>3 DEF Tasks
<1>5. t.chunk.from \in Nat /\ t.chunk.cnt \in Nat
  BY <1>4 DEF Chunks
<1>6. PICK b : b = BytesOf(t.client, t.chunk)
  OBVIOUS
<1>7. /\ b \in Seq(Clients \X Nat) /\ Len(b) = t.chunk.cnt
      /\ \A i \in 1 .. t.chunk.cnt : b[i] = <<t.client, t.chunk.from + i>>
  BY <1>4, <1>5, <1>6, BytesType DEF BytesOf
<1>8. /\ content' = content \o b /\ Len(content) \in Nat
      /\ DOMAIN content = 1 .. Len(content)
      /\ DOMAIN content' = 1 .. Len(content) + t.chunk.cnt
      /\ \A i \in DOMAIN content : content'[i] = content[i]
      /\ \A i \in 1 .. t.chunk.cnt : content'[Len(content) + i] = b[i]
  BY <1>2, <1>5, <1>6, <1>7
<1>9. /\ Len(tasks) \in Nat /\ Len(tasks') = Len(tasks) - 1
      /\ DOMAIN tasks = 1 .. Len(tasks) /\ DOMAIN tasks' = 1 .. Len(tasks) - 1
      /\ \A i \in 1 .. Len(tasks) - 1 : tasks'[i] = tasks[i + 1]
  BY <1>2
<1> QED
  BY <1>2, <1>3, <1>4, <1>5, <1>6, <1>7, <1>8, <1>9

(* The first task's bytes are appended.                                    *)
LEMMA AppendSpots ==
  ASSUME Types, AppendToFile, NEW d \in Clients, NEW n \in Nat, OneSpotOf(d, n)
  PROVE  OneSpotOf(d, n)'
<1> USE DEF Types
<1>1. PICK t \in Tasks :
        /\ t = tasks[1] /\ 1 \in DOMAIN tasks
        /\ t.chunk.from \in Nat /\ t.chunk.cnt \in Nat /\ Len(content) \in Nat
        /\ DOMAIN content = 1 .. Len(content)
        /\ Len(tasks) \in Nat
        /\ DOMAIN tasks = 1 .. Len(tasks) /\ DOMAIN tasks' = 1 .. Len(tasks) - 1
        /\ \A i \in 1 .. Len(tasks) - 1 : tasks'[i] = tasks[i + 1]
        /\ DOMAIN content' = 1 .. Len(content) + t.chunk.cnt
        /\ \A i \in DOMAIN content : content'[i] = content[i]
        /\ \A i \in 1 .. t.chunk.cnt :
             content'[Len(content) + i] = <<t.client, t.chunk.from + i>>
  BY AppendEffect
<1>2. PICK N, e, k : N = Len(content) /\ e = t.client /\ k = t.chunk
  OBVIOUS
<1> DEFINE a == <<"task", 1, 0>>
           b == <<"file", n - k.from + N, 0>>
           Was(p, o) == \/ p = b /\ o = a
                        \/ \E i \in Nat : i > 0 /\ p = <<"task", i, 0>> /\ o = <<"task", i + 1, 0>>
                        \/ p = o /\ \A i \in Nat : p # <<"task", i, 0>>
<1>3. UNCHANGED <<app, fileVars, poolVars, netVars, handler>>
  BY AppendFrame
<1>4. ASSUME NEW p, AtFile(d, n, p)'
      PROVE  \/ AtFile(d, n, p)
             \/ p = b /\ e = d /\ Carries(k, n)
  <2>1. PICK i \in DOMAIN content' : p = <<"file", i, 0>> /\ content'[i] = <<d, n>>
    BY <1>4 DEF AtFile
  <2>2. CASE i \in DOMAIN content
    BY <1>1, <2>1, <2>2 DEF AtFile
  <2>3. CASE i \notin DOMAIN content
    <3>1. PICK j \in 1 .. k.cnt : i = N + j
      <4>1. i - N \in 1 .. k.cnt /\ i = N + (i - N)
        BY <1>1, <1>2, <2>1, <2>3
      <4> QED
        BY <4>1
    <3>2. content'[i] = <<e, k.from + j>>
      BY <1>1, <1>2, <3>1
    <3>3. d = e /\ n = k.from + j
      BY <2>1, <3>2
    <3>4. i = n - k.from + N /\ Carries(k, n)
      <4>1. k.from \in Nat /\ k.cnt \in Nat /\ N \in Nat
        BY <1>1, <1>2
      <4> QED
        BY <3>1, <3>3, <4>1 DEF Carries
    <3> QED
      BY <2>1, <3>3, <3>4
  <2> QED
    BY <2>2, <2>3
<1>5. ASSUME NEW p, AtTask(d, n, p)' PROVE \E o : AtTask(d, n, o) /\ Was(p, o)
  <2>1. PICK i \in DOMAIN tasks' :
          p = <<"task", i, 0>> /\ tasks'[i].client = d /\ Carries(tasks'[i].chunk, n)
    BY <1>5 DEF AtTask, Carries
  <2>2. i \in Nat /\ i > 0 /\ i + 1 \in DOMAIN tasks /\ tasks'[i] = tasks[i + 1]
    BY <1>1, <2>1
  <2>3. AtTask(d, n, <<"task", i + 1, 0>>) /\ Was(p, <<"task", i + 1, 0>>)
    BY <2>1, <2>2 DEF AtTask
  <2> QED
    BY <2>3
<1>6. e = d /\ Carries(k, n) => AtTask(d, n, a)
  BY <1>1, <1>2 DEF AtTask
<1>7. ASSUME NEW p, Spot(d, n, p)' PROVE \E o : Spot(d, n, o) /\ Was(p, o)
  <2>1. CASE InPools(d, n, p)'
    <3>1. InPools(d, n, p)
      BY <1>3, <2>1, PoolsKept DEF poolVars, fileVars, Mark
    <3>2. Was(p, p)
      BY <3>1 DEF InPools, AtClient, AtComp, AtXfer
    <3> QED
      BY <3>1, <3>2 DEF Spot
  <2>2. CASE AtSent(d, n, p)' \/ AtHandler(d, n, p)'
    <3>1. AtSent(d, n, p) \/ AtHandler(d, n, p)
      BY <1>3, <2>2 DEF AtSent, AtHandler, Carries, netVars
    <3>2. Was(p, p)
      BY <3>1 DEF AtSent, AtHandler
    <3> QED
      BY <3>1, <3>2 DEF Spot, OnServer
  <2>3. CASE AtTask(d, n, p)'
    BY <1>5, <2>3 DEF Spot, OnServer
  <2>4. CASE AtFile(d, n, p)'
    <3>1. CASE AtFile(d, n, p)
      <4>1. Was(p, p)
        BY <3>1 DEF AtFile
      <4> QED
        BY <3>1, <4>1 DEF Spot, OnServer
    <3>2. CASE p = b /\ e = d /\ Carries(k, n)
      BY <1>6, <3>2 DEF Spot, OnServer
    <3> QED
      BY <1>4, <2>4, <3>1, <3>2
  <2> QED
    BY <1>7, <2>1, <2>2, <2>3, <2>4 DEF Spot, OnServer
<1>8. ASSUME NEW p1, NEW p2, NEW o, Was(p1, o), Was(p2, o) PROVE p1 = p2
  BY <1>8
<1> HIDE DEF Was, a, b
<1> QED
  BY <1>7, <1>8 DEF OneSpotOf

(* At first all bytes are with the client, none of them given.             *)
THEOREM InitSpots == Init => OneSpot
<1> SUFFICES ASSUME Init, NEW c \in Clients, NEW n \in Nat PROVE OneSpotOf(c, n)
  BY DEF OneSpot
<1>1. compQ[c] = {} /\ xferQ[c] = {} /\ tasks = <<>> /\ content = <<>>
      /\ \A s \in Sockets : net[c][s].req = <<>> /\ handler[c][s].at = "idle"
  BY DEF Init, Idle
<1>2. \A p : Spot(c, n, p) => p = <<"client", 0, 0>>
  BY <1>1 DEF Spot, InPools, OnServer, AtClient, AtComp, AtXfer, AtSent, AtHandler,
              AtTask, AtFile
<1> QED
  BY <1>2 DEF OneSpotOf

(* A step of write, of a pool, of a socket or of the server moves bytes or *)
(* loses them, and leaves no copy behind.                                  *)
THEOREM SpotsStep ==
  ASSUME Types, OneSpot, [Next]_vars
  PROVE  OneSpot'
<1> SUFFICES ASSUME NEW d \in Clients, NEW n \in Nat PROVE OneSpotOf(d, n)'
  BY DEF OneSpot
<1>1. OneSpotOf(d, n)
  BY DEF OneSpot
<1>2. ASSUME NEW c \in Clients, ClientStep(c) \/ PoolStep(c) PROVE OneSpotOf(d, n)'
  <2>1. CASE c = d
    BY <1>1, <1>2, <2>1, ClientSpots, PoolSpots
  <2>2. CASE c # d
    BY <1>1, <1>2, <2>2, OtherSpots
  <2> QED
    BY <2>1, <2>2
<1>3. ASSUME NEW c \in Clients, Break(c) PROVE OneSpotOf(d, n)'
  BY <1>1, <1>3, BreakSpots
<1>4. ASSUME NEW c \in Clients, NEW s \in Sockets, HandlerStep(c, s) PROVE OneSpotOf(d, n)'
  BY <1>1, <1>4, HandlerStepSpots
<1>5. CASE AppendToFile
  BY <1>1, <1>5, AppendSpots
<1>6. CASE UNCHANGED vars
  BY <1>1, <1>6, PoolsSame, SentKept, ServerSame DEF vars, poolVars, fileVars, netVars, Mark
<1> QED
  BY <1>2, <1>3, <1>4, <1>5, <1>6 DEF Next

-------------------------------------------------------------------------------
(* The invariants together.                                                *)
FileSafety == Types /\ NumbersInv /\ OneSpot

(* OutputFile and ServeFile keep all of this, whatever sockets break.      *)
THEOREM FileSafetyAlways == Spec => []FileSafety
<1>1. Init => FileSafety
  BY InitTypes, InitNumbers, InitSpots DEF FileSafety
<1>2. FileSafety /\ [Next]_vars => FileSafety'
  BY TypesStep, NumbersStep, SpotsStep DEF FileSafety
<1> QED
  BY <1>1, <1>2, PTL DEF Spec

(* No byte is appended twice, whatever sockets break: a chunk whose        *)
(* acknowledgement is lost is not sent again, and no step copies it.       *)
THEOREM WrittenOnce == Spec => []AtMostOnce
<1>1. FileSafety => AtMostOnce
  <2> SUFFICES ASSUME FileSafety, NEW i \in DOMAIN content, NEW j \in DOMAIN content,
                      content[i] = content[j]
               PROVE  i = j
    BY DEF AtMostOnce, IsInjective
  <2>1. content \in Seq(Clients \X Nat)
    BY DEF FileSafety, Types, ServerInv
  <2>2. content[i] \in Clients \X Nat
    BY <2>1
  <2>3. PICK c \in Clients, n \in Nat : content[i] = <<c, n>>
    BY <2>2
  <2>4. AtFile(c, n, <<"file", i, 0>>) /\ AtFile(c, n, <<"file", j, 0>>)
    BY <2>3 DEF AtFile
  <2>5. <<"file", i, 0>> = <<"file", j, 0>>
    BY <2>4 DEF FileSafety, OneSpot, OneSpotOf, Spot, OnServer
  <2> QED
    BY <2>5
<1> QED
  BY <1>1, FileSafetyAlways, PTL

(* While the file is written, the buffer ends where the descriptor stands: *)
(* the loop of write has one reason only to hand a buffer over.            *)
THEOREM BufferFollows == Spec => []BufferFollowsPosition
<1>1. FileSafety => BufferFollowsPosition
  <2> SUFFICES ASSUME FileSafety, NEW c \in Clients, app[c] \in {"ready", "writing"}
               PROVE  buffer[c].cnt + buffer[c].fp = pos[c] - rest[c]
    BY DEF BufferFollowsPosition
  <2> QED
    BY WriteConstants DEF FileSafety, Types, FileInv, BufferSound
<1> QED
  BY <1>1, FileSafetyAlways, PTL

(* The chunks on their way have all the numbers from sendNum to seqNum, so *)
(* that the one whose turn it is, is there: close has nothing to wait for  *)
(* in vain.                                                                *)
THEOREM NumbersComplete == Spec => []NoNumberMissing
<1>1. FileSafety => NoNumberMissing
  BY DEF FileSafety, NumbersInv, NumbersSound, NoNumberMissing
<1> QED
  BY <1>1, FileSafetyAlways, PTL

-------------------------------------------------------------------------------
(* As long as no socket breaks, a client and the server take turns: there  *)
(* is one message or one answer between them, or none.                     *)
Req(c) == net[c][0].req
Rep(c) == net[c][0].rep
Does(c) == handler[c][0].at

Quiet(c) == Req(c) = <<>> /\ Rep(c) = <<>> /\ Does(c) = "idle"
Done(c)  == Req(c) = <<>> /\ Rep(c) = <<"answer">>
Waits(c, type, H) ==
  /\ Rep(c) = <<>>
  /\ \/ \E m \in Messages : m.type = type /\ Req(c) = <<m>> /\ Does(c) = "idle"
     \/ Req(c) = <<>> /\ Does(c) \in H

Active == {"ready", "writing", "draining"}

TurnSound(c) ==
  /\ app[c] = "new" => Quiet(c) /\ home[c] = 0
  /\ app[c] = "opening" =>
       /\ Waits(c, "open", {"open", "opened"}) \/ (Done(c) /\ Does(c) = "idle")
       /\ home[c] # 0 <=> Does(c) = "opened" \/ Rep(c) # <<>>
  /\ app[c] \in Active =>
       /\ xfer[c] = Idle => Quiet(c)
       /\ xfer[c] # Idle => \/ Waits(c, "write", {"write", "data", "ack"})
                            \/ Done(c) /\ Does(c) = "idle"
  /\ app[c] = "closing" => \/ Waits(c, "close", {"close"})
                           \/ Done(c) /\ Does(c) \in {"idle", "remove", "delete"}
  /\ app[c] = "closed" => /\ Req(c) = <<>> /\ Rep(c) = <<>>
                          /\ Does(c) \in {"idle", "remove", "delete"}
  /\ app[c] \in {"new", "opening"} => seqNum[c] = sendNum[c]
  /\ app[c] \notin {"new", "opening"} => home[c] # 0
  /\ app[c] \notin Active => xfer[c] = Idle
  /\ Does(c) = "data" => handler[c][0].file = home[c]
TurnsInv == \A c \in Clients : TurnSound(c)

(* The clients that are users: they opened the file, and the server did    *)
(* not yet remove them.                                                    *)
Inside(c) ==
  /\ home[c] # 0
  /\ app[c] \notin {"closing", "closed"} \/ Req(c) # <<>> \/ Does(c) \in {"close", "remove"}
Insiders == {c \in Clients : Inside(c)}

(* With the one that deletes the file: those that hold it.                 *)
Holders == {c \in Clients : Inside(c) \/ Does(c) = "delete"}

UsersInv ==
  /\ served.at = "open" => /\ served.users = Cardinality(Insiders)
                           /\ \A c \in Insiders : home[c] = served.file
  /\ served.at # "open" => Insiders = {}
  /\ served.at # "none" => served.file > 0
  /\ \A c \in Clients : Does(c) = "delete" => served.at = "dying"
  /\ \A c, d \in Clients : Does(c) = "delete" /\ Does(d) = "delete" => c = d

WholeInv == TurnsInv /\ UsersInv

(* Without breaks there is one socket, and it is up.                       *)
LEMMA OneSocket ==
  ASSUME MaxBreaks = 0, NetInv, NEW c \in Clients
  PROVE  /\ Sockets = {0} /\ 0 \in Sockets /\ sock[c] = 0 /\ breaks = 0
         /\ net[c][0].up /\ Sent(c) /\ Current(c) = net[c][0]
         /\ Req(c) \in Seq(Messages) /\ Rep(c) \in Seq({"answer"})
         /\ net[c][sock[c]] = net[c][0]
<1>1. Sockets = {0} /\ sock[c] = 0 /\ breaks = 0
  BY DEF Sockets, NetInv
<1>2. SockSound(c)
  BY DEF NetInv
<1>3. net[c][0].up
  BY <1>1, <1>2 DEF SockSound
<1>4. Req(c) \in Seq(Messages) /\ Rep(c) \in Seq({"answer"})
  BY <1>1, LineTypes DEF Req, Rep
<1> QED
  BY <1>1, <1>3, <1>4 DEF Sent, Current

(* The effects on the one line.                                            *)
LEMMA LineZero ==
  ASSUME MaxBreaks = 0, NetInv, NEW c \in Clients, NEW u, NEW q, NEW a,
         LineSet(c, 0, Line(u, q, a))
  PROVE  /\ Req(c)' = q /\ Rep(c)' = a
         /\ \A d \in Clients : d # c => net'[d][0] = net[d][0]
<1> DEFINE l == Line(u, q, a)
<1>1. 0 \in Sockets /\ net \in [Clients -> [Sockets -> Lines]]
  BY OneSocket DEF NetInv
<1>2. l.req = q /\ l.rep = a
  BY DEF Line
<1>3. LineSet(c, 0, l)
  OBVIOUS
<1> HIDE DEF l
<1>4. /\ net'[c][0] = l
      /\ \A d \in Clients, t \in Sockets : d # c \/ t # 0 => net'[d][t] = net[d][t]
  BY <1>1, <1>3, LineSetEffect
<1> QED
  BY <1>1, <1>2, <1>4 DEF Req, Rep

LEMMA SendZero ==
  ASSUME MaxBreaks = 0, NetInv, NEW c \in Clients, NEW m, Send(c, m)
  PROVE  /\ Req(c)' = Append(Req(c), m) /\ Rep(c)' = Rep(c)
         /\ \A d \in Clients : d # c => net'[d][0] = net[d][0]
<1>1. LineSet(c, sock[c], Line(net[c][sock[c]].up, Append(net[c][sock[c]].req, m),
                               net[c][sock[c]].rep))
  BY OneSocket, SendEffect
<1>2. LineSet(c, 0, Line(net[c][0].up, Append(net[c][0].req, m), net[c][0].rep))
  BY <1>1, OneSocket
<1>3. /\ Req(c)' = Append(net[c][0].req, m) /\ Rep(c)' = net[c][0].rep
      /\ \A d \in Clients : d # c => net'[d][0] = net[d][0]
  BY <1>2, LineZero
<1> QED
  BY <1>3 DEF Req, Rep

LEMMA ReceiveZero ==
  ASSUME MaxBreaks = 0, NetInv, NEW c \in Clients, Receive(c)
  PROVE  /\ Req(c)' = Req(c) /\ Rep(c) # <<>> /\ Rep(c)' = Tail(Rep(c))
         /\ \A d \in Clients : d # c => net'[d][0] = net[d][0]
<1>1. /\ LineSet(c, sock[c], Line(net[c][sock[c]].up, net[c][sock[c]].req,
                                  Tail(net[c][sock[c]].rep)))
      /\ net[c][sock[c]].rep # <<>>
  BY ReceiveEffect
<1>2. LineSet(c, 0, Line(net[c][0].up, net[c][0].req, Tail(net[c][0].rep)))
  BY <1>1, OneSocket
<1>3. /\ Req(c)' = net[c][0].req /\ Rep(c)' = Tail(net[c][0].rep)
      /\ \A d \in Clients : d # c => net'[d][0] = net[d][0]
  BY <1>2, LineZero
<1> QED
  BY <1>1, <1>3, OneSocket DEF Req, Rep

LEMMA AnswerZero ==
  ASSUME MaxBreaks = 0, NetInv, NEW c \in Clients, Answer(c, 0)
  PROVE  /\ Req(c)' = Req(c) /\ Rep(c)' = Append(Rep(c), "answer")
         /\ \A d \in Clients : d # c => net'[d][0] = net[d][0]
<1> DEFINE a == IF net[c][0].up THEN Append(net[c][0].rep, "answer") ELSE net[c][0].rep
<1>1. LineSet(c, 0, Line(net[c][0].up, net[c][0].req, a))
  BY OneSocket, AnswerEffect
<1>2. a = Append(Rep(c), "answer")
  BY OneSocket DEF Rep
<1> HIDE DEF a
<1>3. /\ Req(c)' = net[c][0].req /\ Rep(c)' = a
      /\ \A d \in Clients : d # c => net'[d][0] = net[d][0]
  BY <1>1, LineZero
<1> QED
  BY <1>2, <1>3 DEF Req

LEMMA PollZero ==
  ASSUME MaxBreaks = 0, NetInv, NEW c \in Clients, Poll(c, 0)
  PROVE  /\ Req(c)' = Tail(Req(c)) /\ Rep(c)' = Rep(c)
         /\ \A d \in Clients : d # c => net'[d][0] = net[d][0]
<1>1. LineSet(c, 0, Line(net[c][0].up, Tail(net[c][0].req), net[c][0].rep))
  BY OneSocket, PollEffect
<1>2. /\ Req(c)' = Tail(net[c][0].req) /\ Rep(c)' = net[c][0].rep
      /\ \A d \in Clients : d # c => net'[d][0] = net[d][0]
  BY <1>1, LineZero
<1> QED
  BY <1>2 DEF Req, Rep

LEMMA HandlerZero ==
  ASSUME MaxBreaks = 0, NetInv, ServerInv, NEW c \in Clients, NEW h \in Handlers, To(c, 0, h)
  PROVE  /\ handler'[c][0] = h /\ Does(c)' = h.at
         /\ \A d \in Clients : d # c => handler'[d][0] = handler[d][0]
<1>1. 0 \in Sockets
  BY OneSocket
<1> QED
  BY <1>1, ToKeeps, HandlerSetEffect DEF ServerInv, Does

(* A client's turn is about that client.                                   *)
LEMMA TurnFrame ==
  ASSUME NEW d \in Clients, TurnSound(d), app'[d] = app[d], xfer'[d] = xfer[d],
         seqNum'[d] = seqNum[d], sendNum'[d] = sendNum[d], net'[d][0] = net[d][0],
         handler'[d][0] = handler[d][0], home'[d] = home[d]
  PROVE  TurnSound(d)' /\ (Inside(d)' <=> Inside(d)) /\ Does(d)' = Does(d)
<1>1. Req(d)' = Req(d) /\ Rep(d)' = Rep(d) /\ Does(d)' = Does(d)
  BY DEF Req, Rep, Does
<1>2. Quiet(d)' = Quiet(d) /\ Done(d)' = Done(d)
  BY <1>1 DEF Quiet, Done
<1>3. \A t, H : Waits(d, t, H)' = Waits(d, t, H)
  BY <1>1 DEF Waits
<1>4. Inside(d)' <=> Inside(d)
  BY <1>1 DEF Inside
<1>5. TurnSound(d)'
  BY <1>1, <1>2, <1>3 DEF TurnSound
<1> QED
  BY <1>1, <1>4, <1>5

(* At first nothing is under way, and the file has no users.               *)
THEOREM InitWhole == MaxBreaks = 0 /\ Init => WholeInv
<1> SUFFICES ASSUME MaxBreaks = 0, Init PROVE WholeInv
  OBVIOUS
<1>1. 0 \in Sockets
  BY DEF Sockets
<1>2. \A c \in Clients : Req(c) = <<>> /\ Rep(c) = <<>> /\ Does(c) = "idle" /\ home[c] = 0
  BY <1>1 DEF Init, Req, Rep, Does, Idle
<1>3. ASSUME NEW c \in Clients PROVE TurnSound(c)
  BY <1>2 DEF Init, TurnSound, Quiet, Active
<1>4. UsersInv
  BY <1>2 DEF Init, UsersInv, Insiders, Inside
<1> QED
  BY <1>3, <1>4 DEF WholeInv, TurnsInv

(* The steps of a client and of its pools.                                 *)
LEMMA TurnOfClient ==
  ASSUME MaxBreaks = 0, Types, NEW c \in Clients, NumbersSound(c), TurnSound(c),
         ClientStep(c) \/ PoolStep(c)
  PROVE  TurnSound(c)' /\ (Inside(c)' <=> Inside(c))
<1> USE DEF Types
<1>1. /\ UNCHANGED <<handler, home>> /\ Does(c)' = Does(c)
      /\ handler'[c][0] = handler[c][0] /\ home'[c] = home[c]
  BY Frames DEF serverVars, Does
<1>2. /\ Current(c) = net[c][0] /\ Sent(c) /\ sock[c] = 0 /\ net[c][0].up
      /\ Req(c) \in Seq(Messages) /\ Rep(c) \in Seq({"answer"})
      /\ xfer[c].at = "answer" <=> xfer[c] # Idle
  BY OneSocket, NumberTypes
<1>3. ASSUME app'[c] = app[c] \/ (app[c] \in Active /\ app'[c] \in Active),
             xfer'[c] = xfer[c], app[c] \in Active \/ seqNum'[c] = seqNum[c],
             sendNum'[c] = sendNum[c], UNCHANGED netVars
      PROVE  TurnSound(c)' /\ (Inside(c)' <=> Inside(c))
  <2>1. Req(c)' = Req(c) /\ Rep(c)' = Rep(c)
    BY <1>3 DEF netVars, Req, Rep
  <2>2. Quiet(c)' = Quiet(c) /\ Done(c)' = Done(c)
    BY <1>1, <2>1 DEF Quiet, Done
  <2>3. \A t, H : Waits(c, t, H)' = Waits(c, t, H)
    BY <1>1, <2>1 DEF Waits
  <2>4. Inside(c)' <=> Inside(c)
    BY <1>1, <1>3, <2>1 DEF Inside, Active
  <2>5. TurnSound(c)'
    BY <1>1, <1>3, <2>1, <2>2, <2>3 DEF TurnSound, Active
  <2> QED
    BY <2>4, <2>5
<1>0. NoAnswer(c) =>
         Rep(c) = <<>> /\ Req(c) = <<>> /\ Does(c) \in {"idle", "remove", "delete"}
  BY <1>2 DEF NoAnswer, Req, Rep, Does
<1>4. CASE OpenFile(c)
  <2>1. app[c] = "new" /\ app'[c] = "opening" /\ Send(c, Open)
        /\ UNCHANGED <<xfer, seqNum, sendNum>>
    BY <1>2, <1>4 DEF OpenFile, FileInv, fileVars, poolVars
  <2>2. Req(c)' = Append(Req(c), Open) /\ Rep(c)' = Rep(c)
    BY <2>1, SendZero
  <2>3. Req(c)' = <<Open>> /\ Rep(c)' = <<>> /\ Does(c)' = "idle" /\ home'[c] = 0
    BY <1>1, <2>1, <2>2 DEF TurnSound, Quiet
  <2>4. Open \in Messages /\ Open.type = "open"
    BY MessageTypes DEF Open
  <2>5. Waits(c, "open", {"open", "opened"})'
    BY <2>3, <2>4 DEF Waits
  <2>6. ~Inside(c) /\ ~Inside(c)'
    BY <1>1, <2>3 DEF Inside
  <2>7. seqNum'[c] = sendNum'[c] /\ xfer'[c] = Idle
    BY <2>1 DEF TurnSound, Active
  <2>8. TurnSound(c)'
    BY <2>1, <2>3, <2>5, <2>7 DEF TurnSound, Active
  <2> QED
    BY <2>6, <2>8
<1>5. CASE OpenEnd(c)
  <2>1. app[c] = "opening" /\ app'[c] = "ready" /\ UNCHANGED <<xfer, seqNum, sendNum>>
    BY <1>5 DEF OpenEnd, FileInv, fileVars, poolVars
  <2>2. Receive(c)
    BY <1>2, <1>5 DEF OpenEnd, Restart
  <2>3. Req(c)' = Req(c) /\ Rep(c) # <<>> /\ Rep(c)' = Tail(Rep(c))
    BY <2>2, ReceiveZero
  <2>4. Done(c) /\ Does(c) = "idle" /\ home[c] # 0 /\ xfer[c] = Idle
    BY <2>1, <2>3 DEF TurnSound, Waits, Active
  <2>5. Quiet(c)'
    BY <1>1, <2>3, <2>4 DEF Quiet, Done
  <2>6. Inside(c) /\ Inside(c)'
    BY <1>1, <2>1, <2>4 DEF Inside
  <2>7. TurnSound(c)'
    BY <1>1, <2>1, <2>4, <2>5 DEF TurnSound, Active
  <2> QED
    BY <2>6, <2>7
<1>6. CASE Write(c)
  BY <1>3, <1>6 DEF Write, FileInv, Active, poolVars
<1>7. CASE FillBuffer(c)
  BY <1>3, <1>7 DEF FillBuffer, Active
<1>8. CASE WriteEnd(c)
  <2>1. app[c] = "writing" /\ app'[c] = "ready" /\ UNCHANGED <<xfer, sendNum>>
        /\ UNCHANGED netVars
    BY <1>8 DEF WriteEnd, FileInv
  <2> QED
    BY <1>3, <2>1 DEF Active
<1>9. CASE Seek(c)
  BY <1>3, <1>9 DEF Seek, Active
<1>10. CASE CloseFile(c)
  <2>1. app[c] = "ready" /\ app'[c] = "draining" /\ UNCHANGED <<xfer, sendNum>>
        /\ UNCHANGED netVars
    BY <1>10 DEF CloseFile, FileInv
  <2> QED
    BY <1>3, <2>1 DEF Active
<1>11. CASE CloseDrained(c)
  <2>1. app[c] = "draining" /\ app'[c] = "closing" /\ Send(c, Close)
        /\ UNCHANGED <<xfer, seqNum, sendNum>> /\ seqNum[c] = sendNum[c]
    BY <1>11 DEF CloseDrained, FileInv, fileVars, poolVars
  <2>2. Req(c)' = Append(Req(c), Close) /\ Rep(c)' = Rep(c)
    BY <2>1, SendZero
  <2>3. Pending(c) = {}
    BY <2>1, NumberTypes DEF NumbersSound
  <2>4. xfer[c] = Idle
    BY <2>3 DEF Pending
  <2>5. Req(c)' = <<Close>> /\ Rep(c)' = <<>> /\ Does(c)' = "idle" /\ home[c] # 0
    BY <1>1, <2>1, <2>2, <2>4 DEF TurnSound, Quiet, Active
  <2>6. Close \in Messages /\ Close.type = "close"
    BY MessageTypes DEF Close
  <2>7. Waits(c, "close", {"close"})'
    BY <2>5, <2>6 DEF Waits
  <2>8. Inside(c) /\ Inside(c)'
    <3>1. <<Close>> # <<>>
      OBVIOUS
    <3> QED
      BY <1>1, <2>1, <2>5, <3>1 DEF Inside
  <2>9. TurnSound(c)'
    BY <1>1, <2>1, <2>4, <2>5, <2>7 DEF TurnSound, Active
  <2> QED
    BY <2>8, <2>9
<1>12. CASE CloseEnd(c)
  <2>1. app[c] = "closing" /\ app'[c] = "closed" /\ UNCHANGED xfer
    BY <1>12 DEF CloseEnd, FileInv
  <2>2. ~NoAnswer(c)
    <3>1. Waits(c, "close", {"close"}) \/ Done(c)
      BY <2>1 DEF TurnSound
    <3>2. ASSUME NEW m, Req(c) = <<m>> PROVE Req(c) # <<>>
      BY <3>2
    <3> QED
      BY <1>0, <3>1, <3>2 DEF Waits, Done
  <2>3. Req(c)' = Req(c) /\ Rep(c) # <<>> /\ Rep(c)' = Tail(Rep(c))
    BY <1>12, <2>2, ReceiveZero DEF CloseEnd
  <2>4. /\ Done(c) /\ Does(c) \in {"idle", "remove", "delete"} /\ home[c] # 0
        /\ xfer[c] = Idle
    BY <2>1, <2>3 DEF TurnSound, Waits, Active
  <2>5. Req(c)' = <<>> /\ Rep(c)' = <<>> /\ Req(c) = <<>>
    BY <2>3, <2>4 DEF Done
  <2>6. Inside(c)' <=> Inside(c)
    BY <1>1, <2>1, <2>5 DEF Inside
  <2>7. TurnSound(c)'
    BY <1>1, <2>1, <2>4, <2>5 DEF TurnSound, Active
  <2> QED
    BY <2>6, <2>7
<1>13. CASE CompressChunk(c)
  BY <1>3, <1>13 DEF CompressChunk, fileVars
<1>14. CASE Transfer(c)
  <2>0. PICK k \in xferQ[c] :
          /\ HasTurn(c, k) /\ Send(c, WriteMsg(k))
          /\ xfer' = [xfer EXCEPT ![c] = IF Sent(c) THEN [at |-> "answer", chunk |-> k]
                                                  ELSE Idle]
    BY <1>14 DEF Transfer
  <2> DEFINE m == WriteMsg(k)
  <2>1. m \in Messages /\ m.type = "write" /\ Send(c, m)
    BY <2>0, MessageTypes DEF WriteMsg, PoolTypes
  <2>2. xfer[c] = Idle /\ xfer'[c] # Idle /\ UNCHANGED <<app, seqNum>>
    BY <1>2, <1>14, <2>0 DEF Transfer, PoolTypes, Idle, fileVars
  <2>3. sendNum' = sendNum
    BY <1>2, <1>14 DEF Transfer, PoolTypes
  <2>4. Pending(c) # {}
    BY <2>0 DEF Pending
  <2>5. app[c] \in Active /\ home[c] # 0
    <3>1. seqNum[c] # sendNum[c]
      BY <2>4, NumberTypes DEF NumbersSound
    <3> QED
      BY <3>1 DEF TurnSound, NumbersSound, FileInv, Active
  <2>6. Req(c)' = Append(Req(c), m) /\ Rep(c)' = Rep(c)
    BY <2>1, SendZero
  <2> HIDE DEF m
  <2>7. Req(c)' = <<m>> /\ Rep(c)' = <<>> /\ Does(c)' = "idle"
    <3>1. Quiet(c)
      BY <2>2, <2>5 DEF TurnSound
    <3> QED
      BY <1>1, <2>6, <3>1 DEF Quiet
  <2>8. Waits(c, "write", {"write", "data", "ack"})'
    BY <2>1, <2>7 DEF Waits
  <2>9. Inside(c) /\ Inside(c)'
    BY <1>1, <2>2, <2>5 DEF Inside, Active
  <2>10. TurnSound(c)'
    BY <1>1, <2>2, <2>3, <2>5, <2>7, <2>8 DEF TurnSound, Active
  <2> QED
    BY <2>9, <2>10
<1>15. CASE TransferEnd(c)
  <2>1. xfer[c] # Idle /\ xfer'[c] = Idle /\ UNCHANGED <<app, seqNum>>
    BY <1>2, <1>15 DEF TransferEnd, PoolTypes, fileVars
  <2>2. app[c] \in Active
    BY <2>1 DEF TurnSound
  <2>3. ~NoAnswer(c)
    <3>1. Waits(c, "write", {"write", "data", "ack"}) \/ Done(c)
      BY <2>1, <2>2 DEF TurnSound
    <3>2. ASSUME NEW m, Req(c) = <<m>> PROVE Req(c) # <<>>
      BY <3>2
    <3> QED
      BY <1>0, <3>1, <3>2 DEF Waits, Done
  <2>4. Req(c)' = Req(c) /\ Rep(c) # <<>> /\ Rep(c)' = Tail(Rep(c))
    BY <1>15, <2>3, ReceiveZero DEF TransferEnd
  <2>5. Done(c) /\ Does(c) = "idle" /\ home[c] # 0
    BY <2>1, <2>2, <2>4 DEF TurnSound, Waits, Active
  <2>6. Quiet(c)'
    BY <1>1, <2>4, <2>5 DEF Quiet, Done
  <2>7. Inside(c) /\ Inside(c)'
    BY <1>1, <2>1, <2>2, <2>5 DEF Inside, Active
  <2>8. TurnSound(c)'
    BY <1>1, <2>1, <2>2, <2>5, <2>6 DEF TurnSound, Active
  <2> QED
    BY <2>7, <2>8
<1> QED
  BY <1>4, <1>5, <1>6, <1>7, <1>8, <1>9, <1>10, <1>11, <1>12, <1>13, <1>14, <1>15
     DEF ClientStep, PoolStep

(* What the server's thread does says where the client is.                 *)
LEMMA DoesMeans ==
  ASSUME FileInv, NEW c \in Clients, TurnSound(c)
  PROVE  /\ Does(c) \in {"open", "opened"} =>
              app[c] = "opening" /\ Req(c) = <<>> /\ Rep(c) = <<>>
         /\ Does(c) = "open" => home[c] = 0
         /\ Does(c) \in {"write", "data", "ack"} =>
              app[c] \in Active /\ xfer[c] # Idle /\ Req(c) = <<>> /\ Rep(c) = <<>>
         /\ Does(c) = "close" => app[c] = "closing" /\ Req(c) = <<>> /\ Rep(c) = <<>>
         /\ Does(c) \in {"remove", "delete"} => app[c] \in {"closing", "closed"} /\ Req(c) = <<>>
         /\ Does(c) # "idle" => Req(c) = <<>>
         /\ Req(c) # <<>> => Rep(c) = <<>>
<1>1. app[c] \in {"new", "opening", "ready", "writing", "draining", "closing", "closed"}
  BY DEF FileInv
<1> QED
  BY <1>1 DEF TurnSound, Quiet, Done, Waits, Active

LEMMA RequestMeans ==
  ASSUME FileInv, NEW c \in Clients, TurnSound(c), Req(c) # <<>>
  PROVE  \E m \in Messages :
           /\ Req(c) = <<m>> /\ Rep(c) = <<>> /\ Does(c) = "idle"
           /\ \/ m.type = "open" /\ app[c] = "opening" /\ home[c] = 0
              \/ m.type = "write" /\ app[c] \in Active /\ xfer[c] # Idle
              \/ m.type = "close" /\ app[c] = "closing"
<1>1. app[c] \in {"new", "opening", "ready", "writing", "draining", "closing", "closed"}
  BY DEF FileInv
<1>2. CASE app[c] = "opening"
  <2>1. Waits(c, "open", {"open", "opened"})
    BY <1>2 DEF TurnSound, Done
  <2>2. PICK m \in Messages : m.type = "open" /\ Req(c) = <<m>> /\ Does(c) = "idle"
    BY <2>1 DEF Waits
  <2> QED
    BY <1>2, <2>1, <2>2 DEF TurnSound, Waits
<1>3. CASE app[c] \in Active
  <2>1. xfer[c] # Idle /\ Waits(c, "write", {"write", "data", "ack"})
    BY <1>3 DEF TurnSound, Done, Quiet
  <2>2. PICK m \in Messages : m.type = "write" /\ Req(c) = <<m>> /\ Does(c) = "idle"
    BY <2>1 DEF Waits
  <2> QED
    BY <1>3, <2>1, <2>2 DEF Waits
<1>4. CASE app[c] = "closing"
  <2>1. Waits(c, "close", {"close"})
    BY <1>4 DEF TurnSound, Done
  <2>2. PICK m \in Messages : m.type = "close" /\ Req(c) = <<m>> /\ Does(c) = "idle"
    BY <2>1 DEF Waits
  <2> QED
    BY <1>4, <2>1, <2>2 DEF Waits
<1>5. CASE app[c] \in {"new", "closed"}
  BY <1>5 DEF TurnSound, Quiet
<1> QED
  BY <1>1, <1>2, <1>3, <1>4, <1>5 DEF Active

(* An application's part in TurnSound, when the server's thread moves.     *)
LEMMA TurnMoves ==
  ASSUME NEW c \in Clients, FileInv, TurnSound(c),
         UNCHANGED <<app, xfer, seqNum, sendNum>>,
         app[c] = "opening" =>
           /\ Waits(c, "open", {"open", "opened"})' \/ (Done(c)' /\ Does(c)' = "idle")
           /\ home'[c] # 0 <=> Does(c)' = "opened" \/ Rep(c)' # <<>>,
         app[c] \in Active =>
           /\ xfer[c] # Idle
           /\ Waits(c, "write", {"write", "data", "ack"})' \/ (Done(c)' /\ Does(c)' = "idle"),
         app[c] = "closing" => \/ Waits(c, "close", {"close"})'
                               \/ Done(c)' /\ Does(c)' \in {"idle", "remove", "delete"},
         app[c] = "closed" => /\ Req(c)' = <<>> /\ Rep(c)' = <<>>
                              /\ Does(c)' \in {"idle", "remove", "delete"},
         app[c] # "new",
         app[c] # "opening" => home'[c] = home[c],
         Does(c)' = "data" => handler'[c][0].file = home'[c]
  PROVE  TurnSound(c)'
<1>1. Does(c)' = "data" => (handler[c][0].file = home[c])'
  OBVIOUS
<1> QED
  BY <1>1 DEF TurnSound, Active

LEMMA UsersKept ==
  ASSUME UsersInv, UNCHANGED served,
         \A d \in Clients : /\ Inside(d)' <=> Inside(d)
                            /\ Inside(d) => home'[d] = home[d]
                            /\ Does(d)' = "delete" => Does(d) = "delete"
  PROVE  UsersInv'
<1>1. Insiders' = Insiders
  BY DEF Insiders
<1> QED
  BY <1>1 DEF UsersInv, Insiders

LEMMA WholeOfClient ==
  ASSUME MaxBreaks = 0, Types, NumbersInv, WholeInv, NEW c \in Clients,
         ClientStep(c) \/ PoolStep(c)
  PROVE  WholeInv' /\ Holders' = Holders
<1> USE DEF Types, WholeInv
<1>1. UNCHANGED <<handler, home, served>>
  BY Frames DEF serverVars
<1>2. ASSUME NEW d \in Clients, d # c PROVE net'[d][0] = net[d][0]
  <2>1. UNCHANGED netVars \/ Receive(c) \/ Restart(c) \/ \E m : Send(c, m)
    BY NetMovesStep DEF NetMoves
  <2>2. ~Restart(c)
    BY OneSocket DEF Restart
  <2> QED
    BY <1>2, <2>1, <2>2, SendZero, ReceiveZero DEF netVars
<1>3. ASSUME NEW d \in Clients PROVE TurnSound(d)' /\ (Inside(d)' <=> Inside(d))
  <2>1. CASE d = c
    BY <2>1, TurnOfClient DEF TurnsInv, NumbersInv
  <2>2. CASE d # c
    BY <1>1, <1>2, <2>2, OthersKeep, TurnFrame DEF TurnsInv
  <2> QED
    BY <2>1, <2>2
<1>4. \A d \in Clients : Does(d)' = Does(d)
  BY <1>1 DEF Does
<1> QED
  BY <1>1, <1>3, <1>4, UsersKept DEF TurnsInv, Holders

(* The steps of the server's thread for c: what becomes of the others.     *)
LEMMA OthersWait ==
  ASSUME MaxBreaks = 0, Types, WholeInv, NEW c \in Clients, HandlerStep(c, 0),
         NEW h \in Handlers, To(c, 0, h), NEW d \in Clients, d # c
  PROVE  TurnSound(d)' /\ (Inside(d)' <=> Inside(d)) /\ Does(d)' = Does(d)
         /\ home'[d] = home[d]
<1> USE DEF Types, WholeInv
<1>1. handler'[d][0] = handler[d][0]
  BY HandlerZero
<1>2. home'[d] = home[d]
  BY DEF HandlerStep, Poll, ServerOpen, ServerOpenAnswer, Lookup, WriteData, Acknowledge,
         ServerClose, RemoveUser, Delete, ServerInv
<1>3. net'[d][0] = net[d][0]
  <2>1. UNCHANGED netVars \/ Answer(c, 0) \/ Poll(c, 0)
    BY DEF HandlerStep, ServerOpen, ServerOpenAnswer, Lookup, WriteData, Acknowledge,
           ServerClose, RemoveUser, Delete
  <2> QED
    BY <2>1, AnswerZero, PollZero DEF netVars
<1>4. UNCHANGED <<app, xfer, seqNum, sendNum>>
  BY HandlerFrame, OneSocket DEF fileVars, poolVars
<1> QED
  BY <1>1, <1>2, <1>3, <1>4, TurnFrame DEF TurnsInv

(* Steps that remove nobody and let nobody in.                             *)
LEMMA WholeKept ==
  ASSUME MaxBreaks = 0, Types, WholeInv, NEW c \in Clients, HandlerStep(c, 0),
         NEW h \in Handlers, To(c, 0, h), UNCHANGED served,
         TurnSound(c)', Inside(c)' <=> Inside(c), home'[c] = home[c],
         Does(c) # "delete", h.at # "delete"
  PROVE  WholeInv' /\ Holders' = Holders
<1>1. Does(c)' # "delete"
  BY HandlerZero DEF Types
<1>2. TurnsInv'
  BY OthersWait DEF TurnsInv
<1>3. UsersInv'
  BY <1>1, OthersWait, UsersKept DEF WholeInv
<1>4. Holders' = Holders
  BY <1>1, OthersWait DEF Holders
<1> QED
  BY <1>2, <1>3, <1>4 DEF WholeInv

(* One after the other, what the server's thread does.                     *)
LEMMA WholeOfPoll ==
  ASSUME MaxBreaks = 0, Types, WholeInv, NEW c \in Clients, Poll(c, 0)
  PROVE  WholeInv' /\ Holders' = Holders
<1> USE DEF Types
<1>1. TurnSound(c) /\ 0 \in Sockets
  BY OneSocket DEF WholeInv, TurnsInv
<1>2. Does(c) = "idle" /\ Req(c) # <<>> /\ UNCHANGED <<served, home>>
  BY DEF Poll, At, Does, Req
<1>3. PICK m \in Messages :
        /\ Req(c) = <<m>> /\ Rep(c) = <<>>
        /\ \/ m.type = "open" /\ app[c] = "opening" /\ home[c] = 0
           \/ m.type = "write" /\ app[c] \in Active /\ xfer[c] # Idle
           \/ m.type = "close" /\ app[c] = "closing"
  BY <1>1, <1>2, RequestMeans
<1>4. To(c, 0, Taken(m)) /\ Taken(m) \in Handlers /\ Taken(m).at = m.type
  <2>1. Head(net[c][0].req) = m
    BY <1>3 DEF Req
  <2> QED
    BY <1>1, <2>1, PollTakes, TakenType
<1>5. Req(c)' = <<>> /\ Rep(c)' = <<>> /\ Does(c)' = m.type
  <2>1. Does(c)' = m.type
    BY <1>4, HandlerZero
  <2>2. Tail(<<m>>) = <<>>
    OBVIOUS
  <2> QED
    BY <1>3, <2>1, <2>2, PollZero
<1>6. HandlerStep(c, 0) /\ UNCHANGED <<app, xfer, seqNum, sendNum>>
  BY <1>1, HandlerFrame DEF HandlerStep, fileVars, poolVars
<1>7. /\ \A type : m.type = type => Waits(c, type, {type})'
      /\ m.type = "open" => Waits(c, "open", {"open", "opened"})'
      /\ m.type = "write" => Waits(c, "write", {"write", "data", "ack"})'
  BY <1>5 DEF Waits
<1>8. TurnSound(c)'
  BY <1>1, <1>2, <1>3, <1>5, <1>6, <1>7, TurnMoves DEF Active
<1>9. Inside(c)' <=> Inside(c)
  BY <1>2, <1>3, <1>5, <1>6 DEF Inside, Active
<1> QED
  BY <1>2, <1>3, <1>4, <1>6, <1>8, <1>9, WholeKept

LEMMA WholeOfOpen ==
  ASSUME MaxBreaks = 0, Types, WholeInv, NEW c \in Clients, ServerOpen(c, 0)
  PROVE  /\ WholeInv' /\ c \notin Holders /\ Holders' = Holders \cup {c}
         /\ Holders = {} <=> served.at = "none"
<1> USE DEF Types
<1>1. TurnSound(c) /\ 0 \in Sockets /\ UsersInv
  BY OneSocket DEF WholeInv, TurnsInv
<1>2. Does(c) = "open" /\ UNCHANGED netVars /\ served.at # "dying"
  BY DEF ServerOpen, At, Does, MutexFree
<1>3. app[c] = "opening" /\ Req(c) = <<>> /\ Rep(c) = <<>> /\ home[c] = 0
  BY <1>1, <1>2, DoesMeans
<1>4. To(c, 0, [at |-> "opened"]) /\ [at |-> "opened"] \in Handlers
  BY HandlerTypes DEF ServerOpen, GoTo
<1>5. Req(c)' = <<>> /\ Rep(c)' = <<>> /\ Does(c)' = "opened"
  <2>1. Does(c)' = "opened"
    BY <1>4, HandlerZero
  <2> QED
    BY <1>2, <1>3, <2>1 DEF netVars, Req, Rep
<1>6. HandlerStep(c, 0) /\ UNCHANGED <<app, xfer, seqNum, sendNum>>
  BY <1>1, HandlerFrame DEF HandlerStep, fileVars, poolVars
<1>7. /\ served'.at = "open" /\ served'.file > 0 /\ home'[c] = served'.file
      /\ served.at = "open" => served'.file = served.file /\ served'.users = served.users + 1
      /\ served.at = "none" => served'.users = 1
  BY <1>1, <1>2 DEF ServerOpen, ServerInv, UsersInv
<1>8. TurnSound(c)'
  <2>1. Waits(c, "open", {"open", "opened"})'
    BY <1>5 DEF Waits
  <2>2. home'[c] # 0
    BY <1>7
  <2> QED
    BY <1>1, <1>3, <1>5, <1>6, <2>1, <2>2, TurnMoves DEF Active
<1>9. Inside(c)' /\ ~Inside(c)
  BY <1>3, <1>6, <1>7 DEF Inside
<1>10. \A d \in Clients : d # c =>
         /\ TurnSound(d)' /\ (Inside(d)' <=> Inside(d))
         /\ Does(d)' = Does(d) /\ home'[d] = home[d]
  BY <1>4, <1>6, OthersWait
<1>11. Insiders' = Insiders \cup {c} /\ c \notin Insiders
  BY <1>9, <1>10 DEF Insiders
<1>12. IsFiniteSet(Insiders)
  BY WriteConstants, FS_Subset DEF Insiders
<1>13. Cardinality(Insiders') = Cardinality(Insiders) + 1
  BY <1>11, <1>12, FS_AddElement
<1>14. served'.users = Cardinality(Insiders')
  <2>1. CASE served.at = "open"
    BY <1>1, <1>7, <1>13, <2>1 DEF UsersInv
  <2>2. CASE served.at = "none"
    <3>1. Cardinality(Insiders) = 0
      BY <1>1, <2>2, FS_EmptySet DEF UsersInv
    <3> QED
      BY <1>7, <1>13, <2>2, <3>1
  <2> QED
    BY <1>2, <2>1, <2>2 DEF ServerInv
<1>15. \A d \in Insiders' : home'[d] = served'.file
  BY <1>1, <1>2, <1>7, <1>10, <1>11 DEF UsersInv, Insiders, ServerInv
<1>16. \A d \in Clients : Does(d)' # "delete"
  BY <1>1, <1>2, <1>5, <1>10 DEF UsersInv
<1>17. UsersInv'
  BY <1>7, <1>14, <1>15, <1>16 DEF UsersInv
<1>18. Holders = Insiders /\ Holders' = Insiders'
  BY <1>1, <1>2, <1>16 DEF UsersInv, Holders, Insiders
<1>19. served.at = "open" => Insiders # {}
  <2>1. served.at = "open" => Cardinality(Insiders) # 0
    BY <1>1 DEF UsersInv, ServerInv
  <2> QED
    BY <2>1, FS_EmptySet
<1> QED
  BY <1>1, <1>2, <1>8, <1>10, <1>11, <1>17, <1>18, <1>19 DEF WholeInv, TurnsInv, UsersInv, ServerInv

LEMMA WholeOfAnswers ==
  ASSUME MaxBreaks = 0, Types, WholeInv, NEW c \in Clients,
         ServerOpenAnswer(c, 0) \/ Acknowledge(c, 0) \/ ServerClose(c, 0)
  PROVE  WholeInv' /\ Holders' = Holders
<1> USE DEF Types
<1>1. TurnSound(c) /\ 0 \in Sockets
  BY OneSocket DEF WholeInv, TurnsInv
<1>2. PICK x \in {"idle", "remove"} :
        /\ GoTo(c, 0, x) /\ UNCHANGED <<served, home>> /\ Answer(c, 0)
        /\ \/ x = "idle" /\ Does(c) \in {"opened", "ack"}
           \/ x = "remove" /\ Does(c) = "close"
  BY OneSocket DEF ServerOpenAnswer, Acknowledge, ServerClose, At, Does
<1>3. To(c, 0, [at |-> x]) /\ [at |-> x] \in Handlers /\ [at |-> x].at = x
  BY <1>2, HandlerTypes DEF GoTo
<1>4. Req(c) = <<>> /\ Rep(c) = <<>>
  BY <1>1, <1>2, DoesMeans
<1>5. Req(c)' = <<>> /\ Rep(c)' = <<"answer">> /\ Does(c)' = x
  <2>1. Does(c)' = x
    BY <1>3, HandlerZero
  <2>2. Append(<<>>, "answer") = <<"answer">>
    OBVIOUS
  <2> QED
    BY <1>2, <1>4, <2>1, <2>2, AnswerZero
<1>6. HandlerStep(c, 0) /\ UNCHANGED <<app, xfer, seqNum, sendNum>>
  BY <1>1, HandlerFrame DEF HandlerStep, fileVars, poolVars
<1>7. Done(c)' /\ Rep(c)' # <<>>
  BY <1>5 DEF Done
<1>8. TurnSound(c)' /\ (Inside(c)' <=> Inside(c))
  <2>1. CASE Does(c) = "opened"
    <3>1. app[c] = "opening" /\ x = "idle" /\ home[c] # 0
      BY <1>1, <1>2, <2>1, DoesMeans DEF TurnSound
    <3> QED
      BY <1>1, <1>2, <1>5, <1>6, <1>7, <3>1, TurnMoves DEF Active, Inside
  <2>2. CASE Does(c) = "ack"
    <3>1. app[c] \in Active /\ x = "idle" /\ xfer[c] # Idle
      BY <1>1, <1>2, <2>2, DoesMeans
    <3> QED
      BY <1>1, <1>2, <1>5, <1>6, <1>7, <3>1, TurnMoves DEF Active, Inside
  <2>3. CASE Does(c) = "close"
    <3>1. app[c] = "closing" /\ x = "remove"
      BY <1>1, <1>2, <2>3, DoesMeans
    <3> QED
      BY <1>1, <1>2, <1>5, <1>6, <1>7, <2>3, <3>1, TurnMoves DEF Active, Inside
  <2> QED
    BY <1>2, <2>1, <2>2, <2>3
<1> QED
  BY <1>2, <1>3, <1>6, <1>8, WholeKept

(* A client that writes is a user.                                         *)
LEMMA WritersCount ==
  ASSUME FileInv, WholeInv, NEW c \in Clients, Does(c) \in {"write", "data"}
  PROVE  /\ app[c] \in Active /\ xfer[c] # Idle /\ Req(c) = <<>> /\ Rep(c) = <<>>
         /\ served.at = "open" /\ served.file = home[c] /\ home[c] # 0
<1>1. TurnSound(c)
  BY DEF WholeInv, TurnsInv
<1>2. app[c] \in Active /\ xfer[c] # Idle /\ Req(c) = <<>> /\ Rep(c) = <<>>
  BY <1>1, DoesMeans
<1>3. home[c] # 0
  BY <1>1, <1>2 DEF TurnSound, Active
<1>4. c \in Insiders
  BY <1>2, <1>3 DEF Insiders, Inside, Active
<1> QED
  BY <1>2, <1>3, <1>4 DEF WholeInv, UsersInv

LEMMA WholeOfWrites ==
  ASSUME MaxBreaks = 0, Types, WholeInv, NEW c \in Clients, Lookup(c, 0) \/ WriteData(c, 0)
  PROVE  WholeInv' /\ Holders' = Holders
<1> USE DEF Types
<1>1. TurnSound(c) /\ 0 \in Sockets
  BY OneSocket DEF WholeInv, TurnsInv
<1>2. Does(c) \in {"write", "data"} /\ UNCHANGED netVars /\ UNCHANGED <<served, home>>
  BY DEF Lookup, WriteData, At, Does
<1>3. /\ app[c] \in Active /\ xfer[c] # Idle /\ Req(c) = <<>> /\ Rep(c) = <<>>
      /\ served.at = "open" /\ served.file = home[c]
  BY <1>2, WritersCount
<1>4. PICK h \in Handlers :
        /\ To(c, 0, h) /\ h.at \in {"data", "ack"}
        /\ h.at = "data" => h.file = served.file
  <2>1. CASE Lookup(c, 0)
    <3> DEFINE h == [at |-> "data", chunk |-> handler[c][0].chunk, file |-> served.file]
    <3>1. handler[c][0].chunk \in Chunks /\ served.file \in Nat
      BY <1>1, <2>1, HandlerHas DEF Lookup, ServerInv
    <3>2. h \in Handlers /\ h.at = "data" /\ h.file = served.file
      BY <3>1, HandlerTypes
    <3>3. To(c, 0, h)
      BY <1>3, <2>1 DEF Lookup
    <3> HIDE DEF h
    <3> QED
      BY <3>2, <3>3
  <2>2. CASE WriteData(c, 0)
    <3>1. To(c, 0, [at |-> "ack"]) /\ [at |-> "ack"] \in Handlers
      BY <2>2, HandlerTypes DEF WriteData, GoTo
    <3> QED
      BY <3>1
  <2> QED
    BY <2>1, <2>2
<1>5. Req(c)' = <<>> /\ Rep(c)' = <<>> /\ Does(c)' = h.at /\ handler'[c][0] = h
  <2>1. handler'[c][0] = h /\ Does(c)' = h.at
    BY <1>4, HandlerZero
  <2> QED
    BY <1>2, <1>3, <2>1 DEF netVars, Req, Rep
<1>6. HandlerStep(c, 0) /\ UNCHANGED <<app, xfer, seqNum, sendNum>>
  BY <1>1, HandlerFrame DEF HandlerStep, fileVars, poolVars
<1>7. Waits(c, "write", {"write", "data", "ack"})'
  BY <1>4, <1>5 DEF Waits
<1>8. TurnSound(c)'
  BY <1>1, <1>2, <1>3, <1>4, <1>5, <1>6, <1>7, TurnMoves DEF Active
<1>9. Inside(c)' <=> Inside(c)
  BY <1>2, <1>3, <1>5, <1>6 DEF Inside, Active
<1> QED
  BY <1>2, <1>4, <1>6, <1>8, <1>9, WholeKept

LEMMA WholeOfRemove ==
  ASSUME MaxBreaks = 0, Types, WholeInv, NEW c \in Clients, RemoveUser(c, 0)
  PROVE  /\ WholeInv' /\ c \in Holders
         /\ IF served'.at = "dying" THEN Holders' = Holders
            ELSE Holders' = Holders \ {c} /\ Holders' # {}
<1> USE DEF Types
<1>1. TurnSound(c) /\ 0 \in Sockets /\ UsersInv
  BY OneSocket DEF WholeInv, TurnsInv
<1>2. Does(c) = "remove" /\ UNCHANGED netVars /\ UNCHANGED home /\ served.at # "dying"
  BY DEF RemoveUser, At, Does, MutexFree
<1>3. app[c] \in {"closing", "closed"} /\ Req(c) = <<>> /\ home[c] # 0
  BY <1>1, <1>2, DoesMeans DEF TurnSound
<1>4. c \in Insiders
  BY <1>2, <1>3 DEF Insiders, Inside
<1>5. served.at = "open" /\ served.users = Cardinality(Insiders) /\ served.file > 0
  BY <1>1, <1>2, <1>4 DEF UsersInv, ServerInv
<1>6. PICK x \in {"idle", "delete"} :
        /\ GoTo(c, 0, x)
        /\ x = "delete" <=> served.users = 1
        /\ served' = [served EXCEPT !.users = @ - 1,
                        !.at = IF served.users = 1 THEN "dying" ELSE "open"]
  BY <1>5 DEF RemoveUser
<1>7. To(c, 0, [at |-> x]) /\ [at |-> x] \in Handlers /\ [at |-> x].at = x
  BY <1>6, HandlerTypes DEF GoTo
<1>8. Req(c)' = Req(c) /\ Rep(c)' = Rep(c) /\ Does(c)' = x
  <2>1. Does(c)' = x
    BY <1>7, HandlerZero
  <2> QED
    BY <1>2, <2>1 DEF netVars, Req, Rep
<1>9. HandlerStep(c, 0) /\ UNCHANGED <<app, xfer, seqNum, sendNum>>
  BY <1>1, HandlerFrame DEF HandlerStep, fileVars, poolVars
<1>10. TurnSound(c)'
  <2>1. app[c] = "closing" => Done(c)'
    BY <1>1, <1>2, <1>8 DEF TurnSound, Waits, Done
  <2>2. app[c] = "closed" => Req(c)' = <<>> /\ Rep(c)' = <<>>
    BY <1>1, <1>8 DEF TurnSound
  <2> QED
    BY <1>1, <1>2, <1>3, <1>6, <1>8, <1>9, <2>1, <2>2, TurnMoves DEF Active
<1>11. ~Inside(c)'
  BY <1>3, <1>6, <1>8, <1>9 DEF Inside
<1>12. \A d \in Clients : d # c =>
         /\ TurnSound(d)' /\ (Inside(d)' <=> Inside(d))
         /\ Does(d)' = Does(d) /\ home'[d] = home[d]
  BY <1>7, <1>9, OthersWait
<1>13. Insiders' = Insiders \ {c}
  BY <1>11, <1>12 DEF Insiders
<1>14. IsFiniteSet(Insiders)
  BY WriteConstants, FS_Subset DEF Insiders
<1>15. Cardinality(Insiders \ {c}) = Cardinality(Insiders) - 1
  BY <1>4, <1>14, FS_RemoveElement, Zenon
<1>16. Cardinality(Insiders') = served.users - 1 /\ IsFiniteSet(Insiders')
  BY <1>5, <1>13, <1>14, <1>15, FS_Subset
<1>17. /\ served'.file = served.file /\ served'.users = served.users - 1
       /\ served'.at = IF served.users = 1 THEN "dying" ELSE "open"
  BY <1>6 DEF ServerInv
<1>18. served.users = 1 => Insiders' = {}
  <2>1. served.users = 1 => Cardinality(Insiders') = 0
    BY <1>16
  <2> QED
    BY <1>16, <2>1, FS_EmptySet
<1>19. \A d \in Insiders' : home'[d] = served'.file
  BY <1>1, <1>5, <1>2, <1>13, <1>17 DEF UsersInv
<1>20. \A d \in Clients : d # c => Does(d)' # "delete"
  BY <1>1, <1>5, <1>12 DEF UsersInv
<1>21. UsersInv'
  BY <1>5, <1>6, <1>8, <1>16, <1>17, <1>18, <1>19, <1>20 DEF UsersInv
<1>22. Holders = Insiders
  BY <1>1, <1>5 DEF UsersInv, Holders, Insiders
<1>23. Holders' = IF served.users = 1 THEN Insiders ELSE Insiders'
  BY <1>4, <1>6, <1>8, <1>12, <1>13, <1>20 DEF Holders, Insiders
<1>24. served.users # 1 => Insiders' # {}
  <2>1. served.users # 1 => Cardinality(Insiders') # 0
    BY <1>16
  <2> QED
    BY <2>1, FS_EmptySet
<1> QED
  BY <1>4, <1>10, <1>12, <1>13, <1>17, <1>21, <1>22, <1>23, <1>24 DEF WholeInv, TurnsInv

LEMMA WholeOfDelete ==
  ASSUME MaxBreaks = 0, Types, WholeInv, NEW c \in Clients, Delete(c, 0)
  PROVE  WholeInv' /\ served.at = "dying" /\ Holders = {c} /\ Holders' = {}
<1> USE DEF Types
<1>1. TurnSound(c) /\ 0 \in Sockets /\ UsersInv
  BY OneSocket DEF WholeInv, TurnsInv
<1>2. /\ Does(c) = "delete" /\ UNCHANGED netVars /\ UNCHANGED home /\ GoTo(c, 0, "idle")
      /\ served' = [file |-> 0, users |-> 0, at |-> "none"]
  BY DEF Delete, At, Does
<1>3. app[c] \in {"closing", "closed"} /\ Req(c) = <<>> /\ served.at = "dying"
  BY <1>1, <1>2, DoesMeans DEF UsersInv
<1>4. To(c, 0, [at |-> "idle"]) /\ [at |-> "idle"] \in Handlers
  BY <1>2, HandlerTypes DEF GoTo
<1>5. Req(c)' = Req(c) /\ Rep(c)' = Rep(c) /\ Does(c)' = "idle"
  <2>1. Does(c)' = "idle"
    BY <1>4, HandlerZero
  <2> QED
    BY <1>2, <2>1 DEF netVars, Req, Rep
<1>6. HandlerStep(c, 0) /\ UNCHANGED <<app, xfer, seqNum, sendNum>>
  BY <1>1, HandlerFrame DEF HandlerStep, fileVars, poolVars
<1>7. TurnSound(c)'
  <2>1. app[c] = "closing" => Done(c)'
    BY <1>1, <1>2, <1>5 DEF TurnSound, Waits, Done
  <2>2. app[c] = "closed" => Req(c)' = <<>> /\ Rep(c)' = <<>>
    BY <1>1, <1>5 DEF TurnSound
  <2> QED
    BY <1>1, <1>2, <1>3, <1>5, <1>6, <2>1, <2>2, TurnMoves DEF Active
<1>8. ~Inside(c)'
  BY <1>3, <1>5, <1>6 DEF Inside
<1>9. \A d \in Clients : d # c =>
        /\ TurnSound(d)' /\ (Inside(d)' <=> Inside(d)) /\ Does(d)' = Does(d)
  BY <1>4, <1>6, OthersWait
<1>10. Insiders' = {}
  BY <1>1, <1>3, <1>8, <1>9 DEF Insiders, UsersInv
<1>11. \A d \in Clients : Does(d)' # "delete"
  BY <1>1, <1>2, <1>5, <1>9 DEF UsersInv
<1>12. UsersInv'
  BY <1>2, <1>10, <1>11 DEF UsersInv
<1>13. Holders = {c}
  BY <1>1, <1>2, <1>3 DEF UsersInv, Holders, Insiders
<1>14. Holders' = {}
  BY <1>10, <1>11 DEF Holders, Insiders
<1> QED
  BY <1>3, <1>7, <1>9, <1>12, <1>13, <1>14 DEF WholeInv, TurnsInv

(* If no socket breaks, clientSendRetry waits for its answer before the    *)
(* next message, and Trackable counts who is in between open and close.    *)
THEOREM WholeStep ==
  ASSUME MaxBreaks = 0, FileSafety, WholeInv, [Next]_vars
  PROVE  WholeInv'
<1>1. Types /\ NumbersInv
  BY DEF FileSafety
<1>2. ASSUME NEW c \in Clients, ClientStep(c) \/ PoolStep(c) PROVE WholeInv'
  BY <1>1, <1>2, WholeOfClient
<1>3. ASSUME NEW c \in Clients, Break(c) PROVE FALSE
  BY <1>1, <1>3, OneSocket DEF Break, Types
<1>4. ASSUME NEW c \in Clients, NEW s \in Sockets, HandlerStep(c, s) PROVE WholeInv'
  <2>1. HandlerStep(c, 0)
    BY <1>1, <1>4, OneSocket DEF Types
  <2> QED
    BY <1>1, <2>1, WholeOfPoll, WholeOfOpen, WholeOfAnswers, WholeOfWrites, WholeOfRemove,
       WholeOfDelete DEF HandlerStep
<1>5. CASE UNCHANGED <<app, fileVars, poolVars, netVars, handler, served, home>>
  <2>1. UNCHANGED <<xfer, seqNum, sendNum, net, served>>
    BY <1>5 DEF fileVars, poolVars, netVars
  <2>2. \A d \in Clients : TurnSound(d)' /\ (Inside(d)' <=> Inside(d)) /\ Does(d)' = Does(d)
    BY <1>5, <2>1, TurnFrame DEF WholeInv, TurnsInv
  <2> QED
    BY <1>5, <2>1, <2>2, UsersKept DEF WholeInv, TurnsInv
<1>6. CASE AppendToFile \/ UNCHANGED vars
  BY <1>5, <1>6, AppendFrame DEF vars, serverVars
<1> QED
  BY <1>2, <1>3, <1>4, <1>6 DEF Next

(* If no socket breaks: a handler that looked a file up finds it alive     *)
(* when it writes, and finds one at all, though it does not count itself   *)
(* as a user, because the client's close comes after its last write.       *)
THEOREM WritesFindFile ==
  ASSUME MaxBreaks = 0
  PROVE  Spec => []WritesFindTheirFile
<1>1. Init => WholeInv
  BY InitWhole
<1>2. FileSafety /\ WholeInv /\ [Next]_vars => WholeInv'
  BY WholeStep
<1>3. FileSafety /\ WholeInv => WritesFindTheirFile
  <2> SUFFICES ASSUME FileSafety, WholeInv, NEW c \in Clients, NEW s \in Sockets
               PROVE  /\ At(c, s, "data") => served.at = "open" /\ served.file = handler[c][s].file
                      /\ At(c, s, "write") => served.at = "open" /\ served.file = home[c]
    BY DEF WritesFindTheirFile
  <2>1. s = 0 /\ FileInv
    BY OneSocket DEF FileSafety, Types
  <2>2. CASE At(c, s, "data")
    <3>1. Does(c) = "data"
      BY <2>1, <2>2 DEF At, Does
    <3>2. handler[c][0].file = home[c]
      BY <3>1 DEF WholeInv, TurnsInv, TurnSound
    <3>3. served.at = "open" /\ served.file = home[c]
      BY <2>1, <3>1, WritersCount
    <3> QED
      BY <2>1, <2>2, <3>2, <3>3 DEF At
  <2>3. CASE At(c, s, "write")
    <3>1. Does(c) = "write"
      BY <2>1, <2>3 DEF At, Does
    <3> QED
      BY <2>1, <2>3, <3>1, WritersCount DEF At
  <2> QED
    BY <2>2, <2>3
<1> QED
  BY <1>1, <1>2, <1>3, FileSafetyAlways, PTL DEF Spec

(* The clients whose close is not through are those that hold the file.    *)
LEMMA CountedHold == FileSafety /\ WholeInv => Counted = Holders
<1> SUFFICES ASSUME FileSafety, WholeInv, NEW c \in Clients
             PROVE  c \in Counted <=> Inside(c) \/ Does(c) = "delete"
  BY DEF Counted, Holders
<1>1. FileInv /\ TurnSound(c)
  BY DEF FileSafety, Types, WholeInv, TurnsInv
<1>2. app[c] \in {"closing", "closed"} =>
        (Close \in ToSet(net[c][0].req) <=> Req(c) # <<>>)
  <2>1. CASE Req(c) # <<>>
    <3>1. PICK m \in Messages : Req(c) = <<m>> /\
            (app[c] \in {"closing", "closed"} => m.type = "close")
      BY <1>1, <2>1, RequestMeans DEF Active
    <3>2. ToSet(net[c][0].req) = {m}
      BY <3>1 DEF Req, ToSet
    <3>3. m.type = "close" => m = Close
      BY DEF Messages, Close
    <3> QED
      BY <2>1, <3>1, <3>2, <3>3
  <2>2. CASE Req(c) = <<>>
    <3>1. ToSet(net[c][0].req) = {}
      BY <2>2 DEF Req, ToSet
    <3> QED
      BY <2>2, <3>1
  <2> QED
    BY <2>1, <2>2
<1>3. Does(c) = "delete" => home[c] # 0
  BY <1>1, DoesMeans DEF TurnSound
<1> QED
  BY <1>1, <1>2, <1>3 DEF Counted, CloseUnderWay, Inside, Does

(* If no socket breaks: the number of users that Trackable keeps is the    *)
(* number of clients that opened the file and did not give it up.          *)
THEOREM UsersCounted ==
  ASSUME MaxBreaks = 0
  PROVE  Spec => []UsersExact
<1>1. Init => WholeInv
  BY InitWhole
<1>2. FileSafety /\ WholeInv /\ [Next]_vars => WholeInv'
  BY WholeStep
<1>3. FileSafety /\ WholeInv => UsersExact
  <2> SUFFICES ASSUME FileSafety, WholeInv, served.at = "open"
               PROVE  served.users = Cardinality(Counted)
    BY DEF UsersExact
  <2>1. Counted = Insiders
    BY CountedHold DEF WholeInv, UsersInv, Holders, Insiders
  <2> QED
    BY <2>1 DEF WholeInv, UsersInv
<1> QED
  BY <1>1, <1>2, <1>3, FileSafetyAlways, PTL DEF Spec

-------------------------------------------------------------------------------
(* The order of a client's bytes, as long as no socket breaks.             *)

(* What is under way to the server, and in what order the bytes of a       *)
(* client follow each other: file, tasks, handler and socket, pools,       *)
(* buffer.  Nothing that is before a chunk is missing from the places that *)
(* are before the chunk's.                                                 *)
Way(c) ==
  (IF Does(c) \in {"write", "data"} THEN {handler[c][0].chunk} ELSE {})
    \cup {m.chunk : m \in {x \in ToSet(Req(c)) : x.type = "write"}}

OnFile(c, n) == \E i \in DOMAIN content : content[i] = <<c, n>>
OnTask(c, n, j) == \E i \in 1 .. j : tasks[i].client = c /\ Carries(tasks[i].chunk, n)
Landed(c, n) == OnFile(c, n) \/ OnTask(c, n, Len(tasks))
Carried(S, n) == \E k \in S : Carries(k, n)
Before(c, k) == {j \in Queued(c) : j.seq < k.seq}

Ordered(c) ==
  /\ \A i \in DOMAIN content :
       content[i][1] = c => \A n \in 1 .. content[i][2] : OnFile(c, n)
  /\ \A i \in DOMAIN tasks :
       tasks[i].client = c =>
         \A n \in 1 .. tasks[i].chunk.from : OnFile(c, n) \/ OnTask(c, n, i - 1)
  /\ \A k \in Way(c) : \A n \in 1 .. k.from : Landed(c, n)
  /\ \A k \in Queued(c) : \A n \in 1 .. k.from :
       Landed(c, n) \/ Carried(Way(c), n) \/ Carried(Before(c, k), n)
  /\ \A n \in 1 .. Mark(c) :
       Landed(c, n) \/ Carried(Way(c), n) \/ Carried(Queued(c), n)

(* The clients that belong to the file that is there.                      *)
Live(c) == served.at # "none" /\ home[c] = served.file

Homed(c) ==
  /\ app[c] \in {"new", "opening"} => given[c] = 0
  /\ home[c] <= created
  /\ Live(c) => Ordered(c)

OrderInv ==
  /\ \A c \in Clients : Homed(c)
  /\ served.at # "none" => served.file = created
  /\ \A i \in DOMAIN content : content[i][2] > 0
  /\ \A i \in DOMAIN tasks : Live(tasks[i].client)

(* What is under way does not change if the line and the handler do not.   *)
LEMMA WayFrame ==
  ASSUME NEW d \in Clients, net'[d][0] = net[d][0], handler'[d][0] = handler[d][0]
  PROVE  Way(d)' = Way(d)
<1>1. Req(d)' = Req(d) /\ Does(d)' = Does(d)
  BY DEF Req, Does
<1> QED
  BY <1>1 DEF Way

LEMMA NoWay ==
  ASSUME NEW c \in Clients, Does(c) \notin {"write", "data"},
         Req(c) = <<>> \/ \E m \in Messages : Req(c) = <<m>> /\ m.type # "write"
  PROVE  Way(c) = {}
<1>1. {x \in ToSet(Req(c)) : x.type = "write"} = {}
  BY DEF ToSet
<1> QED
  BY <1>1 DEF Way

(* The chunk that is under way.                                            *)
LEMMA WaySent ==
  ASSUME NEW c \in Clients, NEW m \in Messages, Req(c) = <<m>>, m.type = "write",
         Does(c) = "idle"
  PROVE  Way(c) = {m.chunk}
<1>1. {x \in ToSet(Req(c)) : x.type = "write"} = {m}
  BY DEF ToSet
<1> QED
  BY <1>1 DEF Way

LEMMA WayTaken ==
  ASSUME NEW c \in Clients, Req(c) = <<>>, Does(c) \in {"write", "data"}
  PROVE  Way(c) = {handler[c][0].chunk}
<1>1. {x \in ToSet(Req(c)) : x.type = "write"} = {}
  BY DEF ToSet
<1> QED
  BY <1>1 DEF Way

(* Nothing of a client moves, or what moves is nearer to the file.         *)
LEMMA OrderedKept ==
  ASSUME NEW d \in Clients, Ordered(d), UNCHANGED <<tasks, content>>,
         Way(d)' = Way(d), Queued(d)' = Queued(d), Mark(d)' = Mark(d)
  PROVE  Ordered(d)'
BY DEF Ordered, Landed, OnFile, OnTask, Carried, Before, Carries

LEMMA OrderedGrows ==
  ASSUME NEW d \in Clients, Ordered(d),
         Queued(d)' = Queued(d), Mark(d)' = Mark(d), Way(d)' \subseteq Way(d),
         \A n \in Nat : Landed(d, n) => Landed(d, n)',
         \A k \in Way(d), n \in Nat : Carries(k, n) => k \in Way(d)' \/ Landed(d, n)',
         \A i \in DOMAIN content' :
           content'[i][1] = d => \A n \in 1 .. content'[i][2] : OnFile(d, n)',
         \A i \in DOMAIN tasks' :
           tasks'[i].client = d =>
             \A n \in 1 .. tasks'[i].chunk.from : OnFile(d, n)' \/ OnTask(d, n, i - 1)'
  PROVE  Ordered(d)'
<1>1. \A S, n : Carried(S, n)' = Carried(S, n)
  BY DEF Carried, Carries
<1>2. \A k : Before(d, k)' = Before(d, k)
  BY DEF Before
<1>3. \A n \in Nat : Carried(Way(d), n) => Carried(Way(d)', n) \/ Landed(d, n)'
  BY DEF Carried
<1>4. \A k \in Way(d)' : \A n \in 1 .. k.from : Landed(d, n)'
  BY DEF Ordered
<1>5. \A k \in Queued(d)' : \A n \in 1 .. k.from :
        Landed(d, n)' \/ Carried(Way(d)', n) \/ Carried(Before(d, k), n)
  BY <1>3 DEF Ordered
<1>6. \A n \in 1 .. Mark(d)' :
        Landed(d, n)' \/ Carried(Way(d)', n) \/ Carried(Queued(d)', n)
  BY <1>3 DEF Ordered
<1> QED
  BY <1>1, <1>2, <1>4, <1>5, <1>6 DEF Ordered

(* A chunk is made of what was before the mark's end: all that is before   *)
(* it is in chunks with lower numbers, or further.                         *)
LEMMA OrderedChunk ==
  ASSUME FileInv, PoolTypes, NEW c \in Clients, NumbersSound(c), Ordered(c),
         NEW n \in Nat, AddChunk(c, n), UNCHANGED <<tasks, content>>, Way(c)' = Way(c),
         Mark(c) = given[c] - buffer[c].cnt, Mark(c)' = given[c] + n
  PROVE  Ordered(c)'
<1>0. PICK k : k = NewChunk(c, n)
  OBVIOUS
<1>1. k.seq = seqNum[c] /\ k.from = Mark(c) /\ k.from + k.cnt = Mark(c)'
  BY <1>0, MarkTypes DEF NewChunk
<1>2. Queued(c)' = Queued(c) \cup {k}
  BY <1>0, AddChunkEffect DEF PoolTypes, Queued
<1>3. \A j \in Queued(c) : j.seq \in Nat /\ j.seq < seqNum[c]
  BY NumberTypes DEF NumbersSound, Pending, Queued
<1>4. Mark(c) \in Nat /\ k \in Chunks
  BY <1>0, MarkTypes, NewChunkType
<1>5. \A S, i : Carried(S, i)' = Carried(S, i)
  BY DEF Carried, Carries
<1>6. \A i : Landed(c, i)' = Landed(c, i) /\ OnFile(c, i)' = OnFile(c, i)
  BY DEF Landed, OnFile, OnTask, Carries
<1>7. \A i, j : OnTask(c, i, j)' = OnTask(c, i, j)
  BY DEF OnTask, Carries
<1>8. \A j \in Queued(c) : Before(c, j) \subseteq Before(c, j)'
  BY <1>2 DEF Before
<1>9. Queued(c) \subseteq Before(c, k)'
  BY <1>1, <1>2, <1>3 DEF Before
<1>10. ASSUME NEW j \in Queued(c)', NEW i \in 1 .. j.from
       PROVE  Landed(c, i) \/ Carried(Way(c), i) \/ Carried(Before(c, j)', i)
  <2>1. CASE j \in Queued(c)
    <3>1. Landed(c, i) \/ Carried(Way(c), i) \/ Carried(Before(c, j), i)
      BY <2>1, <1>10 DEF Ordered
    <3> QED
      BY <1>8, <2>1, <3>1 DEF Carried
  <2>2. CASE j = k
    <3>1. Landed(c, i) \/ Carried(Way(c), i) \/ Carried(Queued(c), i)
      BY <1>1, <2>2, <1>10 DEF Ordered
    <3> QED
      BY <1>9, <2>2, <3>1 DEF Carried
  <2> QED
    BY <1>2, <1>10, <2>1, <2>2
<1>11. ASSUME NEW i \in 1 .. Mark(c)'
       PROVE  Landed(c, i) \/ Carried(Way(c), i) \/ Carried(Queued(c)', i)
  <2>1. CASE i <= Mark(c)
    <3>1. Landed(c, i) \/ Carried(Way(c), i) \/ Carried(Queued(c), i)
      BY <1>4, <2>1, <1>11 DEF Ordered
    <3> QED
      BY <1>2, <3>1 DEF Carried
  <2>2. CASE i > Mark(c)
    <3>1. Carries(k, i)
      BY <1>1, <1>11, <2>2 DEF Carries
    <3> QED
      BY <1>2, <3>1 DEF Carried
  <2> QED
    BY <1>4, <1>11, <2>1, <2>2
<1> QED
  BY <1>5, <1>6, <1>7, <1>10, <1>11 DEF Ordered

(* The chunk whose turn it is, is sent: none has a lower number.           *)
LEMMA OrderedSend ==
  ASSUME FileInv, PoolTypes, NEW c \in Clients, NumbersSound(c), Ordered(c),
         NEW k \in Queued(c), k.seq = sendNum[c], Queued(c)' = Queued(c) \ {k},
         Way(c) = {}, Way(c)' = {k}, UNCHANGED <<tasks, content>>, Mark(c)' = Mark(c)
  PROVE  Ordered(c)'
<1>1. \A j \in Queued(c) : j.seq \in Nat /\ j.seq >= sendNum[c]
  BY NumberTypes DEF NumbersSound, Pending, Queued
<1>2. Before(c, k) = {}
  BY <1>1, NumberTypes DEF Before
<1>3. \A S, i : Carried(S, i)' = Carried(S, i)
  BY DEF Carried, Carries
<1>4. \A i : Landed(c, i)' = Landed(c, i) /\ OnFile(c, i)' = OnFile(c, i)
  BY DEF Landed, OnFile, OnTask, Carries
<1>5. \A i, j : OnTask(c, i, j)' = OnTask(c, i, j)
  BY DEF OnTask, Carries
<1>6. \A j : Before(c, j) \subseteq Before(c, j)' \cup {k}
  BY DEF Before
<1>7. \A S, T, i : S \subseteq T \cup {k} =>
        (Carried(S, i) => Carried({k}, i) \/ Carried(T, i))
  BY DEF Carried
<1>8. \A i : ~Carried({}, i)
  BY DEF Carried
<1>9. \A i \in 1 .. k.from : Landed(c, i)
  BY <1>2, <1>8 DEF Ordered
<1>10. ASSUME NEW j \in Queued(c)', NEW i \in 1 .. j.from
       PROVE  Landed(c, i) \/ Carried({k}, i) \/ Carried(Before(c, j)', i)
  <2>1. Landed(c, i) \/ Carried(Before(c, j), i)
    BY <1>8, <1>10 DEF Ordered
  <2> QED
    BY <1>6, <1>7, <2>1
<1>11. ASSUME NEW i \in 1 .. Mark(c)
       PROVE  Landed(c, i) \/ Carried({k}, i) \/ Carried(Queued(c)', i)
  <2>1. Landed(c, i) \/ Carried(Queued(c), i)
    BY <1>8, <1>11 DEF Ordered
  <2>2. Queued(c) \subseteq Queued(c)' \cup {k}
    OBVIOUS
  <2> QED
    BY <1>7, <2>1, <2>2
<1> QED
  BY <1>3, <1>4, <1>5, <1>9, <1>10, <1>11 DEF Ordered

(* A message is sent: a chunk is under way if it is a write.               *)
LEMMA WaySends ==
  ASSUME NEW c \in Clients, handler'[c] = handler[c], NEW m \in Messages,
         Req(c) \in Seq(Messages), Req(c)' = Append(Req(c), m)
  PROVE  Way(c)' = Way(c) \cup (IF m.type = "write" THEN {m.chunk} ELSE {})
<1>1. ToSet(Append(Req(c), m)) = ToSet(Req(c)) \cup {m}
  BY DEF ToSet
<1>2. Does(c)' = Does(c) /\ handler'[c][0] = handler[c][0]
  BY DEF Does
<1> QED
  BY <1>1, <1>2 DEF Way

(* Nothing but a chunk that is sent gets under way.                        *)
LEMMA WayKept ==
  ASSUME MaxBreaks = 0, NetInv, PoolTypes, NEW c \in Clients,
         ClientStep(c) \/ CompressChunk(c) \/ TransferEnd(c)
  PROVE  Way(c)' = Way(c)
<1>1. handler' = handler
  BY Frames DEF serverVars, PoolStep
<1>2. UNCHANGED netVars \/ Receive(c) \/ Restart(c) \/ Send(c, Open) \/ Send(c, Close)
  BY ClientSends
<1>3. ~Restart(c) /\ Req(c) \in Seq(Messages)
  BY OneSocket DEF Restart
<1>4. ASSUME NEW m \in {Open, Close}, Send(c, m) PROVE Way(c)' = Way(c)
  <2>1. Req(c)' = Append(Req(c), m) /\ m \in Messages /\ m.type # "write"
    BY <1>4, SendZero, MessageTypes, QuietMessages
  <2> QED
    BY <1>1, <1>3, <2>1, WaySends
<1>5. CASE UNCHANGED netVars \/ Receive(c)
  <2>1. Req(c)' = Req(c) /\ Does(c)' = Does(c)
    BY <1>1, <1>5, ReceiveZero DEF netVars, Req, Does
  <2> QED
    BY <1>1, <2>1 DEF Way
<1> QED
  BY <1>2, <1>3, <1>4, <1>5

LEMMA OrderOfOthers ==
  ASSUME MaxBreaks = 0, Types, NEW c \in Clients, ClientStep(c) \/ PoolStep(c),
         NEW d \in Clients, d # c, Homed(d)
  PROVE  Homed(d)'
<1> USE DEF Types
<1>1. UNCHANGED <<handler, served, created, tasks, content, home>>
  BY Frames DEF serverVars
<1>2. net'[d][0] = net[d][0]
  <2>1. UNCHANGED netVars \/ Receive(c) \/ Restart(c) \/ \E m : Send(c, m)
    BY NetMovesStep DEF NetMoves
  <2>2. ~Restart(c)
    BY OneSocket DEF Restart
  <2> QED
    BY <2>1, <2>2, SendZero, ReceiveZero DEF netVars
<1>3. Way(d)' = Way(d)
  BY <1>1, <1>2, WayFrame
<1>4. app'[d] = app[d] /\ given'[d] = given[d] /\ Queued(d)' = Queued(d) /\ Mark(d)' = Mark(d)
  BY OthersKeep DEF Queued, Mark
<1>5. Ordered(d) => Ordered(d)'
  BY <1>1, <1>3, <1>4, OrderedKept
<1> QED
  BY <1>1, <1>4, <1>5 DEF Homed, Live

LEMMA OrderOfClient ==
  ASSUME MaxBreaks = 0, Types, NEW c \in Clients, NumbersSound(c), TurnSound(c), Homed(c),
         ClientStep(c)
  PROVE  Homed(c)'
<1> USE DEF Types
<1>1. UNCHANGED <<handler, served, created, tasks, content, home>>
  BY Frames DEF serverVars
<1>2. Way(c)' = Way(c)
  BY WayKept
<1>3. app'[c] \in {"new", "opening"} => app[c] = "new" /\ given'[c] = given[c]
  BY DEF ClientStep, OpenFile, OpenEnd, Write, FillBuffer, WriteEnd, Seek, CloseFile,
         CloseDrained, CloseEnd, FileInv, fileVars
<1>4. Ordered(c) => Ordered(c)'
  <2>1. CASE UNCHANGED <<compQ, xferQ>> /\ Mark(c)' = Mark(c)
    BY <1>1, <1>2, <2>1, OrderedKept DEF Queued
  <2>2. ASSUME NEW n \in Nat, AddChunk(c, n), Mark(c) = given[c] - buffer[c].cnt,
               Mark(c)' = given[c] + n
        PROVE  Ordered(c) => Ordered(c)'
    BY <1>1, <1>2, <2>2, OrderedChunk
  <2> QED
    BY <2>1, <2>2, ClientChunks
<1> QED
  BY <1>1, <1>3, <1>4 DEF Homed, Live

LEMMA OrderOfPool ==
  ASSUME MaxBreaks = 0, Types, NEW c \in Clients, NumbersSound(c), TurnSound(c), Homed(c),
         PoolStep(c)
  PROVE  Homed(c)'
<1> USE DEF Types
<1>1. UNCHANGED <<app, handler, served, created, tasks, content, home>> /\ UNCHANGED fileVars
  BY Frames DEF serverVars
<1>2. given' = given /\ Mark(c)' = Mark(c)
  BY <1>1 DEF fileVars, Mark
<1>3. Ordered(c) => Ordered(c)'
  <2>1. CASE CompressChunk(c)
    <3>1. Queued(c)' = Queued(c)
      BY <2>1 DEF CompressChunk, Queued, PoolTypes
    <3> QED
      BY <1>1, <1>2, <2>1, <3>1, WayKept, OrderedKept
  <2>2. CASE TransferEnd(c)
    <3>1. Queued(c)' = Queued(c)
      BY <2>2 DEF TransferEnd, Queued
    <3> QED
      BY <1>1, <1>2, <2>2, <3>1, WayKept, OrderedKept
  <2>3. CASE Transfer(c)
    <3>1. PICK k \in xferQ[c] : /\ k.seq = sendNum[c] /\ Send(c, WriteMsg(k))
                                /\ xferQ' = [xferQ EXCEPT ![c] = @ \ {k}]
      BY <2>3 DEF Transfer, HasTurn
    <3>2. k \in Queued(c) /\ k \in Chunks /\ xfer[c] = Idle /\ compQ' = compQ
      BY <2>3 DEF Transfer, Queued, PoolTypes
    <3>3. Queued(c)' = Queued(c) \ {k}
      BY <3>1, <3>2 DEF PoolTypes, Queued, NumbersSound
    <3>4. Quiet(c)
      <4>1. sendNum[c] \in Pending(c) /\ sendNum[c] # seqNum[c]
        BY <3>1, <3>2, NumberTypes DEF Pending, Queued, NumbersSound
      <4>2. app[c] \in Active
        BY <4>1 DEF TurnSound, NumbersSound, FileInv, Active, Quiet
      <4> QED
        BY <3>2, <4>2 DEF TurnSound
    <3>5. Way(c) = {}
      BY <3>4, NoWay DEF Quiet
    <3>6. WriteMsg(k) \in Messages /\ WriteMsg(k).type = "write" /\ WriteMsg(k).chunk = k
      BY <3>2, MessageTypes DEF WriteMsg
    <3>7. Way(c)' = {k}
      <4> DEFINE m == WriteMsg(k)
      <4>1. Send(c, m) /\ m \in Messages /\ m.type = "write" /\ m.chunk = k
        BY <3>1, <3>6
      <4> HIDE DEF m
      <4>2. Req(c)' = Append(Req(c), m) /\ Req(c) \in Seq(Messages)
        BY <4>1, SendZero, OneSocket
      <4>3. Way(c)' = Way(c) \cup {m.chunk}
        BY <1>1, <4>1, <4>2, WaySends
      <4> QED
        BY <3>5, <4>1, <4>3
    <3> QED
      BY <1>1, <1>2, <3>1, <3>2, <3>3, <3>5, <3>7, OrderedSend
  <2> QED
    BY <2>1, <2>2, <2>3 DEF PoolStep
<1> QED
  BY <1>1, <1>2, <1>3 DEF Homed, Live

(* The server's thread for c: what it leaves alone of the others.          *)
LEMMA OthersLines ==
  ASSUME MaxBreaks = 0, Types, NEW c \in Clients, HandlerStep(c, 0), NEW d \in Clients, d # c
  PROVE  /\ handler'[d][0] = handler[d][0] /\ net'[d][0] = net[d][0]
         /\ home'[d] = home[d] /\ Way(d)' = Way(d)
<1> USE DEF Types
<1>1. handler'[d][0] = handler[d][0]
  <2>1. \E h : To(c, 0, h)
    BY DEF HandlerStep, Poll, ServerOpen, ServerOpenAnswer, Lookup, WriteData, Acknowledge,
           ServerClose, RemoveUser, Delete, GoTo
  <2> QED
    BY <2>1 DEF To, ServerInv
<1>2. home'[d] = home[d]
  BY DEF HandlerStep, Poll, ServerOpen, ServerOpenAnswer, Lookup, WriteData, Acknowledge,
         ServerClose, RemoveUser, Delete, ServerInv
<1>3. net'[d][0] = net[d][0]
  <2>1. UNCHANGED netVars \/ Answer(c, 0) \/ Poll(c, 0)
    BY DEF HandlerStep, ServerOpen, ServerOpenAnswer, Lookup, WriteData, Acknowledge,
           ServerClose, RemoveUser, Delete
  <2> QED
    BY <2>1, AnswerZero, PollZero DEF netVars
<1> QED
  BY <1>1, <1>2, <1>3, WayFrame

(* A chunk is under way to the server until it is a task.                  *)
LEMMA WayOfHandler ==
  ASSUME MaxBreaks = 0, Types, WholeInv, NEW c \in Clients, HandlerStep(c, 0),
         ~WriteData(c, 0)
  PROVE  Way(c)' = Way(c)
<1> USE DEF Types
<1>1. TurnSound(c) /\ 0 \in Sockets
  BY OneSocket DEF WholeInv, TurnsInv
<1>2. CASE Poll(c, 0)
  <2>1. Does(c) = "idle" /\ Req(c) # <<>>
    BY <1>2 DEF Poll, At, Does, Req
  <2>2. PICK m \in Messages : Req(c) = <<m>>
    BY <1>1, <2>1, RequestMeans
  <2>3. To(c, 0, Taken(m)) /\ Taken(m) \in Handlers /\ Taken(m).at = m.type
    <3>1. Head(net[c][0].req) = m
      BY <2>2 DEF Req
    <3> QED
      BY <1>1, <1>2, <3>1, PollTakes, TakenType
  <2>4. handler'[c][0] = Taken(m) /\ Does(c)' = m.type
    BY <2>3, HandlerZero
  <2>5. Req(c)' = <<>>
    <3>1. Tail(<<m>>) = <<>>
      OBVIOUS
    <3> QED
      BY <1>2, <2>2, <3>1, PollZero
  <2>6. {x \in ToSet(Req(c))' : x.type = "write"} = {}
    BY <2>5 DEF ToSet
  <2>7. CASE m.type = "write"
    <3>1. Way(c) = {m.chunk}
      BY <2>1, <2>2, <2>7, WaySent
    <3>2. Way(c)' = {m.chunk}
      BY <2>4, <2>6, <2>7, TakenType DEF Way
    <3> QED
      BY <3>1, <3>2
  <2>8. CASE m.type # "write"
    <3>1. Way(c) = {}
      BY <2>1, <2>2, <2>8, NoWay
    <3>2. m.type # "data"
      BY DEF Messages
    <3>3. Way(c)' = {}
      BY <2>4, <2>6, <2>8, <3>2 DEF Way
    <3> QED
      BY <3>1, <3>3
  <2> QED
    BY <2>7, <2>8
<1>3. CASE Lookup(c, 0)
  <2>1. Does(c) = "write" /\ UNCHANGED netVars
    BY <1>3 DEF Lookup, At, Does
  <2>2. served.at = "open"
    BY <2>1, WritersCount
  <2> DEFINE h == [at |-> "data", chunk |-> handler[c][0].chunk, file |-> served.file]
  <2>3. To(c, 0, h) /\ h.at = "data" /\ h.chunk = handler[c][0].chunk /\ h \in Handlers
    <3>1. handler[c][0].chunk \in Chunks /\ served.file \in Nat
      BY <1>1, <1>3, HandlerHas DEF Lookup, ServerInv
    <3> QED
      BY <1>3, <2>2, <3>1, HandlerTypes DEF Lookup
  <2> HIDE DEF h
  <2>4. handler'[c][0].chunk = handler[c][0].chunk /\ Does(c)' = "data"
    BY <2>3, HandlerZero
  <2>5. Req(c)' = Req(c)
    BY <2>1 DEF netVars, Req
  <2> QED
    BY <2>1, <2>4, <2>5 DEF Way
<1>4. ASSUME NEW x \in {"idle", "open", "opened", "ack", "close", "remove", "delete"},
             GoTo(c, 0, x), Does(c) \notin {"write", "data"},
             UNCHANGED netVars \/ Answer(c, 0)
      PROVE  Way(c)' = Way(c)
  <2>1. To(c, 0, [at |-> x]) /\ [at |-> x] \in Handlers /\ [at |-> x].at = x
    BY <1>4, HandlerTypes DEF GoTo
  <2>2. Does(c)' = x
    BY <2>1, HandlerZero
  <2>3. Req(c)' = Req(c)
    BY <1>4, AnswerZero DEF netVars, Req
  <2> QED
    BY <1>4, <2>2, <2>3 DEF Way
<1>5. CASE ServerOpen(c, 0)
  BY <1>4, <1>5 DEF ServerOpen, At, Does
<1>6. CASE ServerOpenAnswer(c, 0) \/ Acknowledge(c, 0) \/ ServerClose(c, 0)
  BY <1>4, <1>6, OneSocket DEF ServerOpenAnswer, Acknowledge, ServerClose, At, Does
<1>7. CASE RemoveUser(c, 0)
  BY <1>4, <1>7 DEF RemoveUser, At, Does
<1>8. CASE Delete(c, 0)
  BY <1>4, <1>8 DEF Delete, At, Does
<1> QED
  BY <1>2, <1>3, <1>5, <1>6, <1>7, <1>8 DEF HandlerStep

(* What the server's threads leave alone of the clients' part.             *)
LEMMA ClientsKept ==
  ASSUME UNCHANGED <<app, fileVars, poolVars>>, NEW d \in Clients
  PROVE  /\ app'[d] = app[d] /\ given'[d] = given[d]
         /\ Queued(d)' = Queued(d) /\ Mark(d)' = Mark(d)
BY DEF fileVars, poolVars, Queued, Mark

LEMMA OrderOfTalk ==
  ASSUME MaxBreaks = 0, Types, WholeInv, OrderInv, NEW c \in Clients,
         Poll(c, 0) \/ ServerOpenAnswer(c, 0) \/ Lookup(c, 0) \/ Acknowledge(c, 0)
           \/ ServerClose(c, 0) \/ RemoveUser(c, 0)
  PROVE  OrderInv'
<1> USE DEF Types
<1>1. HandlerStep(c, 0) /\ UNCHANGED <<created, tasks, content, home>> /\ ~WriteData(c, 0)
  BY DEF HandlerStep, Poll, ServerOpenAnswer, Lookup, Acknowledge, ServerClose, RemoveUser,
         WriteData, At
<1>2. served'.file = served.file /\ (served'.at = "none" <=> served.at = "none")
  BY DEF Poll, ServerOpenAnswer, Lookup, Acknowledge, ServerClose, RemoveUser, ServerInv
<1>3. UNCHANGED <<app, fileVars, poolVars>>
  BY <1>1, OneSocket, HandlerFrame
<1>4. \A d \in Clients : Live(d)' <=> Live(d)
  BY <1>1, <1>2 DEF Live
<1>5. ASSUME NEW d \in Clients PROVE Homed(d)'
  <2>1. Way(d)' = Way(d)
    BY <1>1, OthersLines, WayOfHandler
  <2>2. /\ app'[d] = app[d] /\ given'[d] = given[d]
        /\ Queued(d)' = Queued(d) /\ Mark(d)' = Mark(d)
    BY <1>3, ClientsKept
  <2>3. Ordered(d) => Ordered(d)'
    BY <1>1, <2>1, <2>2, OrderedKept
  <2> QED
    BY <1>1, <1>4, <2>2, <2>3 DEF Homed, OrderInv
<1>6. \A i \in DOMAIN tasks : tasks[i].client \in Clients
  <2>1. \A i \in DOMAIN tasks : tasks[i] \in Tasks
    BY DEF ServerInv
  <2> QED
    BY <2>1 DEF Tasks
<1> QED
  BY <1>1, <1>2, <1>4, <1>5, <1>6 DEF OrderInv

(* The destructor ends when there are no tasks: nobody belongs to the file *)
(* any more.                                                               *)
LEMMA OrderOfDelete ==
  ASSUME MaxBreaks = 0, Types, OrderInv, NEW c \in Clients, Delete(c, 0)
  PROVE  OrderInv'
<1> USE DEF Types
<1>1. /\ served'.at = "none" /\ UNCHANGED <<created, home, tasks>> /\ tasks = <<>>
      /\ content' = content \/ content' = <<>>
  BY DEF Delete
<1>2. UNCHANGED <<app, fileVars, poolVars>>
  BY OneSocket, HandlerFrame DEF HandlerStep
<1>3. \A d \in Clients : ~Live(d)'
  BY <1>1 DEF Live
<1>4. \A d \in Clients : Homed(d)'
  BY <1>1, <1>2, <1>3, ClientsKept DEF OrderInv, Homed
<1> QED
  BY <1>1, <1>4 DEF OrderInv

(* Nobody wrote yet who opens the file.                                    *)
LEMMA OrderedNew ==
  ASSUME NEW c \in Clients, Way(c)' = {}, Queued(c)' = {}, Mark(c)' = 0,
         \A i \in DOMAIN content' : content'[i][1] # c,
         \A i \in DOMAIN tasks' : tasks'[i].client # c
  PROVE  Ordered(c)'
BY DEF Ordered

(* A client that opens the file has no bytes in it yet.                    *)
LEMMA OrderOfOpen ==
  ASSUME MaxBreaks = 0, Types, NumbersInv, OneSpot, WholeInv, OrderInv,
         NEW c \in Clients, ServerOpen(c, 0)
  PROVE  OrderInv'
<1> USE DEF Types
<1>1. TurnSound(c) /\ HandlerStep(c, 0) /\ ~WriteData(c, 0) /\ UsersInv
  BY DEF WholeInv, TurnsInv, HandlerStep, ServerOpen, WriteData, At
<1>2. Does(c) = "open" /\ served.at # "dying" /\ UNCHANGED tasks
  BY DEF ServerOpen, At, Does, MutexFree
<1>3. app[c] = "opening" /\ Req(c) = <<>> /\ home[c] = 0
  BY <1>1, <1>2, DoesMeans
<1>4. /\ served'.at = "open" /\ home'[c] = served'.file /\ served'.file = created'
      /\ created \in Nat /\ created' \in Nat /\ created' >= created
      /\ \/ served.at = "open" /\ UNCHANGED <<created, content>>
         \/ served.at = "none" /\ created' = created + 1 /\ content' = <<>>
  BY <1>2 DEF ServerOpen, ServerInv, OrderInv
<1>5. \A d \in Clients : /\ app'[d] = app[d] /\ given'[d] = given[d]
                         /\ Queued(d)' = Queued(d) /\ Mark(d)' = Mark(d)
  BY <1>1, OneSocket, HandlerFrame, ClientsKept
<1>6. \A d \in Clients : d # c => home'[d] = home[d]
  BY <1>1, OthersLines
<1>7. \A i \in DOMAIN tasks : tasks[i].client # c /\ tasks[i].client \in Clients
                              /\ served.at = "open"
  <2>1. \A i \in DOMAIN tasks : tasks[i] \in Tasks
    BY DEF ServerInv
  <2>2. ~Live(c)
    BY <1>1, <1>3 DEF Live, UsersInv, ServerInv
  <2> QED
    BY <1>2, <2>1, <2>2 DEF Tasks, OrderInv, Live, ServerInv
<1>8. Homed(c)'
  <2>1. Way(c)' = {}
    BY <1>1, <1>2, <1>3, NoWay, WayOfHandler
  <2>2. Queued(c) = {}
    <3>1. Pending(c) = {}
      BY <1>1, <1>3, NumberTypes DEF NumbersInv, NumbersSound, TurnSound
    <3> QED
      BY <3>1 DEF Pending, Queued
  <2>3. given[c] = 0 /\ Mark(c) = 0
    BY <1>3, MarkTypes DEF OrderInv, Homed, Mark
  <2>4. ASSUME NEW i \in DOMAIN content, content[i][1] = c PROVE FALSE
    <3>1. content[i] \in Clients \X Nat /\ content[i][2] > 0
      BY DEF ServerInv, OrderInv
    <3>2. PICK n \in Nat : content[i] = <<c, n>> /\ n > 0
      BY <2>4, <3>1
    <3>3. AtFile(c, n, <<"file", i, 0>>) /\ AtClient(c, n, <<"client", 0, 0>>)
      BY <2>3, <3>2 DEF AtFile, AtClient
    <3>4. <<"file", i, 0>> = <<"client", 0, 0>>
      BY <3>3 DEF OneSpot, OneSpotOf, Spot, InPools, OnServer
    <3> QED
      BY <3>4
  <2>5. \A i \in DOMAIN content' : content'[i][1] # c
    BY <1>4, <2>4
  <2>6. Ordered(c)'
    BY <1>2, <1>5, <1>7, <2>1, <2>2, <2>3, <2>5, OrderedNew
  <2> QED
    BY <1>4, <1>5, <2>3, <2>6 DEF Homed
<1>9. ASSUME NEW d \in Clients, d # c PROVE Homed(d)' /\ (served.at = "open" => Live(d)' = Live(d))
  <2>1. Way(d)' = Way(d) /\ home'[d] = home[d] /\ home[d] \in Nat
    BY <1>1, <1>9, OthersLines DEF ServerInv
  <2>2. CASE served.at = "open" /\ UNCHANGED <<created, content>>
    <3>1. Ordered(d) => Ordered(d)'
      BY <1>2, <1>5, <2>1, <2>2, OrderedKept
    <3>2. Live(d)' = Live(d)
      BY <1>4, <2>1, <2>2 DEF Live, OrderInv
    <3> QED
      BY <1>5, <2>1, <2>2, <3>1, <3>2 DEF Homed, OrderInv
  <2>3. CASE served.at = "none" /\ created' = created + 1
    BY <1>4, <1>5, <2>1, <2>3 DEF Homed, OrderInv, Live
  <2> QED
    BY <1>4, <2>2, <2>3
<1>10. \A i \in DOMAIN tasks' : Live(tasks[i].client)'
  BY <1>2, <1>7, <1>9 DEF OrderInv
<1>11. \A i \in DOMAIN content' : content'[i][2] > 0
  BY <1>4 DEF OrderInv
<1> QED
  BY <1>4, <1>8, <1>9, <1>10, <1>11 DEF OrderInv

(* The chunk that was under way becomes the last task.                     *)
LEMMA OrderOfWrite ==
  ASSUME MaxBreaks = 0, Types, WholeInv, OrderInv, NEW c \in Clients, WriteData(c, 0)
  PROVE  OrderInv'
<1> USE DEF Types
<1>1. TurnSound(c) /\ HandlerStep(c, 0) /\ 0 \in Sockets
  BY OneSocket DEF WholeInv, TurnsInv, HandlerStep
<1>2. Does(c) = "data" /\ UNCHANGED <<netVars, served, created, content, home>>
  BY DEF WriteData, At, Does
<1>3. Req(c) = <<>> /\ served.at = "open" /\ served.file = home[c]
  BY <1>2, WritersCount
<1>4. PICK k : k = handler[c][0].chunk
  OBVIOUS
<1>5. k \in Chunks /\ Way(c) = {k}
  BY <1>1, <1>2, <1>3, <1>4, HandlerHas, WayTaken DEF WriteData
<1>6. PICK t : t = [client |-> c, chunk |-> k]
  OBVIOUS
<1>7. t.client = c /\ t.chunk = k /\ t \in Tasks
  BY <1>5, <1>6 DEF Tasks
<1>8. tasks' = Append(tasks, t) /\ tasks \in Seq(Tasks)
  <2>1. handler[c][0].file = home[c]
    BY <1>1, <1>2 DEF TurnSound
  <2> QED
    BY <1>3, <1>4, <1>6, <2>1 DEF WriteData, ServerInv
<1>9. Way(c)' = {}
  <2>1. Does(c)' = "ack"
    BY HandlerTypes, HandlerZero DEF WriteData, GoTo
  <2>2. Req(c)' = <<>>
    BY <1>2, <1>3 DEF netVars, Req
  <2>3. {x \in ToSet(Req(c))' : x.type = "write"} = {}
    BY <2>2 DEF ToSet
  <2> QED
    BY <2>1, <2>3 DEF Way
<1>10. \A d \in Clients : /\ app'[d] = app[d] /\ given'[d] = given[d]
                          /\ Queued(d)' = Queued(d) /\ Mark(d)' = Mark(d)
  BY <1>1, HandlerFrame, ClientsKept
<1>11. /\ Len(tasks) \in Nat /\ DOMAIN tasks = 1 .. Len(tasks)
       /\ Len(tasks') = Len(tasks) + 1 /\ DOMAIN tasks' = 1 .. Len(tasks) + 1
       /\ \A i \in DOMAIN tasks : tasks'[i] = tasks[i]
       /\ tasks'[Len(tasks) + 1] = t
  BY <1>7, <1>8
<1>12. ASSUME NEW d \in Clients PROVE Ordered(d) => Ordered(d)'
  <2> SUFFICES ASSUME Ordered(d) PROVE Ordered(d)'
    OBVIOUS
  <2>1. Way(d)' \subseteq Way(d)
    BY <1>1, <1>9, OthersLines
  <2>2. \A n : OnFile(d, n)' = OnFile(d, n)
    BY <1>2 DEF OnFile
  <2>3. ASSUME NEW n, NEW j \in 0 .. Len(tasks) PROVE OnTask(d, n, j)' = OnTask(d, n, j)
    <3>1. \A i \in 1 .. j : tasks'[i] = tasks[i]
      BY <1>11
    <3> QED
      BY <3>1 DEF OnTask, Carries
  <2>4. \A n : OnTask(d, n, Len(tasks)) => OnTask(d, n, Len(tasks))'
    BY <1>11 DEF OnTask, Carries
  <2>5. \A n : Landed(d, n) => Landed(d, n)'
    BY <2>2, <2>4 DEF Landed
  <2>6. ASSUME NEW j \in Way(d), NEW n \in Nat, Carries(j, n)
        PROVE  j \in Way(d)' \/ Landed(d, n)'
    <3>1. CASE d = c
      BY <1>5, <1>7, <1>11, <2>6, <3>1 DEF Landed, OnTask, Carries
    <3>2. CASE d # c
      BY <1>1, <2>6, <3>2, OthersLines
    <3> QED
      BY <3>1, <3>2
  <2>7. \A i \in DOMAIN content' :
          content'[i][1] = d => \A n \in 1 .. content'[i][2] : OnFile(d, n)'
    BY <1>2, <2>2 DEF Ordered
  <2>8. ASSUME NEW i \in DOMAIN tasks', tasks'[i].client = d, NEW n \in 1 .. tasks'[i].chunk.from
        PROVE  OnFile(d, n)' \/ OnTask(d, n, i - 1)'
    <3>1. CASE i \in DOMAIN tasks
      <4>1. i - 1 \in 0 .. Len(tasks)
        BY <1>11, <3>1
      <4>2. OnFile(d, n) \/ OnTask(d, n, i - 1)
        BY <1>11, <2>8, <3>1 DEF Ordered
      <4> QED
        BY <2>2, <2>3, <4>1, <4>2
    <3>2. CASE i = Len(tasks) + 1
      <4>1. d = c /\ n \in 1 .. k.from
        BY <1>7, <1>11, <2>8, <3>2
      <4>2. OnFile(d, n) \/ OnTask(d, n, Len(tasks))
        BY <1>5, <4>1 DEF Ordered, Landed
      <4>3. i - 1 = Len(tasks) /\ Len(tasks) \in 0 .. Len(tasks)
        BY <1>11, <3>2
      <4> QED
        BY <2>2, <2>3, <4>2, <4>3
    <3> QED
      BY <1>11, <2>8, <3>1, <3>2
  <2> QED
    BY <1>10, <2>1, <2>5, <2>6, <2>7, <2>8, OrderedGrows
<1>13. \A d \in Clients : Live(d)' = Live(d)
  BY <1>2 DEF Live
<1>14. \A d \in Clients : Homed(d)'
  BY <1>2, <1>10, <1>12, <1>13 DEF OrderInv, Homed
<1>15. \A i \in DOMAIN tasks' : Live(tasks[i].client)'
  <2>1. \A i \in DOMAIN tasks : tasks[i] \in Tasks
    BY <1>8
  <2>2. \A i \in DOMAIN tasks : tasks[i].client \in Clients /\ Live(tasks[i].client)
    BY <2>1 DEF Tasks, OrderInv
  <2>3. Live(c)
    BY <1>3 DEF Live
  <2> QED
    BY <1>7, <1>11, <1>13, <2>2, <2>3
<1> QED
  BY <1>2, <1>14, <1>15 DEF OrderInv

(* The first task's bytes are appended: what is before them is there.      *)
LEMMA OrderOfAppend ==
  ASSUME Types, OrderInv, AppendToFile
  PROVE  OrderInv'
<1> USE DEF Types
<1>1. UNCHANGED <<app, fileVars, poolVars, netVars, handler, served, created, home>>
  BY AppendFrame
<1>2. PICK t \in Tasks :
        /\ t = tasks[1] /\ 1 \in DOMAIN tasks /\ t.client \in Clients /\ t.chunk \in Chunks
        /\ t.chunk.from \in Nat /\ t.chunk.cnt \in Nat /\ Len(content) \in Nat
        /\ tasks' = Tail(tasks) /\ DOMAIN content = 1 .. Len(content)
        /\ Len(tasks) \in Nat /\ Len(tasks') = Len(tasks) - 1
        /\ DOMAIN tasks = 1 .. Len(tasks) /\ DOMAIN tasks' = 1 .. Len(tasks) - 1
        /\ \A i \in 1 .. Len(tasks) - 1 : tasks'[i] = tasks[i + 1]
        /\ DOMAIN content' = 1 .. Len(content) + t.chunk.cnt
        /\ \A i \in DOMAIN content : content'[i] = content[i]
        /\ \A i \in 1 .. t.chunk.cnt :
             content'[Len(content) + i] = <<t.client, t.chunk.from + i>>
  BY AppendEffect
<1>3. PICK N, L, e, k : N = Len(content) /\ L = Len(tasks) /\ e = t.client /\ k = t.chunk
  OBVIOUS
<1>9. N \in Nat /\ k.from \in Nat /\ k.cnt \in Nat
  BY <1>2, <1>3
<1>10. \A i \in DOMAIN content : i \in DOMAIN content' /\ content'[i] = content[i]
  <2>1. DOMAIN content \subseteq DOMAIN content'
    BY <1>2, <1>3, <1>9
  <2> QED
    BY <1>2, <2>1, Zenon
<1>4. ASSUME NEW d \in Clients, Ordered(d) PROVE Ordered(d)'
  <2>1. Way(d)' = Way(d) /\ Queued(d)' = Queued(d) /\ Mark(d)' = Mark(d)
    BY <1>1, WayFrame, ClientsKept DEF netVars
  <2>2. \A n : OnFile(d, n) => OnFile(d, n)'
    BY <1>10 DEF OnFile
  <2>3. ASSUME NEW n \in Nat, d = e, Carries(k, n) PROVE OnFile(d, n)'
    <3>1. PICK i \in 1 .. k.cnt : n = k.from + i
      <4>1. n - k.from \in 1 .. k.cnt /\ n = k.from + (n - k.from)
        BY <1>9, <2>3 DEF Carries
      <4> QED
        BY <4>1
    <3>2. content'[N + i] = <<d, n>> /\ N + i \in DOMAIN content'
      BY <1>2, <1>3, <2>3, <3>1
    <3> QED
      BY <3>2 DEF OnFile
  <2>4. ASSUME NEW n \in Nat, NEW j \in 1 .. L, OnTask(d, n, j)
        PROVE  OnFile(d, n)' \/ OnTask(d, n, j - 1)'
    <3>1. PICK i \in 1 .. j : tasks[i].client = d /\ Carries(tasks[i].chunk, n)
      BY <2>4 DEF OnTask
    <3>2. CASE i = 1
      BY <1>2, <1>3, <2>3, <3>1, <3>2
    <3>3. CASE i # 1
      <4>1. i - 1 \in 1 .. j - 1 /\ tasks'[i - 1] = tasks[i]
        BY <1>2, <1>3, <3>3
      <4> QED
        BY <3>1, <4>1 DEF OnTask, Carries
    <3> QED
      BY <3>2, <3>3
  <2>5. ASSUME NEW n \in Nat, Landed(d, n) PROVE Landed(d, n)'
    <3>1. L \in 1 .. L /\ Len(tasks') = L - 1
      BY <1>2, <1>3
    <3>2. CASE OnFile(d, n)
      BY <2>2, <3>2 DEF Landed
    <3>3. CASE OnTask(d, n, L)
      BY <2>4, <3>1, <3>3 DEF Landed
    <3> QED
      BY <1>3, <2>5, <3>2, <3>3 DEF Landed
  <2>6. \A n \in 1 .. k.from : d = e => OnFile(d, n)
    <3>1. \A n : ~OnTask(d, n, 1 - 1)
      BY DEF OnTask
    <3> QED
      BY <1>2, <1>3, <1>4, <3>1 DEF Ordered
  <2>7. ASSUME NEW i \in DOMAIN content', content'[i][1] = d, NEW n \in 1 .. content'[i][2]
        PROVE  OnFile(d, n)'
    <3>1. CASE i \in DOMAIN content
      BY <1>4, <1>10, <2>2, <2>7, <3>1 DEF Ordered
    <3>2. CASE i \notin DOMAIN content
      <4>1. PICK j \in 1 .. k.cnt : i = N + j
        <5>1. i - N \in 1 .. k.cnt /\ i = N + (i - N)
          BY <1>2, <1>3, <2>7, <3>2
        <5> QED
          BY <5>1
      <4>2. d = e /\ n \in 1 .. k.from + j
        <5>1. content'[i] = <<e, k.from + j>>
          BY <1>2, <1>3, <4>1
        <5>2. content'[i][1] = e /\ content'[i][2] = k.from + j
          BY <5>1
        <5> QED
          BY <2>7, <5>2
      <4>3. CASE n <= k.from
        BY <1>2, <1>3, <2>2, <2>6, <4>2, <4>3
      <4>4. CASE n > k.from
        <5>1. Carries(k, n) /\ n \in Nat
          BY <1>9, <4>2, <4>4 DEF Carries
        <5> QED
          BY <2>3, <4>2, <5>1
      <4> QED
        BY <1>2, <1>3, <4>2, <4>3, <4>4
    <3> QED
      BY <3>1, <3>2
  <2>8. ASSUME NEW i \in DOMAIN tasks', tasks'[i].client = d, NEW n \in 1 .. tasks'[i].chunk.from
        PROVE  OnFile(d, n)' \/ OnTask(d, n, i - 1)'
    <3>1. i \in 1 .. L /\ i + 1 \in DOMAIN tasks /\ tasks[i + 1] = tasks'[i] /\ (i + 1) - 1 = i
      BY <1>2, <1>3, <2>8
    <3>2. OnFile(d, n) \/ OnTask(d, n, i)
      BY <1>4, <2>8, <3>1 DEF Ordered
    <3>3. n \in Nat
      BY <2>8
    <3> QED
      BY <2>2, <2>4, <3>1, <3>2, <3>3
  <2> QED
    BY <1>4, <2>1, <2>5, <2>7, <2>8, OrderedGrows
<1>5. \A d \in Clients : Live(d)' = Live(d)
  BY <1>1 DEF Live
<1>6. \A d \in Clients : Homed(d)'
  BY <1>1, <1>4, <1>5, ClientsKept DEF OrderInv, Homed
<1>7. \A i \in DOMAIN content' : content'[i][2] > 0
  <2> SUFFICES ASSUME NEW i \in DOMAIN content' PROVE content'[i][2] > 0
    OBVIOUS
  <2>1. CASE i \in DOMAIN content
    BY <1>10, <2>1 DEF OrderInv
  <2>2. CASE i \notin DOMAIN content
    <3>1. i - N \in 1 .. k.cnt /\ i = N + (i - N)
      BY <1>2, <1>3, <2>2
    <3>2. content'[i] = <<e, k.from + (i - N)>>
      BY <1>2, <1>3, <3>1
    <3>3. content'[i][2] = k.from + (i - N)
      BY <3>2
    <3>4. k.from + (i - N) > 0
      <4>1. k.from \in Nat /\ k.cnt \in Nat
        BY <1>2, <1>3
      <4>2. PICK j \in 1 .. k.cnt : j = i - N
        BY <3>1
      <4>3. j \in Nat /\ j > 0
        BY <4>1, <4>2
      <4> QED
        BY <4>1, <4>2, <4>3
    <3> QED
      BY <3>3, <3>4
  <2> QED
    BY <2>1, <2>2
<1>8. \A i \in DOMAIN tasks' : Live(tasks[i].client)'
  <2>1. \A i \in DOMAIN tasks : tasks[i] \in Tasks
    BY DEF ServerInv
  <2>2. \A i \in DOMAIN tasks : tasks[i].client \in Clients /\ Live(tasks[i].client)
    BY <2>1 DEF Tasks, OrderInv
  <2>3. \A i \in DOMAIN tasks' : i + 1 \in DOMAIN tasks /\ tasks'[i] = tasks[i + 1]
    BY <1>2
  <2> QED
    BY <1>5, <2>2, <2>3
<1> QED
  BY <1>1, <1>6, <1>7, <1>8 DEF OrderInv

(* At first there is nothing to be in order.                               *)
THEOREM InitOrder == Init => OrderInv
<1> SUFFICES ASSUME Init PROVE OrderInv
  OBVIOUS
<1>1. ASSUME NEW c \in Clients PROVE Homed(c)
  BY <1>1 DEF Init, Homed, Live
<1> QED
  BY <1>1 DEF Init, OrderInv

(* As long as no socket breaks, the bytes of a client are in order on      *)
(* their way: a chunk is sent when its number has its turn, the next only  *)
(* when it is answered, which it is when it is a task, and one thread      *)
(* takes the tasks as they came.                                           *)
THEOREM OrderStep ==
  ASSUME MaxBreaks = 0, FileSafety, WholeInv, OrderInv, [Next]_vars
  PROVE  OrderInv'
<1> USE DEF FileSafety
<1>1. Types /\ NumbersInv
  OBVIOUS
<1>2. ASSUME NEW c \in Clients, ClientStep(c) \/ PoolStep(c) PROVE OrderInv'
  <2>1. UNCHANGED <<served, created, tasks, content, home>>
    BY <1>2, Frames DEF serverVars
  <2>2. ASSUME NEW d \in Clients PROVE Homed(d)'
    <3>1. CASE d = c
      BY <1>1, <1>2, <3>1, OrderOfClient, OrderOfPool DEF OrderInv, NumbersInv, WholeInv, TurnsInv
    <3>2. CASE d # c
      BY <1>1, <1>2, <3>2, OrderOfOthers DEF OrderInv
    <3> QED
      BY <3>1, <3>2
  <2> QED
    BY <2>1, <2>2 DEF OrderInv, Live
<1>3. ASSUME NEW c \in Clients, Break(c) PROVE FALSE
  BY <1>1, <1>3, OneSocket DEF Break, Types
<1>4. ASSUME NEW c \in Clients, NEW s \in Sockets, HandlerStep(c, s) PROVE OrderInv'
  <2>1. HandlerStep(c, 0)
    BY <1>1, <1>4, OneSocket DEF Types
  <2> QED
    BY <1>1, <2>1, OrderOfTalk, OrderOfOpen, OrderOfWrite, OrderOfDelete DEF HandlerStep
<1>5. CASE AppendToFile
  BY <1>5, OrderOfAppend
<1>6. CASE UNCHANGED vars
  <2>1. UNCHANGED <<served, created, tasks, content, home, app, fileVars, poolVars>>
    BY <1>6 DEF vars, serverVars
  <2>2. ASSUME NEW d \in Clients PROVE Homed(d)'
    <3>1. Way(d)' = Way(d)
      BY <1>6, WayFrame DEF vars, netVars, serverVars
    <3> QED
      BY <2>1, <3>1, ClientsKept, OrderedKept DEF OrderInv, Homed, Live
  <2> QED
    BY <2>1, <2>2 DEF OrderInv, Live
<1> QED
  BY <1>2, <1>3, <1>4, <1>5, <1>6 DEF Next

-------------------------------------------------------------------------------
(* OutputFile promises what OutputFileSpec says.                           *)

(* The bytes of c in the file are counted by their numbers.                *)
LEMMA AppendedUpTo ==
  ASSUME Types, OneSpot, NEW c \in Clients, NEW m \in Nat,
         \A n \in Nat : OnFile(c, n) <=> n \in 1 .. m
  PROVE  OutputFile!Appended(c) = m
<1> USE DEF Types
<1> DEFINE S == {i \in DOMAIN content : content[i][1] = c}
           f == [i \in S |-> content[i][2]]
<1>1. \A i \in S : content[i][2] \in Nat /\ content[i] = <<c, content[i][2]>>
  <2>1. \A i \in DOMAIN content : content[i] \in Clients \X Nat
    BY DEF ServerInv
  <2> QED
    BY <2>1
<1>2. ASSUME NEW i \in S PROVE f[i] \in 1 .. m
  BY <1>1 DEF OnFile
<1>3. ASSUME NEW i \in S, NEW j \in S, f[i] = f[j] PROVE i = j
  <2>1. PICK n \in Nat : content[i] = <<c, n>> /\ content[j] = <<c, n>>
    BY <1>1, <1>3
  <2>2. AtFile(c, n, <<"file", i, 0>>) /\ AtFile(c, n, <<"file", j, 0>>)
    BY <2>1 DEF AtFile
  <2>3. <<"file", i, 0>> = <<"file", j, 0>>
    BY <2>2 DEF OneSpot, OneSpotOf, Spot, OnServer
  <2> QED
    BY <2>3
<1>4. ASSUME NEW n \in 1 .. m PROVE \E i \in S : f[i] = n
  <2>1. OnFile(c, n)
    OBVIOUS
  <2>2. PICK i \in DOMAIN content : content[i] = <<c, n>>
    BY <2>1 DEF OnFile
  <2> QED
    BY <2>2
<1>5. IsFiniteSet(S)
  <2>1. IsFiniteSet(DOMAIN content)
    <3>1. Len(content) \in Nat /\ DOMAIN content = 1 .. Len(content)
      BY DEF ServerInv
    <3> QED
      BY <3>1, FS_Interval
  <2> QED
    BY <2>1, FS_Subset
<1>6. f \in Bijection(S, 1 .. m)
  <2>1. f \in [S -> 1 .. m]
    BY <1>2
  <2> HIDE DEF S, f
  <2> QED
    BY <1>3, <1>4, <2>1 DEF Bijection, Injection, Surjection, IsInjective
<1> HIDE DEF S, f
<1>7. Cardinality(1 .. m) = Cardinality(S)
  BY <1>5, <1>6, FS_Bijection DEF ExistsBijection
<1>8. Cardinality(1 .. m) = m
  BY FS_Interval
<1>9. OutputFile!Appended(c) = Cardinality({i \in DOMAIN content : content[i][1] = c})
  BY DEF OutputFile!Appended, OutputFile!Cardinality, Cardinality
<1> QED
  BY <1>7, <1>8, <1>9 DEF S

(* What a client gives.                                                    *)
LEMMA GivenOfClient ==
  ASSUME FileInv, NEW c \in Clients, ClientStep(c)
  PROVE  given' = given \/ \E n \in 1 .. MaxBytes : given' = [given EXCEPT ![c] = @ + n]
<1>1. ASSUME NEW n \in 0 .. MaxBytes, given' = [given EXCEPT ![c] = @ + n]
      PROVE  given' = given \/ \E i \in 1 .. MaxBytes : given' = [given EXCEPT ![c] = @ + i]
  <2>1. CASE n = 0
    <3>1. given[c] + 0 = given[c]
      BY DEF FileInv
    <3> QED
      BY <1>1, <2>1, <3>1 DEF FileInv
  <2>2. CASE n # 0
    <3>1. n \in 1 .. MaxBytes
      BY <2>2, WriteConstants
    <3> QED
      BY <1>1, <3>1
  <2> QED
    BY <2>1, <2>2
<1>2. CASE FillBuffer(c)
  <2> DEFINE n == Smaller(rest[c], Space - buffer[c].cnt)
  <2>1. n \in 0 .. MaxBytes
    BY WriteConstants, FilledType DEF FileInv
  <2>2. given' = [given EXCEPT ![c] = @ + n]
    BY <1>2 DEF FillBuffer
  <2> HIDE DEF n
  <2> QED
    BY <1>1, <2>1, <2>2
<1>3. CASE WriteEnd(c)
  <2>1. rest[c] \in 0 .. MaxBytes
    BY DEF FileInv
  <2> QED
    BY <1>1, <1>3, <2>1 DEF WriteEnd
<1> QED
  BY <1>2, <1>3 DEF ClientStep, OpenFile, OpenEnd, Write, Seek, CloseFile, CloseDrained,
     CloseEnd, fileVars

(* A byte on the file or with a task is not with the client any more.      *)
LEMMA LandedGiven ==
  ASSUME Types, OneSpot, NEW c \in Clients, NEW n \in Nat, Landed(c, n)
  PROVE  n <= given[c]
<1> USE DEF Types
<1>1. PICK p : AtTask(c, n, p) \/ AtFile(c, n, p)
  <2>1. CASE OnFile(c, n)
    BY <2>1 DEF OnFile, AtFile
  <2>2. CASE OnTask(c, n, Len(tasks))
    <3>1. PICK i \in 1 .. Len(tasks) : tasks[i].client = c /\ Carries(tasks[i].chunk, n)
      BY <2>2 DEF OnTask
    <3>2. i \in DOMAIN tasks
      BY DEF ServerInv
    <3>3. AtTask(c, n, <<"task", i, 0>>)
      BY <3>1, <3>2 DEF AtTask
    <3> QED
      BY <3>3
  <2> QED
    BY <2>1, <2>2 DEF Landed
<1>2. p # <<"client", 0, 0>>
  BY <1>1 DEF AtTask, AtFile
<1>3. n <= Mark(c)
  <2>1. ~AtClient(c, n, <<"client", 0, 0>>)
    BY <1>1, <1>2 DEF OneSpot, OneSpotOf, Spot, InPools, OnServer
  <2> QED
    BY <2>1, MarkTypes DEF AtClient
<1>4. Mark(c) <= given[c]
  BY MarkTypes DEF Mark
<1> QED
  BY <1>3, <1>4, MarkTypes

Party == {c \in Clients : home[c] # 0 /\ home[c] = created}

(* Those that opened the file since it was emptied belong to it.           *)
LEMMA PartyLives ==
  ASSUME Types, WholeInv, OrderInv, served.at # "none", NEW c \in Clients
  PROVE  Live(c) <=> c \in Party
BY DEF Live, Party, OrderInv, WholeInv, UsersInv, Types, ServerInv

(* Before ~ServeFile ends, the file has what was given.                    *)
LEMMA NothingMissing ==
  ASSUME FileSafety, WholeInv, OrderInv, served.at = "dying", tasks = <<>>, NEW c \in Party
  PROVE  OutputFile!Appended(c) = given[c]
<1> USE DEF FileSafety, Types
<1>1. c \in Clients /\ TurnSound(c) /\ NumbersSound(c) /\ ~Inside(c) /\ home[c] # 0
  BY DEF Party, WholeInv, TurnsInv, UsersInv, Insiders, NumbersInv
<1>2. app[c] \in {"closing", "closed"} /\ Req(c) = <<>>
  BY <1>1 DEF Inside, FileInv
<1>3. Ordered(c)
  BY <1>1, PartyLives DEF OrderInv, Homed
<1>4. Way(c) = {}
  <2>1. Does(c) \notin {"write", "data"}
    BY <1>1, <1>2, DoesMeans DEF Active
  <2> QED
    BY <1>1, <1>2, <2>1, NoWay
<1>5. Queued(c) = {}
  <2>1. Pending(c) = {}
    BY <1>1, <1>2, NumberTypes DEF NumbersSound
  <2> QED
    BY <2>1 DEF Pending, Queued
<1>6. Mark(c) = given[c] /\ given[c] \in Nat
  BY <1>1, <1>2, MarkTypes DEF Mark
<1>7. ASSUME NEW n \in 1 .. given[c] PROVE OnFile(c, n)
  <2>1. Landed(c, n)
    BY <1>3, <1>4, <1>5, <1>6 DEF Ordered, Carried
  <2> QED
    BY <2>1 DEF Landed, OnTask
<1>8. ASSUME NEW n \in Nat, OnFile(c, n) PROVE n \in 1 .. given[c]
  <2>1. n > 0
    BY <1>8 DEF OnFile, OrderInv
  <2>2. n <= given[c]
    BY <1>1, <1>8, LandedGiven DEF Landed
  <2> QED
    BY <1>6, <2>1, <2>2
<1> QED
  BY <1>1, <1>6, <1>7, <1>8, AppendedUpTo

(* The first task has the bytes that come next.                            *)
LEMMA NextBytes ==
  ASSUME FileSafety, WholeInv, OrderInv, NEW t \in Tasks, t = tasks[1], 1 \in DOMAIN tasks,
         t.chunk.cnt > 0
  PROVE  /\ t.client \in Party /\ OutputFile!Appended(t.client) = t.chunk.from
         /\ t.chunk.cnt \in 1 .. given[t.client] - t.chunk.from
<1> USE DEF FileSafety, Types
<1>1. PICK c, k : c = t.client /\ k = t.chunk
  OBVIOUS
<1>2. c \in Clients /\ k \in Chunks /\ k.from \in Nat /\ k.cnt \in Nat /\ given[c] \in Nat
  <2>1. c \in Clients /\ k \in Chunks
    BY <1>1 DEF Tasks
  <2> QED
    BY <2>1, MarkTypes DEF Chunks
<1>3. Live(c) /\ Ordered(c) /\ served.at # "none"
  BY <1>1, <1>2 DEF OrderInv, Homed, Live
<1>4. \A n : Carries(k, n) => AtTask(c, n, <<"task", 1, 0>>)
  BY <1>1 DEF AtTask
<1>5. ASSUME NEW n \in Nat, Carries(k, n) PROVE ~OnFile(c, n) /\ n <= given[c]
  <2>1. Landed(c, n)
    <3>1. 1 \in 1 .. Len(tasks)
      BY DEF ServerInv
    <3> QED
      BY <1>1, <1>5, <3>1 DEF Landed, OnTask
  <2>2. ASSUME NEW i \in DOMAIN content, content[i] = <<c, n>> PROVE FALSE
    <3>1. AtFile(c, n, <<"file", i, 0>>)
      BY <2>2 DEF AtFile
    <3>2. <<"file", i, 0>> = <<"task", 1, 0>>
      BY <1>2, <1>4, <1>5, <3>1 DEF OneSpot, OneSpotOf, Spot, OnServer
    <3> QED
      BY <3>2
  <2> QED
    BY <1>2, <2>1, <2>2, LandedGiven DEF OnFile
<1>6. ASSUME NEW n \in 1 .. k.from PROVE OnFile(c, n)
  <2>1. OnFile(c, n) \/ OnTask(c, n, 1 - 1)
    BY <1>1, <1>3, <1>6 DEF Ordered
  <2> QED
    BY <2>1 DEF OnTask
<1>7. ASSUME NEW n \in Nat, OnFile(c, n) PROVE n \in 1 .. k.from
  <2>1. PICK i \in DOMAIN content : content[i] = <<c, n>>
    BY <1>7 DEF OnFile
  <2>2. n > 0 /\ \A m \in 1 .. n : OnFile(c, m)
    BY <1>3, <2>1 DEF Ordered, OrderInv
  <2>3. Carries(k, k.from + 1) /\ k.from + 1 \in Nat
    BY <1>1, <1>2 DEF Carries
  <2>4. k.from + 1 \notin 1 .. n
    BY <1>5, <2>2, <2>3
  <2> QED
    BY <1>2, <2>2, <2>4
<1>8. OutputFile!Appended(c) = k.from
  BY <1>2, <1>6, <1>7, AppendedUpTo
<1>9. k.from + k.cnt <= given[c]
  <2>1. Carries(k, k.from + k.cnt) /\ k.from + k.cnt \in Nat
    BY <1>1, <1>2 DEF Carries
  <2> QED
    BY <1>5, <2>1
<1> QED
  BY <1>1, <1>2, <1>3, <1>8, <1>9, PartyLives

(* A task is the next append, or has no bytes.                             *)
LEMMA AppendRefines ==
  ASSUME FileSafety, WholeInv, OrderInv, AppendToFile
  PROVE  \/ content' = content
         \/ \E c \in Clients : OutputFile!AppendNext(c)
<1> USE DEF FileSafety, Types
<1>1. PICK t \in Tasks :
        /\ t = tasks[1] /\ 1 \in DOMAIN tasks /\ t.client \in Clients /\ t.chunk \in Chunks
        /\ t.chunk.from \in Nat /\ t.chunk.cnt \in Nat
        /\ content' = content \o BytesOf(t.client, t.chunk)
  BY AppendEffect
<1>2. UNCHANGED <<app, fileVars, net, handler, created, home>>
  BY AppendFrame DEF netVars
<1>3. CASE t.chunk.cnt = 0
  <2>1. BytesOf(t.client, t.chunk) = <<>>
    BY <1>1, <1>3 DEF BytesOf
  <2> QED
    BY <1>1, <2>1 DEF ServerInv
<1>4. CASE t.chunk.cnt > 0
  <2>1. /\ t.client \in Party /\ OutputFile!Appended(t.client) = t.chunk.from
        /\ t.chunk.cnt \in 1 .. given[t.client] - t.chunk.from
    BY <1>1, <1>4, NextBytes
  <2>2. UNCHANGED <<Counted, Party, given>>
    BY <1>2 DEF Counted, CloseUnderWay, Party, fileVars
  <2>3. OutputFile!Bytes(t.client, t.chunk.from, t.chunk.cnt) = BytesOf(t.client, t.chunk)
    BY DEF OutputFile!Bytes, BytesOf
  <2>4. OutputFile!AppendNext(t.client)
    BY <1>1, <2>1, <2>2, <2>3 DEF OutputFile!AppendNext, Party
  <2> QED
    BY <1>1, <2>4
<1> QED
  BY <1>1, <1>3, <1>4

LEMMA OpenRefines ==
  ASSUME MaxBreaks = 0, FileSafety, WholeInv, OrderInv, Counted = Holders,
         Counted' = Holders', NEW c \in Clients, ServerOpen(c, 0)
  PROVE  OutputFile!Open(c)
<1> USE DEF FileSafety
<1>1. /\ c \notin Counted /\ Counted' = Counted \cup {c}
      /\ Counted = {} <=> served.at = "none"
  BY WholeOfOpen
<1>2. /\ served.at = "open" => /\ served' = [served EXCEPT !.users = @ + 1]
                               /\ UNCHANGED <<created, content>>
      /\ served.at = "none" => /\ created' = created + 1 /\ content' = <<>>
                               /\ served' = [file |-> created + 1, users |-> 1, at |-> "open"]
      /\ home' = [home EXCEPT ![c] = served'.file] /\ served.at \in {"open", "none"}
      /\ UNCHANGED given
  BY DEF ServerOpen, MutexFree, Types, ServerInv, ServerOnly, fileVars
<1>3. /\ created \in Nat /\ home \in [Clients -> Nat]
      /\ served \in [file : Nat, users : Nat, at : {"none", "open", "dying"}]
      /\ \A d \in Clients : home[d] <= created
      /\ served.at # "none" => served.file = created /\ served.file > 0
  BY DEF Types, ServerInv, OrderInv, Homed, WholeInv, UsersInv
<1>4. CASE served.at = "open"
  <2>1. served'.file = created /\ created' = created /\ created > 0
    BY <1>2, <1>3, <1>4
  <2>2. Party' = Party \cup {c}
    BY <1>2, <1>3, <2>1 DEF Party
  <2> QED
    BY <1>1, <1>2, <1>4, <2>2 DEF OutputFile!Open, Party
<1>5. CASE served.at = "none"
  <2>1. served'.file = created' /\ created' = created + 1
    BY <1>2, <1>5
  <2>2. Party' = {c}
    BY <1>2, <1>3, <2>1 DEF Party
  <2> QED
    BY <1>1, <1>2, <1>5, <2>2 DEF OutputFile!Open, Party
<1> QED
  BY <1>2, <1>4, <1>5

(* A client that gives the file up, but is not the last, just leaves; the  *)
(* last one leaves when the file has all its bytes.                        *)
LEMMA CloseRefines ==
  ASSUME MaxBreaks = 0, FileSafety, WholeInv, OrderInv, Counted = Holders,
         Counted' = Holders', NEW c \in Clients, RemoveUser(c, 0) \/ Delete(c, 0)
  PROVE  OutputFile!Close(c) \/ UNCHANGED OutputFile!vars
<1> USE DEF FileSafety
<1>1. UNCHANGED <<home, created, given>>
  BY DEF RemoveUser, Delete, ServerOnly, fileVars
<1>2. CASE RemoveUser(c, 0)
  <2>1. /\ c \in Counted /\ UNCHANGED content
        /\ IF served'.at = "dying" THEN Counted' = Counted
           ELSE Counted' = Counted \ {c} /\ Counted' # {}
    BY <1>2, WholeOfRemove DEF RemoveUser
  <2> QED
    BY <1>1, <2>1 DEF OutputFile!Close, OutputFile!vars
<1>3. CASE Delete(c, 0)
  <2>1. served.at = "dying" /\ Counted = {c} /\ Counted' = {}
    BY <1>3, WholeOfDelete
  <2>2. tasks = <<>> /\ (content' = content \/ content' = <<>>)
    BY <1>3 DEF Delete
  <2>3. \A d \in Party : OutputFile!Appended(d) = given[d]
    BY <2>1, <2>2, NothingMissing
  <2> QED
    BY <1>1, <2>1, <2>2, <2>3 DEF OutputFile!Close, Party
<1> QED
  BY <1>2, <1>3

(* Each step of OutputFile, of the pools and of the server is one that     *)
(* OutputFileSpec allows, or none at all.                                  *)
LEMMA StepRefines ==
  ASSUME MaxBreaks = 0, FileSafety, WholeInv, OrderInv, Counted = Holders,
         Counted' = Holders', [Next]_vars
  PROVE  [OutputFile!Next]_(OutputFile!vars)
<1> USE DEF FileSafety
<1>1. ASSUME UNCHANGED <<Counted, home, created, given, content>>
      PROVE  UNCHANGED OutputFile!vars
  BY <1>1 DEF OutputFile!vars
<1>2. ASSUME NEW c \in Clients, ClientStep(c) \/ PoolStep(c)
      PROVE  OutputFile!Give(c) \/ UNCHANGED OutputFile!vars
  <2>1. UNCHANGED <<home, created, content>> /\ Counted' = Counted
    BY <1>2, Frames, WholeOfClient DEF serverVars
  <2>2. given' = given \/ \E n \in 1 .. MaxBytes : given' = [given EXCEPT ![c] = @ + n]
    BY <1>2, Frames, GivenOfClient DEF Types, fileVars
  <2>3. CASE \E n \in 1 .. MaxBytes : given' = [given EXCEPT ![c] = @ + n]
    BY <2>1, <2>3 DEF OutputFile!Give
  <2> QED
    BY <1>1, <2>1, <2>2, <2>3
<1>3. ASSUME NEW c \in Clients, Break(c) PROVE FALSE
  BY <1>3, OneSocket DEF Break, Types
<1>4. ASSUME NEW c \in Clients, HandlerStep(c, 0)
      PROVE  OutputFile!Open(c) \/ OutputFile!Close(c) \/ UNCHANGED OutputFile!vars
  <2>1. CASE ServerOpen(c, 0)
    BY <2>1, OpenRefines
  <2>2. CASE RemoveUser(c, 0) \/ Delete(c, 0)
    BY <2>2, CloseRefines
  <2>3. CASE Poll(c, 0) \/ ServerOpenAnswer(c, 0) \/ Acknowledge(c, 0) \/ ServerClose(c, 0)
               \/ Lookup(c, 0) \/ WriteData(c, 0)
    <3>1. UNCHANGED <<home, created, content, given>>
      BY <2>3 DEF Poll, ServerOpenAnswer, Acknowledge, ServerClose, Lookup, WriteData,
                  ServerOnly, fileVars
    <3>2. Counted' = Counted
      BY <2>3, WholeOfPoll, WholeOfAnswers, WholeOfWrites
    <3> QED
      BY <1>1, <3>1, <3>2
  <2> QED
    BY <1>4, <2>1, <2>2, <2>3 DEF HandlerStep
<1>5. CASE AppendToFile
  <2>1. UNCHANGED <<Counted, home, created, given>>
    BY <1>5, AppendFrame DEF Counted, CloseUnderWay, fileVars, netVars
  <2> QED
    BY <1>1, <1>5, <2>1, AppendRefines DEF OutputFile!Next
<1>6. CASE UNCHANGED vars
  BY <1>1, <1>6 DEF vars, fileVars, netVars, serverVars, Counted, CloseUnderWay
<1>7. ASSUME NEW c \in Clients, NEW s \in Sockets, HandlerStep(c, s) PROVE HandlerStep(c, 0)
  BY <1>7, OneSocket DEF Types
<1> QED
  BY <1>2, <1>3, <1>4, <1>5, <1>6, <1>7 DEF Next, OutputFile!Next

(* If no socket breaks: what each writer hands over is appended in order,  *)
(* once, and completely before ~ServeFile ends, for any number of writers, *)
(* buffers, chunks and threads that compress.                              *)
THEOREM WritesInOrder ==
  ASSUME MaxBreaks = 0
  PROVE  Spec => AppendsInOrder
<1>1. Init => WholeInv /\ OrderInv
  BY InitWhole, InitOrder
<1>2. FileSafety /\ WholeInv /\ OrderInv /\ [Next]_vars => WholeInv' /\ OrderInv'
  BY WholeStep, OrderStep
<1>3. Init => OutputFile!Init
  BY DEF Init, OutputFile!Init, Counted
<1>4. FileSafety /\ WholeInv => Counted = Holders
  BY CountedHold
<1>5. FileSafety /\ WholeInv /\ OrderInv /\ Counted = Holders /\ (Counted = Holders)'
        /\ [Next]_vars => [OutputFile!Next]_(OutputFile!vars)
  BY StepRefines
<1> QED
  BY <1>1, <1>2, <1>3, <1>4, <1>5, FileSafetyAlways, PTL
     DEF Spec, AppendsInOrder, OutputFile!Spec
===============================================================================
