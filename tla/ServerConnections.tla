--------------------------- MODULE ServerConnections ---------------------------
(***************************************************************************)
(* The server's connections: main accepts sockets, a thread for each of    *)
(* them puts it into the Connection of the client's address and port, and  *)
(* pollConnection serves the sockets of a connection, one turn at a time,  *)
(* through a task that queues itself again.                                *)
(*                                                                         *)
(* A Connection is counted by Trackable: one user for each socket added.   *)
(* Its sockets are the slots of _pfds; a slot whose socket was closed is   *)
(* used again.  poll marks the slots with an event and pollMsg visits them *)
(* one by one, over several calls, as _inMsgs says how many are left.      *)
(*                                                                         *)
(* What a message asks for is left out, but not how many answers it takes  *)
(* and that any of them may fail, which closes the socket.  It is chosen   *)
(* when the server reads it: nothing depends on it before.                 *)
(***************************************************************************)
EXTENDS Integers, FiniteSets, Sequences

CONSTANTS Sockets,      \* the sockets that clients may connect
          Keys, KeyOf,  \* address and port, of a socket
          MaxMsgs,      \* messages that wait on a socket (a bound)
          MaxBlocks,    \* blocks that one message asks for (a bound)
          MaxBroken,    \* clients that hang up (a bound)
          MaxFailures,  \* calls of poll that fail (a bound)
          NoSocket      \* -1

ASSUME ConnectionConstants ==
  /\ IsFiniteSet(Sockets) /\ KeyOf \in [Sockets -> Keys]
  /\ MaxMsgs \in Nat /\ MaxBlocks \in Nat \ {0}
  /\ MaxBroken \in Nat /\ MaxFailures \in Nat
  /\ NoSocket \notin Sockets

VARIABLES
  alive, main,   \* alive, and where main is
  socket,        \* what became of a socket
  inbox,         \* how many messages arrived and wait, on a socket
  broken,        \* sockets with an error, or hung up, on the client's side
  adder,         \* the task that adds a socket
  active,        \* Trackable's _active: the Connection of a key, or 0
  conn,          \* the Connections: [alive, users, slots, inMsgs, next]
  poller,        \* their tasks: [at, socket, closed, blocks]
  failures       \* a bound

clientVars == <<inbox, broken>>
mainVars   == <<alive, main>>
vars == <<mainVars, socket, clientVars, adder, active, conn, poller, failures>>

(* Connections are numbered as they are made, at most one for each socket. *)
Conns == 1 .. Cardinality(Sockets)

Events == {"none", "in", "error"}
Slot(s) == [socket |-> s, event |-> "none"]

NotMade == [alive |-> FALSE, users |-> 0, slots |-> <<>>, inMsgs |-> -1, next |-> 0]
NotRun  == [at |-> "none", socket |-> NoSocket, closed |-> 0, blocks |-> 0]

Init ==
  /\ alive = TRUE /\ main = "accept"
  /\ socket = [s \in Sockets |-> "new"]
  /\ inbox = [s \in Sockets |-> 0]
  /\ broken = {}
  /\ adder = [s \in Sockets |-> "none"]
  /\ active = [k \in Keys |-> 0]
  /\ conn = [i \in Conns |-> NotMade] /\ poller = [i \in Conns |-> NotRun]
  /\ failures = 0

(* Clients.                                                                *)
Arrive(s) ==
  /\ socket[s] = "open" /\ s \notin broken /\ inbox[s] < MaxMsgs
  /\ inbox' = [inbox EXCEPT ![s] = @ + 1]
  /\ UNCHANGED <<mainVars, socket, broken, adder, active, conn, poller, failures>>

HangUp(s) ==
  /\ socket[s] = "open" /\ s \notin broken /\ Cardinality(broken) < MaxBroken
  /\ broken' = broken \cup {s}
  /\ UNCHANGED <<mainVars, socket, inbox, adder, active, conn, poller, failures>>

-------------------------------------------------------------------------------
(* main.                                                                   *)
Accept(s) ==
  /\ main = "accept" /\ alive
  /\ socket[s] = "new" /\ socket' = [socket EXCEPT ![s] = "open"]
  /\ adder' = [adder EXCEPT ![s] = "queued"]
  /\ UNCHANGED <<mainVars, clientVars, active, conn, poller, failures>>

StopAccepting ==
  /\ main = "accept" /\ ~alive /\ main' = "terminate"
  /\ UNCHANGED <<alive, socket, clientVars, adder, active, conn, poller, failures>>

Running == {i \in Conns : poller[i].at \notin {"none", "queued", "gone"}}

(* terminate(true) joined the threads: a task is at most left in the queue.*)
(* closeAllConnections deletes the connections and closes their sockets.   *)
CloseAllConnections ==
  /\ main = "terminate" /\ main' = "end"
  /\ Running = {} /\ \A s \in Sockets : adder[s] \in {"none", "queued", "done"}
  /\ LET gone == {i \in Conns : \E k \in Keys : active[k] = i}
     IN  /\ conn' = [i \in Conns |-> IF i \in gone THEN [conn[i] EXCEPT !.alive = FALSE]
                                                   ELSE conn[i]]
         /\ socket' = [s \in Sockets |->
              IF \E i \in gone : \E j \in DOMAIN conn[i].slots :
                   conn[i].slots[j].socket = s
              THEN "closed" ELSE socket[s]]
  /\ UNCHANGED <<alive, clientVars, adder, active, poller, failures>>

-------------------------------------------------------------------------------
(* addNewHostConnection, under Trackable's lock, which is kept while the   *)
(* lock of a connection that exists already is waited for.                 *)
MutexFree == \A s \in Sockets : adder[s] # "waiting"

Locked(i) == poller[i].at \in {"poll", "scan", "serve", "send", "ping"}

(* The Connections that are still to be made.                              *)
Unmade == {i \in Conns : poller[i].at = "none"}

CreateConnection(s) ==
  /\ main # "end" /\ adder[s] = "queued" /\ MutexFree
  /\ active[KeyOf[s]] = 0
  /\ \E i \in Unmade :
       /\ \A j \in Unmade : i <= j
       /\ active' = [active EXCEPT ![KeyOf[s]] = i]
       /\ conn' = [conn EXCEPT ![i] = [NotMade EXCEPT
                     !.alive = TRUE, !.users = 1, !.slots = <<Slot(s)>>]]
       /\ poller' = [poller EXCEPT ![i].at = "queued"]
  /\ adder' = [adder EXCEPT ![s] = "done"]
  /\ UNCHANGED <<mainVars, socket, clientVars, failures>>

FindConnection(s) ==
  /\ main # "end" /\ adder[s] = "queued" /\ MutexFree
  /\ active[KeyOf[s]] # 0
  /\ adder' = [adder EXCEPT ![s] = "waiting"]
  /\ UNCHANGED <<mainVars, socket, clientVars, active, conn, poller, failures>>

(* As if a free slot was not looked for but the first one taken.           *)
WithSocketMutant(slots, s) == [slots EXCEPT ![1] = Slot(s)]

(* addSocket: into the first free slot, or a new one.                      *)
WithSocket(slots, s) ==
  LET free == {j \in DOMAIN slots : slots[j].socket = NoSocket}
  IN  IF free = {} THEN Append(slots, Slot(s))
      ELSE [slots EXCEPT ![CHOOSE j \in free : \A l \in free : j <= l] = Slot(s)]

(* As if a socket more did not count as a user.                            *)
AddSocketMutant(s) ==
  LET i == active[KeyOf[s]]
  IN  /\ adder[s] = "waiting" /\ adder' = [adder EXCEPT ![s] = "done"]
      /\ ~Locked(i)
      /\ conn' = [conn EXCEPT ![i].slots = WithSocket(@, s)]
      /\ UNCHANGED <<mainVars, socket, clientVars, active, poller, failures>>

AddSocket(s) ==
  LET i == active[KeyOf[s]]
  IN  /\ adder[s] = "waiting" /\ adder' = [adder EXCEPT ![s] = "done"]
      /\ ~Locked(i)
      /\ conn' = [conn EXCEPT ![i].slots = WithSocket(@, s), ![i].users = @ + 1]
      /\ UNCHANGED <<mainVars, socket, clientVars, active, poller, failures>>

-------------------------------------------------------------------------------
(* pollConnection.                                                         *)

OnlyPolling == UNCHANGED <<mainVars, clientVars, adder, active, failures>>

(* As if the task went on when the server stops.                           *)
BeginMutant(i) ==
  /\ main # "end" /\ poller[i].at = "queued"
  /\ poller' = [poller EXCEPT ![i] = [NotRun EXCEPT !.at = "poll"]]
  /\ OnlyPolling /\ UNCHANGED <<socket, conn>>

(* The task's turn: nothing more is done once the server stops.            *)
Begin(i) ==
  /\ main # "end" /\ poller[i].at = "queued"
  /\ poller' = [poller EXCEPT ![i] =
       [NotRun EXCEPT !.at = IF alive THEN "poll" ELSE "gone"]]
  /\ OnlyPolling /\ UNCHANGED <<socket, conn>>

EventOf(s) == IF s = NoSocket THEN "none"
              ELSE IF s \in broken THEN "error"
              ELSE IF inbox[s] > 0 THEN "in" ELSE "none"

(* As if each call of pollMsg asked again, and began with the first slot.  *)
AskForEventsMutant(i) ==
  /\ poller[i].at = "poll" /\ poller' = [poller EXCEPT ![i].at = "scan"]
  /\ LET marked == [j \in DOMAIN conn[i].slots |->
           [conn[i].slots[j] EXCEPT !.event = EventOf(conn[i].slots[j].socket)]]
     IN  conn' = [conn EXCEPT ![i].slots = marked, ![i].next = 0,
            ![i].inMsgs = Cardinality({j \in DOMAIN marked :
                                        marked[j].event # "none"})]
  /\ OnlyPolling /\ UNCHANGED socket

(* pollMsg asks for events only when all those it knew of were visited.    *)
AskForEvents(i) ==
  /\ poller[i].at = "poll" /\ poller' = [poller EXCEPT ![i].at = "scan"]
  /\ IF conn[i].inMsgs >= 0 THEN UNCHANGED conn
     ELSE LET marked == [j \in DOMAIN conn[i].slots |->
                [conn[i].slots[j] EXCEPT !.event = EventOf(conn[i].slots[j].socket)]]
          IN  conn' = [conn EXCEPT ![i].slots = marked,
                 ![i].inMsgs = Cardinality({j \in DOMAIN marked :
                                             marked[j].event # "none"})]
  /\ OnlyPolling /\ UNCHANGED socket

(* poll itself fails: all sockets are closed.                              *)
PollFails(i) ==
  /\ failures < MaxFailures /\ failures' = failures + 1
  /\ poller[i].at = "poll" /\ conn[i].inMsgs < 0
  /\ LET open == {conn[i].slots[j].socket : j \in DOMAIN conn[i].slots} \ {NoSocket}
     IN  /\ socket' = [s \in Sockets |-> IF s \in open THEN "closed" ELSE socket[s]]
         /\ poller' = [poller EXCEPT ![i].at = "scan",
                                     ![i].closed = @ + Cardinality(open)]
  /\ conn' = [conn EXCEPT ![i].inMsgs = 0,
       ![i].slots = [j \in DOMAIN @ |-> Slot(NoSocket)]]
  /\ UNCHANGED <<mainVars, clientVars, adder, active>>

(* closeSocket, of slot j of connection i.                                 *)
Cleared(i, j) == [conn[i].slots EXCEPT ![j] = Slot(NoSocket)]

(* As if _inMsgs only counted the messages.                                *)
VisitMutant(i) ==
  LET j == 1 + (conn[i].next % Len(conn[i].slots))
      v == conn[i].slots[j]
  IN  /\ poller[i].at = "scan" /\ conn[i].inMsgs > 0
      /\ CASE v.event = "none" ->
                /\ conn' = [conn EXCEPT ![i].next = j]
                /\ UNCHANGED <<socket, poller>>
           [] v.event = "in" ->
                /\ conn' = [conn EXCEPT ![i].next = j, ![i].inMsgs = @ - 1,
                                        ![i].slots[j].event = "none"]
                /\ poller' = [poller EXCEPT ![i].at = "serve", ![i].socket = v.socket]
                /\ UNCHANGED socket
           [] v.event = "error" ->
                /\ conn' = [conn EXCEPT ![i].next = j, ![i].slots = Cleared(i, j)]
                /\ poller' = [poller EXCEPT ![i].closed = @ + 1]
                /\ socket' = [socket EXCEPT ![v.socket] = "closed"]
      /\ OnlyPolling

(* The next slot is visited.  A socket with a message is served first, one *)
(* with an error is closed.  next is kept modulo the number of slots.      *)
Visit(i) ==
  LET j == 1 + (conn[i].next % Len(conn[i].slots))
      v == conn[i].slots[j]
  IN  /\ poller[i].at = "scan" /\ conn[i].inMsgs > 0
      /\ CASE v.event = "none" ->
                /\ conn' = [conn EXCEPT ![i].next = j]
                /\ UNCHANGED <<socket, poller>>
           [] v.event = "in" ->
                /\ conn' = [conn EXCEPT ![i].next = j, ![i].inMsgs = @ - 1,
                                        ![i].slots[j].event = "none"]
                /\ poller' = [poller EXCEPT ![i].at = "serve", ![i].socket = v.socket]
                /\ UNCHANGED socket
           [] v.event = "error" ->
                /\ conn' = [conn EXCEPT ![i].next = j, ![i].inMsgs = @ - 1,
                                        ![i].slots = Cleared(i, j)]
                /\ poller' = [poller EXCEPT ![i].closed = @ + 1]
                /\ socket' = [socket EXCEPT ![v.socket] = "closed"]
      /\ OnlyPolling

(* closeSocket of the socket that is being served, if it is still open.    *)
CloseServed(i, at) ==
  LET s == poller[i].socket
      mine == {j \in DOMAIN conn[i].slots : conn[i].slots[j].socket = s}
  IN  IF s = NoSocket
      THEN poller' = [poller EXCEPT ![i].at = at] /\ UNCHANGED <<conn, socket>>
      ELSE /\ poller' = [poller EXCEPT ![i].at = at, ![i].socket = NoSocket,
                                       ![i].closed = @ + 1]
           /\ conn' = [conn EXCEPT ![i].slots = Cleared(i, CHOOSE j \in mine : TRUE)]
           /\ socket' = [socket EXCEPT ![s] = "closed"]

(* A message is received, or nothing can be received any more.  It asks    *)
(* for some blocks, or for one answer; or it is a ping, or tells the       *)
(* server to stop.  A message to close, or one that makes no sense, closes *)
(* the socket.                                                             *)
Serve(i) ==
  LET s == poller[i].socket
  IN  /\ poller[i].at = "serve"
      /\ \/ /\ s \in broken /\ CloseServed(i, "poll")
            /\ UNCHANGED <<alive, inbox>>
         \/ /\ inbox[s] > 0 /\ inbox' = [inbox EXCEPT ![s] = @ - 1]
            /\ \/ /\ \E n \in 1 .. MaxBlocks :
                     poller' = [poller EXCEPT ![i].at = "send", ![i].blocks = n]
                  /\ UNCHANGED <<alive, conn, socket>>
               \/ /\ poller' = [poller EXCEPT ![i].at = "ping"]
                  /\ UNCHANGED <<alive, conn, socket>>
               \/ CloseServed(i, "poll") /\ UNCHANGED alive
               \/ /\ alive' = FALSE /\ poller' = [poller EXCEPT ![i].at = "poll"]
                  /\ UNCHANGED <<conn, socket>>
      /\ UNCHANGED <<main, broken, adder, active, failures>>

(* As if the handler went on with the next block after a failure.          *)
SendAnswerMutant(i) ==
  /\ poller[i].at = "send"
  /\ \/ CloseServed(i, "send")
     \/ /\ poller[i].socket \notin broken
        /\ poller' = [poller EXCEPT ![i].blocks = @ - 1,
             ![i].at = IF poller[i].blocks = 1 THEN "poll" ELSE "send"]
        /\ UNCHANGED <<conn, socket>>
  /\ OnlyPolling

(* The answers, each of which may fail; the first that does closes the     *)
(* socket and ends the handler.                                            *)
SendAnswer(i) ==
  /\ poller[i].at = "send" /\ poller[i].socket # NoSocket
  /\ \/ CloseServed(i, "poll")
     \/ /\ poller[i].socket \notin broken
        /\ poller' = [poller EXCEPT ![i].blocks = @ - 1,
             ![i].at = IF poller[i].blocks = 1 THEN "poll" ELSE "send"]
        /\ UNCHANGED <<conn, socket>>
  /\ OnlyPolling

(* A ping is answered, and its case falls through to closeSocket.          *)
AnswerPing(i) ==
  /\ poller[i].at = "ping"
  /\ CloseServed(i, "poll")
  /\ OnlyPolling

(* As if the task was not queued again after a socket was closed.          *)
UnlockMutant(i) ==
  /\ poller[i].at = "scan" /\ conn[i].inMsgs = 0
  /\ conn' = [conn EXCEPT ![i].inMsgs = -1]
  /\ poller' = [poller EXCEPT ![i].at = IF poller[i].closed > 0 THEN "gone"
                                                              ELSE "queued"]
  /\ OnlyPolling /\ UNCHANGED socket

(* pollMsg returned 0: the lock is given back.                             *)
Unlock(i) ==
  /\ poller[i].at = "scan" /\ conn[i].inMsgs = 0
  /\ conn' = [conn EXCEPT ![i].inMsgs = -1]
  /\ poller' = [poller EXCEPT ![i].at = IF poller[i].closed > 0 THEN "remove"
                                                              ELSE "queued"]
  /\ OnlyPolling /\ UNCHANGED socket

(* As if all the sockets that were closed were taken off twice.            *)
RemoveConnectionMutant(i) ==
  /\ poller[i].at = "remove" /\ MutexFree
  /\ poller' = [poller EXCEPT ![i].at = "queued"]
  /\ conn' = [conn EXCEPT ![i].users = @ - 2 * poller[i].closed]
  /\ UNCHANGED <<mainVars, clientVars, adder, failures, active, socket>>

(* removeConnection takes one user off, however many sockets were closed   *)
(* (its argument dec is not used), and deletes the Connection if it was    *)
(* the last, or queues the task again.                                     *)
RemoveConnection(i) ==
  LET open == {conn[i].slots[j].socket : j \in DOMAIN conn[i].slots} \ {NoSocket}
      last == conn[i].users = 1
  IN  /\ poller[i].at = "remove" /\ MutexFree
      /\ poller' = [poller EXCEPT ![i].at = IF last THEN "gone" ELSE "queued"]
      /\ conn' = [conn EXCEPT ![i].users = @ - 1, ![i].alive = ~last]
      /\ IF last THEN /\ active' = [k \in Keys |-> IF active[k] = i THEN 0
                                                    ELSE active[k]]
                      /\ socket' = [s \in Sockets |-> IF s \in open THEN "closed"
                                                       ELSE socket[s]]
                 ELSE UNCHANGED <<active, socket>>
      /\ UNCHANGED <<mainVars, clientVars, adder, failures>>

-------------------------------------------------------------------------------
Adding(s) == CreateConnection(s) \/ FindConnection(s) \/ AddSocket(s)

Polling(i) ==
  \/ Begin(i) \/ AskForEvents(i) \/ PollFails(i) \/ Visit(i) \/ Serve(i)
  \/ SendAnswer(i) \/ AnswerPing(i) \/ Unlock(i) \/ RemoveConnection(i)

Next ==
  \/ \E s \in Sockets : Arrive(s) \/ HangUp(s) \/ Accept(s) \/ Adding(s)
  \/ \E i \in Conns : Polling(i)
  \/ StopAccepting \/ CloseAllConnections

Spec == Init /\ [][Next]_vars

(* Every task gets its turns: main adds a thread for each socket.  The     *)
(* lock of a connection is free again and again between two turns of its   *)
(* task, and is then given to whoever waits for it, at last.               *)
Fairness ==
  /\ WF_vars(StopAccepting) /\ WF_vars(CloseAllConnections)
  /\ \A s \in Sockets : /\ WF_vars(CreateConnection(s) \/ FindConnection(s))
                        /\ SF_vars(AddSocket(s))
  /\ \A i \in Conns : WF_vars(Polling(i) /\ ~PollFails(i))

FairSpec == Spec /\ Fairness

-------------------------------------------------------------------------------
(* Every variable has its type; _users is unsigned.                        *)
TypeOK ==
  /\ alive \in BOOLEAN /\ main \in {"accept", "terminate", "end"}
  /\ socket \in [Sockets -> {"new", "open", "closed"}]
  /\ broken \subseteq Sockets
  /\ inbox \in [Sockets -> 0 .. MaxMsgs]
  /\ adder \in [Sockets -> {"none", "queued", "waiting", "done"}]
  /\ active \in [Keys -> {0} \cup Conns]
  /\ \A i \in Conns :
       /\ conn[i].alive \in BOOLEAN /\ conn[i].users \in Nat
       /\ conn[i].slots \in Seq([socket : Sockets \cup {NoSocket}, event : Events])
       /\ conn[i].inMsgs \in -1 .. Cardinality(Sockets) /\ conn[i].next \in Nat
       /\ poller[i].closed \in Nat /\ poller[i].blocks \in 0 .. MaxBlocks

(* _inMsgs is the number of slots that are marked, over all calls and      *)
(* closings: pollMsg would spin for ever under the lock with one too many, *)
(* and a message would wait for the next poll with one too few.            *)
EventsCounted ==
  \A i \in Conns :
    Cardinality({j \in DOMAIN conn[i].slots : conn[i].slots[j].event # "none"}) =
      IF conn[i].inMsgs > 0 THEN conn[i].inMsgs ELSE 0

(* A Connection is polled by a task as long as it lives and the server     *)
(* runs, and no task works with a Connection that was deleted.             *)
PolledWhileAlive ==
  \A i \in Conns :
    /\ i \in Running => conn[i].alive
    /\ alive /\ conn[i].alive => poller[i].at \notin {"none", "gone"}

(* An open socket that was added is in one slot of one living Connection,  *)
(* its client's: no message waits where nobody polls.                      *)
Holding(s) == {p \in Conns \X Conns : /\ p[2] \in DOMAIN conn[p[1]].slots
                                      /\ conn[p[1]].slots[p[2]].socket = s}
SocketsPolled ==
  \A s \in Sockets :
    socket[s] = "open" /\ adder[s] = "done" =>
      \E i, j \in Conns : Holding(s) = {<<i, j>>} /\ active[KeyOf[s]] = i

(* A Connection has at least as many users as open sockets, so that it is  *)
(* not deleted under one of them.                                          *)
UsersCoverSockets ==
  \A i \in Conns : conn[i].alive =>
    Cardinality({j \in DOMAIN conn[i].slots : conn[i].slots[j].socket # NoSocket})
      <= conn[i].users

(* Nothing is sent when the socket was closed by the answer before it:     *)
(* sendMsg raises a signal then.                                           *)
SendsToOpenSocket ==
  \A i \in Conns : poller[i].at \in {"send", "ping"} => poller[i].socket # NoSocket

(* A message that arrived is served or its socket closed, even if the      *)
(* other sockets of the connection are never quiet.                        *)
Served(s) == \E i \in Conns : poller[i].at = "serve" /\ poller[i].socket = s
MessagesServed ==
  \A s \in Sockets : inbox[s] > 0 ~> Served(s) \/ socket[s] = "closed" \/ ~alive

(* A server that was told to stop does, whatever its connections do.       *)
ServerStops == ~alive ~> main = "end"

(* "Check and see how many connections were closed inside connection       *)
(* class": a Connection without sockets, and nobody adding one, is deleted.*)
EmptyConnectionsGo ==
  \A i \in Conns :
    conn[i].alive /\ poller[i].at = "queued"
      => \E j \in DOMAIN conn[i].slots : conn[i].slots[j].socket # NoSocket
===============================================================================
