----------------------------- MODULE ConnectionPool -----------------------------
(***************************************************************************)
(* The client's connections: the ConnectionPool of each file, the sockets  *)
(* of each server's Connection, and the transfer threads that run the      *)
(* tasks of NetworkCache::readBlock.                                       *)
(*                                                                         *)
(* A pool is filled by openFileOnAllServers: one detached thread per server*)
(* opens the file there and pushes the connection once per socket.  A      *)
(* transfer task pops an entry, borrows a socket of its connection         *)
(* (Connection::lock), requests the block and gives both back; after a     *)
(* failure it pops another entry before it gives the first one back.       *)
(* When the process ends every pool closes its file on all servers.        *)
(*                                                                         *)
(* The mutexes of the pool and of the connection make their critical       *)
(* sections single steps; a condition variable is a set of waiting actors. *)
(* Which entry popConnection prefers (by measured rates) is left open, and *)
(* so is which socket the queue yields.  restartSocket replaces a broken   *)
(* socket in the hands of its user and is part of a failed request.        *)
(***************************************************************************)
EXTENDS Naturals, FiniteSets

CONSTANTS Threads,     \* the threads of the transfer pool
          Files, Servers,
          Sockets, serverOf,  \* the client's sockets and their servers
          Openers, fileOf,    \* calls of openFileOnAllServers and their files
          Sizes,       \* the sizes a server may report for a file
          MaxRetry,    \* 10 in NetworkCache::readBlock
          None

OpenTasks  == Openers \X Servers
CloseTasks == Files \X Servers
Actors     == Threads \cup OpenTasks \cup CloseTasks

(* A connection without a socket is not made (addNewClientConnection).     *)
ASSUME PoolConstants ==
  /\ IsFiniteSet(Threads) /\ IsFiniteSet(Openers) /\ IsFiniteSet(Servers)
  /\ IsFiniteSet(Sockets) /\ IsFiniteSet(Files)
  /\ serverOf \in [Sockets -> Servers]
  /\ \A s \in Servers : \E x \in Sockets : serverOf[x] = s
  /\ fileOf \in [Openers -> Files]
  /\ Sizes \subseteq Nat \ {0}
  /\ MaxRetry \in Nat
  /\ Openers \cap Files = {}
  /\ Threads \cap (OpenTasks \cup CloseTasks) = {}

(* An entry of _mq is the connection to a server.  A task pushes one for   *)
(* every socket; they are told apart by the call and that socket.          *)
Entries        == Openers \X Sockets
EntryFile(e)   == fileOf[e[1]]
EntryServer(e) == serverOf[e[2]]

ASSUME NoneIsNothing == None \notin Entries \cup Sockets \cup Files

VARIABLES pc,         \* where an actor is
          caller,     \* where a caller of openFileOnAllServers is
          result,     \* and what it returned
          mq,         \* _mq of the pools: the entries that are not borrowed
          joined,     \* the entries that open tasks have pushed so far
          file,       \* the file of a thread's task
          sev, old,   \* its sev and oldSev
          retryCnt,
          sock,       \* _tlSocket of an actor
          sockets,    \* _sockets of the connections
          answer,     \* the size an open task was told (0: it failed), or
                      \* whether a thread's request succeeded (not 0)
          requested,  \* _servers_requested of the pools
          valid,      \* _valid_server
          fileSize,   \* _fileSize
          phase       \* how far the destructor of a pool is

poolVars   == <<mq, file, sev, old, retryCnt>>
socketVars == <<sock, sockets>>
openVars   == <<joined, caller, result, requested, valid, fileSize>>
vars == <<pc, poolVars, socketVars, answer, openVars, phase>>

Locking    == {"lock", "wait", "request", "notify"}
ThreadPCs  == Locking \cup {"none", "pop", "decide", "repop", "pushOld"}
OpenPCs    == Locking \cup {"none", "check", "setSize", "join", "dec", "end"}
ClosePCs   == Locking \cup {"none", "popOne", "end"}

ServerOf(a) == IF a \in Threads THEN EntryServer(sev[a]) ELSE a[2]

PoolOf(f) == {e \in mq : EntryFile(e) = f}

Goto(a, from, to) == pc[a] = from /\ pc' = [pc EXCEPT ![a] = to]

(* The process runs; its pools are deleted when it ends.                   *)
Running == \A f \in Files : phase[f] = "live"

-------------------------------------------------------------------------------
(* Connection::lock and unlock on the client.                              *)

(* The queue has a socket, and it becomes the actor's _tlSocket.           *)
TakeSocket(a) ==
  /\ Goto(a, "lock", "request")
  /\ \E x \in sockets : /\ serverOf[x] = ServerOf(a)
                        /\ sock' = [sock EXCEPT ![a] = x]
                        /\ sockets' = sockets \ {x}
  /\ UNCHANGED <<poolVars, answer, openVars, phase>>

(* The queue is empty: wait on the condition variable.                     *)
WaitForSocket(a) ==
  /\ Goto(a, "lock", "wait")
  /\ \A x \in sockets : serverOf[x] # ServerOf(a)
  /\ UNCHANGED <<poolVars, socketVars, answer, openVars, phase>>

(* A spurious wakeup; the loop in lock looks at the queue again.           *)
WakeSpuriously(a) ==
  /\ Goto(a, "wait", "lock")
  /\ UNCHANGED <<poolVars, socketVars, answer, openVars, phase>>

(* What the messages on the socket bring: the block (1) or a failure (0),  *)
(* the size of the file or a failure, the acknowledgement of the close.    *)
Answers(a) == {0} \cup (IF a \in OpenTasks THEN Sizes ELSE {1})

(* Mutant: unlock forgets to clear _tlSocket.                              *)
ReturnSocketMutant(a) ==
  /\ Goto(a, "request", "notify")
  /\ \E d \in Answers(a) : answer' = [answer EXCEPT ![a] = d]
  /\ sockets' = sockets \cup {sock[a]}
  /\ UNCHANGED <<poolVars, sock, openVars, phase>>

(* The request is over and the socket goes back, whatever became of it ... *)
ReturnSocket(a) ==
  /\ Goto(a, "request", "notify")
  /\ \E d \in Answers(a) : answer' = [answer EXCEPT ![a] = d]
  /\ sockets' = sockets \cup {sock[a]}
  /\ sock' = [sock EXCEPT ![a] = None]
  /\ UNCHANGED <<poolVars, openVars, phase>>

Waiting(s) == {a \in Actors : pc[a] = "wait" /\ ServerOf(a) = s}

AfterUnlock(a) == IF a \in Threads THEN "decide"
                  ELSE IF a \in OpenTasks THEN "check" ELSE "popOne"

(* Mutant: nobody is notified.                                             *)
NotifyMutant(a) ==
  /\ Goto(a, "notify", AfterUnlock(a))
  /\ UNCHANGED <<poolVars, socketVars, answer, openVars, phase>>

(* ... and then, without the mutex, notify_one.                            *)
Notify(a) ==
  /\ pc[a] = "notify"
  /\ \/ \E w \in Waiting(ServerOf(a)) :
           pc' = [pc EXCEPT ![a] = AfterUnlock(a), ![w] = "lock"]
     \/ /\ Waiting(ServerOf(a)) = {}
        /\ pc' = [pc EXCEPT ![a] = AfterUnlock(a)]
  /\ UNCHANGED <<poolVars, socketVars, answer, openVars, phase>>

UseSocket(a) == TakeSocket(a) \/ WaitForSocket(a) \/ ReturnSocket(a) \/ Notify(a)

-------------------------------------------------------------------------------
(* The task of NetworkCache::readBlock, for a file that was opened.        *)
StartTransfer(t, f) ==
  /\ Running
  /\ \E o \in Openers : fileOf[o] = f /\ caller[o] = "returned" /\ result[o] # 0
  /\ Goto(t, "none", "pop")
  /\ file' = [file EXCEPT ![t] = f]
  /\ retryCnt' = [retryCnt EXCEPT ![t] = 0]
  /\ UNCHANGED <<mq, sev, old, socketVars, answer, openVars, phase>>

(* The loop around popConnection, before the first try and between two.    *)
Pop(t) ==
  /\ \/ Goto(t, "pop", "lock")
     \/ Goto(t, "repop", "pushOld")
  /\ \E e \in PoolOf(file[t]) : /\ sev' = [sev EXCEPT ![t] = e]
                                /\ mq' = mq \ {e}
  /\ UNCHANGED <<file, old, retryCnt, socketVars, answer, openVars, phase>>

(* Mutant: one retry too many.                                             *)
RetryMutant(t) ==
  /\ answer[t] = 0 /\ retryCnt[t] <= MaxRetry
  /\ Goto(t, "decide", "repop")
  /\ old' = [old EXCEPT ![t] = sev[t]]
  /\ sev' = [sev EXCEPT ![t] = None]
  /\ UNCHANGED <<mq, file, retryCnt, socketVars, answer, openVars, phase>>

(* The request failed and there are tries left: oldSev = sev, sev = NULL.  *)
Retry(t) ==
  /\ answer[t] = 0 /\ retryCnt[t] < MaxRetry
  /\ Goto(t, "decide", "repop")
  /\ old' = [old EXCEPT ![t] = sev[t]]
  /\ sev' = [sev EXCEPT ![t] = None]
  /\ UNCHANGED <<mq, file, retryCnt, socketVars, answer, openVars, phase>>

(* Mutant: the retry drops the failed connection.                          *)
PushOldMutant(t) ==
  /\ Goto(t, "pushOld", "lock")
  /\ old' = [old EXCEPT ![t] = None]
  /\ retryCnt' = [retryCnt EXCEPT ![t] = @ + 1]
  /\ UNCHANGED <<mq, file, sev, socketVars, answer, openVars, phase>>

(* Mutant: the retries are not counted.                                    *)
PushOldUncounted(t) ==
  /\ Goto(t, "pushOld", "lock")
  /\ mq' = mq \cup {old[t]}
  /\ old' = [old EXCEPT ![t] = None]
  /\ UNCHANGED <<file, sev, retryCnt, socketVars, answer, openVars, phase>>

PushOld(t) ==
  /\ Goto(t, "pushOld", "lock")
  /\ mq' = mq \cup {old[t]}
  /\ old' = [old EXCEPT ![t] = None]
  /\ retryCnt' = [retryCnt EXCEPT ![t] = @ + 1]
  /\ UNCHANGED <<file, sev, socketVars, answer, openVars, phase>>

(* It succeeded, or that was the last try: the connection goes back.       *)
Push(t) ==
  /\ answer[t] # 0 \/ retryCnt[t] = MaxRetry
  /\ Goto(t, "decide", "none")
  /\ mq' = mq \cup {sev[t]}
  /\ sev' = [sev EXCEPT ![t] = None]
  /\ file' = [file EXCEPT ![t] = None]
  /\ UNCHANGED <<old, retryCnt, socketVars, answer, openVars, phase>>

TransferStep(t) == Pop(t) \/ Retry(t) \/ PushOld(t) \/ Push(t)

-------------------------------------------------------------------------------
(* openFileOnAllServers: nothing to do if a server has the file already.   *)
CallOpen(o) ==
  /\ Running
  /\ caller[o] = "none"
  /\ caller' = [caller EXCEPT ![o] = IF valid[fileOf[o]] THEN "return" ELSE "spawn"]
  /\ UNCHANGED <<pc, poolVars, socketVars, answer, joined, result, requested, valid, fileSize, phase>>

(* Mutant: the task is started uncounted.                                  *)
SpawnMutant(o, s) ==
  /\ caller[o] = "spawn"
  /\ Goto(<<o, s>>, "none", "lock")
  /\ UNCHANGED <<poolVars, socketVars, answer, openVars, phase>>

(* One turn of its loop: the counter first, then the detached thread.      *)
Spawn(o, s) ==
  /\ caller[o] = "spawn"
  /\ Goto(<<o, s>>, "none", "lock")
  /\ requested' = [requested EXCEPT ![fileOf[o]] = @ + 1]
  /\ UNCHANGED <<poolVars, socketVars, answer, joined, caller, result, valid, fileSize, phase>>

(* All tasks ended, or one of them found the file.                         *)
Await(o) ==
  /\ caller[o] = "spawn"
  /\ \A s \in Servers : pc[<<o, s>>] # "none"
  /\ requested[fileOf[o]] = 0 \/ valid[fileOf[o]]
  /\ caller' = [caller EXCEPT ![o] = "return"]
  /\ UNCHANGED <<pc, poolVars, socketVars, answer, joined, result, requested, valid, fileSize, phase>>

ReturnSize(o) ==
  /\ caller[o] = "return"
  /\ caller' = [caller EXCEPT ![o] = "returned"]
  /\ result' = [result EXCEPT ![o] = fileSize[fileOf[o]]]
  /\ UNCHANGED <<pc, poolVars, socketVars, answer, joined, requested, valid, fileSize, phase>>

OpenStep(o) == (\E s \in Servers : Spawn(o, s)) \/ Await(o) \/ ReturnSize(o)

(* openFileOnServer, after the answer: compare with _fileSize ...          *)
CheckSize(a) ==
  /\ pc[a] = "check"
  /\ LET known == fileSize[fileOf[a[1]]]
     IN  \/ /\ answer[a] = 0
            /\ pc' = [pc EXCEPT ![a] = "dec"]
            /\ UNCHANGED answer
         \/ /\ answer[a] # 0 /\ known = 0
            /\ pc' = [pc EXCEPT ![a] = "setSize"]
            /\ UNCHANGED answer
         \/ /\ answer[a] # 0 /\ known = answer[a]
            /\ pc' = [pc EXCEPT ![a] = "join"]
            /\ UNCHANGED answer
         \/ /\ answer[a] # 0 /\ known \notin {0, answer[a]}
            /\ pc' = [pc EXCEPT ![a] = "dec"]
            /\ answer' = [answer EXCEPT ![a] = 0]
  /\ UNCHANGED <<poolVars, socketVars, openVars, phase>>

(* ... and set it, without a lock around the two.                          *)
SetSize(a) ==
  /\ Goto(a, "setSize", "join")
  /\ fileSize' = [fileSize EXCEPT ![fileOf[a[1]]] = answer[a]]
  /\ UNCHANGED <<poolVars, socketVars, answer, joined, caller, result, requested, valid, phase>>

(* The task of addOpenFileTask pushes the connection once per socket ...   *)
EntriesOfTask(a) == {e \in Entries : <<e[1], EntryServer(e)>> = a}

Join(a) ==
  /\ pc[a] = "join"
  /\ \E e \in EntriesOfTask(a) \ joined : /\ mq' = mq \cup {e}
                                          /\ joined' = joined \cup {e}
  /\ UNCHANGED <<pc, file, sev, old, retryCnt, socketVars, answer, caller,
                 result, requested, valid, fileSize, phase>>

SetValid(a) ==
  /\ EntriesOfTask(a) \subseteq joined
  /\ Goto(a, "join", "dec")
  /\ valid' = [valid EXCEPT ![fileOf[a[1]]] = TRUE]
  /\ UNCHANGED <<poolVars, socketVars, answer, joined, caller, result, requested, fileSize, phase>>

(* Mutant: a task that failed returns early.                               *)
OpenTaskEndMutant(a) ==
  /\ a \in OpenTasks
  /\ Goto(a, "dec", "end")
  /\ requested' = [requested EXCEPT ![fileOf[a[1]]] = IF answer[a] = 0 THEN @ ELSE @ - 1]
  /\ UNCHANGED <<poolVars, socketVars, answer, joined, caller, result, valid, fileSize, phase>>

(* ... and the last thing it does is to count down.                        *)
OpenTaskEnd(a) ==
  /\ a \in OpenTasks
  /\ Goto(a, "dec", "end")
  /\ requested' = [requested EXCEPT ![fileOf[a[1]]] = @ - 1]
  /\ UNCHANGED <<poolVars, socketVars, answer, joined, caller, result, valid, fileSize, phase>>

-------------------------------------------------------------------------------
(* tazerCleanup: the transfer pool is gone, nobody opens, and one pool     *)
(* after the other is deleted; its destructor first waits for open tasks.  *)
DeletePool(f) ==
  /\ phase[f] = "live"
  /\ \A g \in Files : phase[g] \in {"live", "freed"}
  /\ \A t \in Threads : pc[t] = "none"
  /\ \A o \in Openers : caller[o] \in {"none", "returned"}
  /\ phase' = [phase EXCEPT ![f] = "waiting"]
  /\ UNCHANGED <<pc, poolVars, socketVars, answer, openVars>>

(* Mutant: the destructor does not wait for the open tasks.                *)
SpawnCloseMutant(f) ==
  /\ phase[f] = "waiting"
  /\ phase' = [phase EXCEPT ![f] = "closing"]
  /\ pc' = [a \in Actors |-> IF a \in {f} \X Servers THEN "lock" ELSE pc[a]]
  /\ UNCHANGED <<poolVars, socketVars, answer, openVars>>

(* closeFileOnAllServers: one detached thread per server.                  *)
SpawnClose(f) ==
  /\ phase[f] = "waiting"
  /\ requested[f] = 0
  /\ phase' = [phase EXCEPT ![f] = "closing"]
  /\ pc' = [a \in Actors |-> IF a \in {f} \X Servers THEN "lock" ELSE pc[a]]
  /\ UNCHANGED <<poolVars, socketVars, answer, openVars>>

(* The close task pops one entry, if there is one, and counts down.        *)
CloseTaskEnd(a) ==
  /\ Goto(a, "popOne", "end")
  /\ \/ \E e \in PoolOf(a[1]) : mq' = mq \ {e}
     \/ PoolOf(a[1]) = {} /\ UNCHANGED mq
  /\ UNCHANGED <<file, sev, old, retryCnt, socketVars, answer, openVars, phase>>

(* closeCnt is zero: the destructor returns and the pool is freed.         *)
FreePool(f) ==
  /\ phase[f] = "closing"
  /\ \A s \in Servers : pc[<<f, s>>] = "end"
  /\ phase' = [phase EXCEPT ![f] = "freed"]
  /\ UNCHANGED <<pc, poolVars, socketVars, answer, openVars>>

-------------------------------------------------------------------------------
Init ==
  /\ pc = [a \in Actors |-> "none"]
  /\ caller = [o \in Openers |-> "none"]
  /\ result = [o \in Openers |-> 0]
  /\ mq = {} /\ joined = {}
  /\ file = [t \in Threads |-> None]
  /\ sev = [t \in Threads |-> None]
  /\ old = [t \in Threads |-> None]
  /\ retryCnt = [t \in Threads |-> 0]
  /\ sock = [a \in Actors |-> None]
  /\ sockets = Sockets
  /\ answer = [a \in Actors |-> 0]
  /\ requested = [f \in Files |-> 0]
  /\ valid = [f \in Files |-> FALSE]
  /\ fileSize = [f \in Files |-> 0]
  /\ phase = [f \in Files |-> "live"]

TaskStep(a) == \/ UseSocket(a)
               \/ CheckSize(a) \/ SetSize(a) \/ Join(a) \/ SetValid(a)
               \/ OpenTaskEnd(a) \/ CloseTaskEnd(a)

Next == \/ \E a \in Actors : TaskStep(a) \/ WakeSpuriously(a)
        \/ \E t \in Threads : TransferStep(t)
        \/ \E t \in Threads, f \in Files : StartTransfer(t, f)
        \/ \E o \in Openers : CallOpen(o) \/ OpenStep(o)
        \/ \E f \in Files : DeletePool(f) \/ SpawnClose(f) \/ FreePool(f)

Spec == Init /\ [][Next]_vars

(* Threads run; a request ends, because the server answers or its          *)
(* connection breaks; nobody is obliged to read or to open.                *)
Progress == /\ \A a \in Actors : WF_vars(TaskStep(a))
            /\ \A t \in Threads : WF_vars(TransferStep(t))
            /\ \A o \in Openers : WF_vars(OpenStep(o))
            /\ \A f \in Files : WF_vars(SpawnClose(f) \/ FreePool(f))

FairSpec == Spec /\ Progress

-------------------------------------------------------------------------------
TypeOK ==
  /\ pc \in [Actors -> ThreadPCs \cup OpenPCs \cup ClosePCs]
  /\ \A t \in Threads : pc[t] \in ThreadPCs
  /\ \A a \in OpenTasks : pc[a] \in OpenPCs
  /\ \A a \in CloseTasks : pc[a] \in ClosePCs
  /\ caller \in [Openers -> {"none", "spawn", "return", "returned"}]
  /\ result \in [Openers -> Sizes \cup {0}]
  /\ mq \subseteq Entries /\ joined \subseteq Entries
  /\ file \in [Threads -> Files \cup {None}]
  /\ sev \in [Threads -> Entries \cup {None}]
  /\ old \in [Threads -> Entries \cup {None}]
  /\ retryCnt \in [Threads -> 0..MaxRetry]
  /\ sock \in [Actors -> Sockets \cup {None}]
  /\ sockets \subseteq Sockets
  /\ answer \in [Actors -> Sizes \cup {0, 1}]
  /\ \A a \in OpenTasks : answer[a] \in Sizes \cup {0}
  /\ requested \in [Files -> Nat]
  /\ valid \in [Files -> BOOLEAN]
  /\ fileSize \in [Files -> Sizes \cup {0}]
  /\ phase \in [Files -> {"live", "waiting", "closing", "freed"}]

Borrowers(e) == {t \in Threads : e \in {sev[t], old[t]}}

(* popConnection and pushConnection neither lose nor duplicate an entry,   *)
(* whatever fails and is retried: until the pool closes, each one is in    *)
(* the pool or with exactly one thread.                                    *)
EntriesConserved ==
  /\ \A e \in Entries :
       /\ e \in joined /\ phase[EntryFile(e)] \in {"live", "waiting"}
             => e \in mq \/ Borrowers(e) # {}
       /\ e \in mq => Borrowers(e) = {}
       /\ e \in mq \/ Borrowers(e) # {} => e \in joined
       /\ \A t, u \in Borrowers(e) : t = u
  /\ \A t \in Threads : sev[t] = old[t] => sev[t] = None

(* A socket is in its connection's queue or is the _tlSocket of exactly    *)
(* one thread, which uses it for that connection.                          *)
SocketsConserved ==
  /\ \A x \in Sockets : x \in sockets <=> \A a \in Actors : sock[a] # x
  /\ \A a, b \in Actors : sock[a] = sock[b] => a = b \/ sock[a] = None
  /\ \A a \in Actors : sock[a] # None => serverOf[sock[a]] = ServerOf(a)

(* lock and unlock lose no wakeup: while somebody waits for a socket that  *)
(* is in the queue, an actor is about to take one or to notify.            *)
Free(s)   == {x \in sockets : serverOf[x] = s}
Coming(s) == {a \in Actors : pc[a] \in {"lock", "notify"} /\ ServerOf(a) = s}
NoLostWakeup ==
  \A s \in Servers : Waiting(s) # {} => Cardinality(Free(s)) <= Cardinality(Coming(s))

(* openFileOnAllServers returns no size only after all its tasks ended     *)
(* without the file, though callers and tasks of the same pool share the   *)
(* counter and the flag it waits for.                                      *)
OpenFailsOnlyIfAllFail ==
  \A o \in Openers : caller[o] = "returned" /\ result[o] = 0
     => \A s \in Servers : pc[<<o, s>>] = "end" /\ answer[<<o, s>>] = 0

(* The destructor waits long enough: when the close tasks start no open    *)
(* task and no transfer uses the pool, and none of either when it is freed.*)
PoolOutlivesTasks ==
  \A f \in Files : phase[f] \in {"closing", "freed"} =>
     /\ \A t \in Threads : file[t] # f
     /\ \A a \in OpenTasks : fileOf[a[1]] = f => pc[a] \in {"none", "end"}
     /\ phase[f] = "freed" => \A s \in Servers : pc[<<f, s>>] = "end"

(* A thread that retries keeps an entry while it waits for another.  They  *)
(* never all wait for each other when a pool has more entries than there   *)
(* are threads: an entry is in the pool or is being used.                  *)
EntriesOf(f) == {e \in joined : EntryFile(e) = f}
PoolServes ==
  \A f \in Files :
     phase[f] = "live" /\ Cardinality(EntriesOf(f)) > Cardinality(Threads)
       => PoolOf(f) # {} \/ \E t \in Threads : sev[t] # None /\ EntryFile(sev[t]) = f

-------------------------------------------------------------------------------
(* What the invariants above rest on.  The locals of a transfer task agree *)
(* with its place.                                                         *)
TaskSound ==
  \A t \in Threads :
     /\ file[t] = None <=> pc[t] = "none"
     /\ sev[t] = None <=> pc[t] \in {"none", "pop", "repop"}
     /\ old[t] = None <=> pc[t] \notin {"repop", "pushOld"}
     /\ pc[t] \in {"repop", "pushOld"} => retryCnt[t] < MaxRetry
     /\ \A e \in {sev[t], old[t]} : e # None => EntryFile(e) = file[t]

SocketSound == \A a \in Actors : sock[a] = None <=> pc[a] # "request"

(* _servers_requested counts the open tasks that have not ended, and a     *)
(* task that found the file, the flag, and a caller about to return know   *)
(* the size.                                                               *)
ActiveTasks(f) == {a \in OpenTasks : fileOf[a[1]] = f /\ pc[a] \notin {"none", "end"}}

AllFailed(o) == \A s \in Servers : pc[<<o, s>>] = "end" /\ answer[<<o, s>>] = 0

Counted == \A f \in Files : requested[f] = Cardinality(ActiveTasks(f))

TaskKnows(a) ==
  /\ pc[a] = "join" => answer[a] # 0
  /\ pc[a] \in {"join", "dec", "end"} /\ answer[a] # 0 => fileSize[fileOf[a[1]]] # 0
  /\ pc[a] = "setSize" => answer[a] # 0
  /\ pc[a] # "none" => caller[a[1]] # "none"
  /\ EntriesOfTask(a) \cap joined # {} => pc[a] \in {"join", "dec", "end"}

ValidKnown == \A f \in Files : valid[f] => fileSize[f] # 0

CallerKnows(o) == caller[o] = "return" => fileSize[fileOf[o]] # 0 \/ AllFailed(o)

OpenSound == /\ Counted /\ ValidKnown
             /\ \A a \in OpenTasks : TaskKnows(a)
             /\ \A o \in Openers : CallerKnows(o)

(* While a pool is being deleted nobody transfers or opens, and close      *)
(* tasks run when its destructor made them.                                *)
PhaseSound ==
  /\ ~Running => /\ \A t \in Threads : pc[t] = "none"
                 /\ \A o \in Openers : caller[o] \in {"none", "returned"}
  /\ \A f \in Files, s \in Servers : pc[<<f, s>>] # "none" => phase[f] \in {"closing", "freed"}

IInv == /\ TypeOK /\ TaskSound /\ SocketSound /\ OpenSound /\ PhaseSound
        /\ EntriesConserved /\ SocketsConserved /\ NoLostWakeup
        /\ OpenFailsOnlyIfAllFail /\ PoolOutlivesTasks

-------------------------------------------------------------------------------
(* Under that condition the one transfer thread of Lib.cpp 117 comes to    *)
(* the end of every task.                                                  *)
TransferEnds ==
  \A t \in Threads :
     []<>(pc[t] = "none" \/ Cardinality(EntriesOf(file[t])) <= Cardinality(Threads))

(* The destructor of a pool ends: its tasks get their sockets.             *)
PoolFreed == \A f \in Files : phase[f] = "waiting" ~> phase[f] = "freed"

(* Connection.cpp 632: "If server socket fails just close socket and let   *)
(* client reconnect" -- a failed transfer is tried again and ends, however *)
(* many servers there are.                                                 *)
FailedTransferEnds == \A t \in Threads : pc[t] = "repop" ~> pc[t] = "none"

(* ConnectionPool.cpp 258 refuses a server: "file sizes do not match       *)
(* across servers".                                                        *)
OneSizePerPool ==
  \A d, e \in joined : EntryFile(d) = EntryFile(e)
     => \A a, b \in OpenTasks : d \in EntriesOfTask(a) /\ e \in EntriesOfTask(b)
           => answer[a] = answer[b]

===============================================================================
