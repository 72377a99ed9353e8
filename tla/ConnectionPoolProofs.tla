-------------------------- MODULE ConnectionPoolProofs --------------------------
(* Proofs about ConnectionPool, for any finite sets of threads, files,     *)
(* servers, sockets and calls.                                             *)
EXTENDS ConnectionPool, FiniteSetTheorems, TLAPS

(* The three kinds of actors are different, and there are finitely many.   *)
LEMMA ActorFacts ==
  /\ Threads \cap OpenTasks = {} /\ Threads \cap CloseTasks = {}
  /\ OpenTasks \cap CloseTasks = {}
  /\ IsFiniteSet(Actors) /\ IsFiniteSet(Entries)
<1> USE PoolConstants
<1>1. Threads \cap OpenTasks = {} /\ Threads \cap CloseTasks = {}
  OBVIOUS
<1>2. OpenTasks \cap CloseTasks = {}
  BY DEF OpenTasks, CloseTasks
<1>3. IsFiniteSet(OpenTasks) /\ IsFiniteSet(CloseTasks) /\ IsFiniteSet(Entries)
  BY FS_Product DEF OpenTasks, CloseTasks, Entries
<1>4. IsFiniteSet(Actors)
  BY <1>3, FS_Union DEF Actors
<1> QED  BY <1>1, <1>2, <1>3, <1>4

(* A place tells the kind of its actor.                                    *)
LEMMA Kinds ==
  ASSUME TypeOK, NEW a \in Actors
  PROVE  /\ pc[a] \in {"check", "setSize", "join", "dec"}
               => a \in OpenTasks /\ a[1] \in Openers /\ fileOf[a[1]] \in Files /\ a = <<a[1], a[2]>>
         /\ pc[a] = "popOne"
               => a \in CloseTasks /\ a[1] \in Files
BY PoolConstants DEF Actors, TypeOK, ThreadPCs, OpenPCs, ClosePCs, Locking, OpenTasks, CloseTasks

LEMMA ActiveFinite == \A f \in Files : IsFiniteSet(ActiveTasks(f))
<1> SUFFICES ASSUME NEW f \in Files PROVE IsFiniteSet(ActiveTasks(f))
  OBVIOUS
<1>1. ActiveTasks(f) \subseteq Actors
  BY DEF ActiveTasks, Actors
<1> QED  BY <1>1, ActorFacts, FS_Subset

(* What a step of each kind does to the types.                             *)
LEMMA TypeStep == TypeOK /\ TaskSound /\ SocketSound /\ OpenSound /\ [Next]_vars => TypeOK'
<1> SUFFICES ASSUME TypeOK, TaskSound, SocketSound, OpenSound, [Next]_vars PROVE TypeOK'
  OBVIOUS
<1> USE PoolConstants, ActorFacts DEF TypeOK, Goto, ThreadPCs, OpenPCs, ClosePCs, Locking
<1>1. ASSUME NEW a \in Actors, TakeSocket(a) PROVE TypeOK'
  BY <1>1 DEF TakeSocket, poolVars, openVars
<1>2. ASSUME NEW a \in Actors, WaitForSocket(a) PROVE TypeOK'
  BY <1>2 DEF WaitForSocket, poolVars, socketVars, openVars
<1>3. ASSUME NEW a \in Actors, WakeSpuriously(a) PROVE TypeOK'
  BY <1>3 DEF WakeSpuriously, poolVars, socketVars, openVars
<1>4. ASSUME NEW a \in Actors, ReturnSocket(a) PROVE TypeOK'
  <2>1. PICK d \in Answers(a) : answer' = [answer EXCEPT ![a] = d]
    BY <1>4 DEF ReturnSocket
  <2>2. answer' \in [Actors -> Sizes \cup {0, 1}] /\ \A b \in OpenTasks : answer'[b] \in Sizes \cup {0}
    BY <2>1 DEF Answers, Actors
  <2>3. sockets' \subseteq Sockets /\ sock' \in [Actors -> Sockets \cup {None}]
    BY <1>4 DEF ReturnSocket, SocketSound
  <2> QED  BY <1>4, <2>2, <2>3 DEF ReturnSocket, poolVars, openVars
<1>5. ASSUME NEW a \in Actors, Notify(a) PROVE TypeOK'
  <2>1. /\ a \in Threads => AfterUnlock(a) \in ThreadPCs
        /\ a \in OpenTasks => AfterUnlock(a) \in OpenPCs
        /\ a \in CloseTasks => AfterUnlock(a) \in ClosePCs
    BY DEF AfterUnlock
  <2>2. CASE \E w \in Actors : pc' = [pc EXCEPT ![a] = AfterUnlock(a), ![w] = "lock"]
    BY <1>5, <2>1, <2>2 DEF Notify, Actors, poolVars, socketVars, openVars
  <2>3. CASE pc' = [pc EXCEPT ![a] = AfterUnlock(a)]
    BY <1>5, <2>1, <2>3 DEF Notify, Actors, poolVars, socketVars, openVars
  <2> QED  BY <1>5, <2>2, <2>3 DEF Notify, Waiting
<1>6. ASSUME NEW a \in Actors, CheckSize(a) PROVE TypeOK'
  <2>1. a \in OpenTasks
    BY <1>6, Kinds DEF CheckSize
  <2>2. \E p \in {"dec", "setSize", "join"} : pc' = [pc EXCEPT ![a] = p]
    BY <1>6 DEF CheckSize
  <2>3. answer' = answer \/ answer' = [answer EXCEPT ![a] = 0]
    BY <1>6 DEF CheckSize
  <2>4. /\ pc' \in [Actors -> ThreadPCs \cup OpenPCs \cup ClosePCs]
        /\ \A t \in Threads : pc'[t] \in ThreadPCs
        /\ \A b \in OpenTasks : pc'[b] \in OpenPCs
        /\ \A b \in CloseTasks : pc'[b] \in ClosePCs
    BY <2>1, <2>2
  <2>5. /\ answer' \in [Actors -> Sizes \cup {0, 1}]
        /\ \A b \in OpenTasks : answer'[b] \in Sizes \cup {0}
    <3>1. CASE answer' = answer
      BY <3>1
    <3>2. CASE answer' = [answer EXCEPT ![a] = 0]
      BY <3>2 DEF Actors
    <3> QED  BY <2>3, <3>1, <3>2
  <2> QED  BY <1>6, <2>4, <2>5 DEF CheckSize, poolVars, socketVars, openVars
<1>7. ASSUME NEW a \in Actors, SetSize(a) PROVE TypeOK'
  BY <1>7, Kinds DEF SetSize, poolVars, socketVars
<1>8. ASSUME NEW a \in Actors, Join(a) PROVE TypeOK'
  BY <1>8 DEF Join, EntriesOfTask, socketVars
<1>9. ASSUME NEW a \in Actors, SetValid(a) PROVE TypeOK'
  BY <1>9, Kinds DEF SetValid, poolVars, socketVars
<1>10. ASSUME NEW a \in Actors, CloseTaskEnd(a) PROVE TypeOK'
  BY <1>10 DEF CloseTaskEnd, socketVars, openVars
<1>11. ASSUME NEW t \in Threads, Pop(t) PROVE TypeOK'
  BY <1>11 DEF Pop, PoolOf, socketVars, openVars, Actors
<1>12. ASSUME NEW t \in Threads, Retry(t) PROVE TypeOK'
  BY <1>12 DEF Retry, socketVars, openVars, Actors
<1>13. ASSUME NEW t \in Threads, PushOld(t) PROVE TypeOK'
  BY <1>13 DEF PushOld, TaskSound, socketVars, openVars, Actors
<1>14. ASSUME NEW t \in Threads, Push(t) PROVE TypeOK'
  BY <1>14 DEF Push, TaskSound, socketVars, openVars, Actors
<1>15. ASSUME NEW t \in Threads, NEW f \in Files, StartTransfer(t, f) PROVE TypeOK'
  BY <1>15 DEF StartTransfer, socketVars, openVars, Actors
<1>16. ASSUME NEW o \in Openers, CallOpen(o) PROVE TypeOK'
  BY <1>16 DEF CallOpen, poolVars, socketVars
<1>17. ASSUME NEW o \in Openers, NEW s \in Servers, Spawn(o, s) PROVE TypeOK'
  BY <1>17 DEF Spawn, poolVars, socketVars, Actors, OpenTasks
<1>18. ASSUME NEW o \in Openers, Await(o) PROVE TypeOK'
  BY <1>18 DEF Await, poolVars, socketVars
<1>19. ASSUME NEW o \in Openers, ReturnSize(o) PROVE TypeOK'
  BY <1>19 DEF ReturnSize, poolVars, socketVars
<1>20. ASSUME NEW f \in Files, DeletePool(f) PROVE TypeOK'
  BY <1>20 DEF DeletePool, poolVars, socketVars, openVars
<1>21. ASSUME NEW f \in Files, SpawnClose(f) PROVE TypeOK'
  <2>1. \A a \in Actors : pc'[a] = pc[a] \/ pc'[a] = "lock"
    BY <1>21 DEF SpawnClose
  <2>2. pc' = [a \in Actors |-> pc'[a]]
    BY <1>21 DEF SpawnClose
  <2>3. pc' \in [Actors -> ThreadPCs \cup OpenPCs \cup ClosePCs]
    BY <2>1, <2>2
  <2>4. /\ \A t \in Threads : pc'[t] \in ThreadPCs
        /\ \A a \in OpenTasks : pc'[a] \in OpenPCs
        /\ \A a \in CloseTasks : pc'[a] \in ClosePCs
    BY <2>1 DEF Actors
  <2> QED  BY <1>21, <2>3, <2>4 DEF SpawnClose, poolVars, socketVars, openVars
<1>22. ASSUME NEW f \in Files, FreePool(f) PROVE TypeOK'
  BY <1>22 DEF FreePool, poolVars, socketVars, openVars
<1>23. ASSUME UNCHANGED vars PROVE TypeOK'
  BY <1>23 DEF vars, poolVars, socketVars, openVars
<1>24. ASSUME NEW a \in Actors, OpenTaskEnd(a) PROVE TypeOK'
  <2>1. a \in ActiveTasks(fileOf[a[1]]) /\ fileOf[a[1]] \in Files
    BY <1>24, Kinds DEF OpenTaskEnd, ActiveTasks
  <2>2. requested[fileOf[a[1]]] > 0
    BY <2>1, FS_EmptySet, ActiveFinite DEF OpenSound, Counted
  <2> QED  BY <1>24, <2>1, <2>2 DEF OpenTaskEnd, poolVars, socketVars
<1> QED
  BY <1>1, <1>2, <1>3, <1>4, <1>5, <1>6, <1>7, <1>8, <1>9, <1>10, <1>11, <1>12, <1>13, <1>14,
     <1>15, <1>16, <1>17, <1>18, <1>19, <1>20, <1>21, <1>22, <1>23, <1>24
  DEF Next, TaskStep, UseSocket, TransferStep, OpenStep

(* A step that moves a thread only between the places of its request and   *)
(* leaves its locals alone keeps the locals in order.                      *)
LEMMA TaskQuiet ==
  ASSUME TaskSound,
         UNCHANGED <<file, sev, old, retryCnt>>,
         \A t \in Threads : \/ pc'[t] = pc[t]
                            \/ {pc[t], pc'[t]} \subseteq Locking \cup {"decide"}
  PROVE  TaskSound'
BY DEF TaskSound, EntryFile, Locking

LEMMA TaskSoundStep == TypeOK /\ TaskSound /\ PhaseSound /\ [Next]_vars => TaskSound'
<1> SUFFICES ASSUME TypeOK, TaskSound, PhaseSound, [Next]_vars PROVE TaskSound'
  OBVIOUS
<1> USE PoolConstants, ActorFacts, NoneIsNothing DEF TypeOK, Goto
<1>1. ASSUME NEW a \in Actors, UseSocket(a) \/ WakeSpuriously(a) PROVE TaskSound'
  <2>1. UNCHANGED <<file, sev, old, retryCnt>>
    BY <1>1 DEF UseSocket, TakeSocket, WaitForSocket, ReturnSocket, Notify, WakeSpuriously, poolVars
  <2>2. \A t \in Threads : \/ pc'[t] = pc[t]
                           \/ {pc[t], pc'[t]} \subseteq Locking \cup {"decide"}
    <3>1. CASE Notify(a)
      <4>0. /\ \A t \in Threads : t \in Actors
            /\ \E S : pc \in [Actors -> S]
        BY DEF Actors
      <4>1. \A t \in Threads \ {a} : pc'[t] = pc[t] \/ (pc[t] = "wait" /\ pc'[t] = "lock")
        <5> SUFFICES ASSUME NEW t \in Threads, t # a
                     PROVE  pc'[t] = pc[t] \/ (pc[t] = "wait" /\ pc'[t] = "lock")
          OBVIOUS
        <5>1. CASE \E w \in Waiting(ServerOf(a)) : pc' = [pc EXCEPT ![a] = AfterUnlock(a), ![w] = "lock"]
          <6>1. PICK w \in Actors : /\ pc[w] = "wait"
                                   /\ pc' = [pc EXCEPT ![a] = AfterUnlock(a), ![w] = "lock"]
            BY <5>1 DEF Waiting
          <6> QED  BY <4>0, <6>1
        <5>2. CASE pc' = [pc EXCEPT ![a] = AfterUnlock(a)]
          BY <4>0, <5>2
        <5> QED  BY <3>1, <5>1, <5>2 DEF Notify
      <4>2. a \in Threads => pc[a] = "notify" /\ pc'[a] \in {"decide", "lock"}
        BY <3>1 DEF Notify, AfterUnlock, Actors
      <4> QED  BY <4>1, <4>2 DEF Locking
    <3>2. CASE ~Notify(a)
      <4>1. \E q \in Locking : pc[a] \in Locking /\ pc' = [pc EXCEPT ![a] = q]
        BY <1>1, <3>2 DEF UseSocket, TakeSocket, WaitForSocket, ReturnSocket, WakeSpuriously, Locking
      <4> QED  BY <4>1
    <3> QED  BY <3>1, <3>2
  <2> QED  BY <2>1, <2>2, TaskQuiet
<1>2. ASSUME NEW a \in Actors,
             CheckSize(a) \/ SetSize(a) \/ Join(a) \/ SetValid(a) \/ OpenTaskEnd(a) \/ CloseTaskEnd(a)
      PROVE  TaskSound'
  <2>1. UNCHANGED <<file, sev, old, retryCnt>>
    BY <1>2 DEF CheckSize, SetSize, Join, SetValid, OpenTaskEnd, CloseTaskEnd, poolVars
  <2>2. a \notin Threads
    BY <1>2, Kinds DEF CheckSize, SetSize, Join, SetValid, OpenTaskEnd, CloseTaskEnd
  <2>3. \A t \in Threads : pc'[t] = pc[t]
    BY <1>2, <2>2 DEF CheckSize, SetSize, Join, SetValid, OpenTaskEnd, CloseTaskEnd, Actors
  <2> QED  BY <2>1, <2>3, TaskQuiet
<1>3. ASSUME NEW t \in Threads, Pop(t) PROVE TaskSound'
  BY <1>3 DEF Pop, PoolOf, TaskSound, Actors, EntryFile
<1>4. ASSUME NEW t \in Threads, Retry(t) PROVE TaskSound'
  BY <1>4 DEF Retry, TaskSound, Actors, EntryFile
<1>5. ASSUME NEW t \in Threads, PushOld(t) PROVE TaskSound'
  BY <1>5 DEF PushOld, TaskSound, Actors, EntryFile
<1>6. ASSUME NEW t \in Threads, Push(t) PROVE TaskSound'
  BY <1>6 DEF Push, TaskSound, Actors, EntryFile
<1>7. ASSUME NEW t \in Threads, NEW f \in Files, StartTransfer(t, f) PROVE TaskSound'
  BY <1>7 DEF StartTransfer, TaskSound, Actors, EntryFile
<1>8. ASSUME NEW o \in Openers, CallOpen(o) \/ OpenStep(o) PROVE TaskSound'
  <2>1. UNCHANGED <<file, sev, old, retryCnt>>
    BY <1>8 DEF CallOpen, OpenStep, Spawn, Await, ReturnSize, poolVars
  <2>2. \A s \in Servers, t \in Threads : <<o, s>> # t
    BY DEF OpenTasks
  <2>3. \A t \in Threads : pc'[t] = pc[t]
    <3>1. CASE \E s \in Servers : Spawn(o, s)
      <4>1. PICK b : b \notin Threads /\ pc' = [pc EXCEPT ![b] = "lock"]
        BY <2>2, <3>1 DEF Spawn
      <4> QED  BY <4>1 DEF Actors
    <3>2. CASE pc' = pc
      BY <3>2
    <3> QED  BY <1>8, <3>1, <3>2 DEF CallOpen, OpenStep, Await, ReturnSize
  <2> QED  BY <2>1, <2>3, TaskQuiet
<1>9. ASSUME NEW f \in Files, DeletePool(f) \/ SpawnClose(f) \/ FreePool(f) PROVE TaskSound'
  <2>1. UNCHANGED <<file, sev, old, retryCnt>>
    BY <1>9 DEF DeletePool, SpawnClose, FreePool, poolVars
  <2>2. \A t \in Threads : pc'[t] = pc[t]
    BY <1>9 DEF DeletePool, SpawnClose, FreePool, Actors, CloseTasks
  <2> QED  BY <2>1, <2>2, TaskQuiet
<1>10. ASSUME UNCHANGED vars PROVE TaskSound'
  BY <1>10, TaskQuiet DEF vars, poolVars
<1> QED
  BY <1>1, <1>2, <1>3, <1>4, <1>5, <1>6, <1>7, <1>8, <1>9, <1>10
  DEF Next, TaskStep, TransferStep

-------------------------------------------------------------------------------
(* Sockets.  A step that changes no _tlSocket keeps SocketSound and        *)
(* SocketsConserved if nobody enters or leaves a request and whoever holds *)
(* one keeps its connection.                                               *)
LEMMA SocketQuiet ==
  ASSUME SocketSound, SocketsConserved,
         UNCHANGED socketVars,
         \A a \in Actors : pc[a] = "request" <=> pc'[a] = "request",
         \A a \in Actors : pc[a] = "request" => ServerOf(a)' = ServerOf(a)
  PROVE  SocketSound' /\ SocketsConserved'
BY DEF SocketSound, SocketsConserved, socketVars

LEMMA SocketStep ==
  TypeOK /\ TaskSound /\ SocketSound /\ PhaseSound /\ SocketsConserved /\ [Next]_vars
    => SocketSound' /\ SocketsConserved'
<1> SUFFICES ASSUME TypeOK, TaskSound, SocketSound, PhaseSound, SocketsConserved, [Next]_vars
             PROVE  SocketSound' /\ SocketsConserved'
  OBVIOUS
<1> USE PoolConstants, ActorFacts, NoneIsNothing DEF TypeOK, Goto
<1>1. ASSUME NEW a \in Actors, TakeSocket(a) PROVE SocketSound' /\ SocketsConserved'
  <2>1. PICK x \in sockets : /\ serverOf[x] = ServerOf(a)
                             /\ sock' = [sock EXCEPT ![a] = x]
                             /\ sockets' = sockets \ {x}
    BY <1>1 DEF TakeSocket
  <2>2. SocketSound'
    BY <1>1, <2>1 DEF TakeSocket, SocketSound
  <2>3. \A b \in Actors : ServerOf(b)' = ServerOf(b)
    BY <1>1 DEF TakeSocket, ServerOf, poolVars
  <2>4. x \in Sockets /\ \A b \in Actors : sock[b] # x
    BY <2>1 DEF SocketsConserved
  <2>5. \A y \in Sockets : y \in sockets' <=> \A b \in Actors : sock'[b] # y
    BY <2>1, <2>4, <1>1 DEF SocketsConserved, TakeSocket, SocketSound
  <2>6. \A b, c \in Actors : sock'[b] = sock'[c] => b = c \/ sock'[b] = None
    BY <2>1, <2>4 DEF SocketsConserved
  <2>7. \A b \in Actors : sock'[b] # None => serverOf[sock'[b]] = ServerOf(b)'
    BY <2>1, <2>3 DEF SocketsConserved
  <2> QED  BY <2>2, <2>5, <2>6, <2>7 DEF SocketsConserved
<1>2. ASSUME NEW a \in Actors, ReturnSocket(a) PROVE SocketSound' /\ SocketsConserved'
  <2>1. SocketSound'
    BY <1>2 DEF ReturnSocket, SocketSound
  <2>2. \A b \in Actors : ServerOf(b)' = ServerOf(b)
    BY <1>2 DEF ReturnSocket, ServerOf, poolVars
  <2>3. sock[a] # None
    BY <1>2 DEF ReturnSocket, SocketSound
  <2>4. SocketsConserved'
    BY <1>2, <2>2, <2>3 DEF ReturnSocket, SocketsConserved
  <2> QED  BY <2>1, <2>4
<1>3. ASSUME NEW a \in Actors, WaitForSocket(a) \/ WakeSpuriously(a) \/ Notify(a)
      PROVE  SocketSound' /\ SocketsConserved'
  <2>1. UNCHANGED socketVars /\ \A b \in Actors : ServerOf(b)' = ServerOf(b)
    BY <1>3 DEF WaitForSocket, WakeSpuriously, Notify, ServerOf, poolVars
  <2>2. \A b \in Actors : pc[b] = "request" <=> pc'[b] = "request"
    BY <1>3 DEF WaitForSocket, WakeSpuriously, Notify, AfterUnlock, Waiting
  <2> QED  BY <2>1, <2>2, SocketQuiet
<1>4. ASSUME NEW a \in Actors,
             CheckSize(a) \/ SetSize(a) \/ Join(a) \/ SetValid(a) \/ OpenTaskEnd(a) \/ CloseTaskEnd(a)
      PROVE  SocketSound' /\ SocketsConserved'
  <2>1. UNCHANGED socketVars /\ \A b \in Actors : ServerOf(b)' = ServerOf(b)
    BY <1>4 DEF CheckSize, SetSize, Join, SetValid, OpenTaskEnd, CloseTaskEnd, ServerOf, poolVars
  <2>2. \A b \in Actors : pc[b] = "request" <=> pc'[b] = "request"
    BY <1>4 DEF CheckSize, SetSize, Join, SetValid, OpenTaskEnd, CloseTaskEnd
  <2> QED  BY <2>1, <2>2, SocketQuiet
<1>5. ASSUME NEW t \in Threads, Pop(t) \/ Retry(t) \/ PushOld(t) \/ Push(t)
      PROVE  SocketSound' /\ SocketsConserved'
  <2>1. UNCHANGED socketVars /\ \A b \in Actors : pc[b] = "request" <=> pc'[b] = "request"
    BY <1>5 DEF Pop, Retry, PushOld, Push
  <2>2. pc[t] # "request" /\ \A u \in Threads \ {t} : sev'[u] = sev[u]
    BY <1>5 DEF Pop, Retry, PushOld, Push
  <2>3. \A b \in Actors : pc[b] = "request" => ServerOf(b)' = ServerOf(b)
    BY <2>2 DEF ServerOf
  <2> QED  BY <2>1, <2>3, SocketQuiet
<1>6. ASSUME NEW t \in Threads, NEW f \in Files, StartTransfer(t, f)
      PROVE  SocketSound' /\ SocketsConserved'
  <2>1. UNCHANGED socketVars /\ \A b \in Actors : ServerOf(b)' = ServerOf(b)
    BY <1>6 DEF StartTransfer, ServerOf
  <2>2. \A b \in Actors : pc[b] = "request" <=> pc'[b] = "request"
    BY <1>6 DEF StartTransfer
  <2> QED  BY <2>1, <2>2, SocketQuiet
<1>7. ASSUME NEW o \in Openers, CallOpen(o) \/ OpenStep(o) PROVE SocketSound' /\ SocketsConserved'
  <2>1. UNCHANGED socketVars /\ \A b \in Actors : ServerOf(b)' = ServerOf(b)
    BY <1>7 DEF CallOpen, OpenStep, Spawn, Await, ReturnSize, ServerOf, poolVars
  <2>2. \A b \in Actors : pc[b] = "request" <=> pc'[b] = "request"
    BY <1>7 DEF CallOpen, OpenStep, Spawn, Await, ReturnSize
  <2> QED  BY <2>1, <2>2, SocketQuiet
<1>8. ASSUME NEW f \in Files, DeletePool(f) \/ SpawnClose(f) \/ FreePool(f)
      PROVE  SocketSound' /\ SocketsConserved'
  <2>1. UNCHANGED socketVars /\ \A b \in Actors : ServerOf(b)' = ServerOf(b)
    BY <1>8 DEF DeletePool, SpawnClose, FreePool, ServerOf, poolVars
  <2>2. \A s \in Servers : phase[f] = "waiting" => pc[<<f, s>>] = "none"
    BY DEF PhaseSound
  <2>3. \A b \in Actors : pc[b] = "request" <=> pc'[b] = "request"
    BY <1>8, <2>2 DEF DeletePool, SpawnClose, FreePool
  <2> QED  BY <2>1, <2>3, SocketQuiet
<1>9. ASSUME UNCHANGED vars PROVE SocketSound' /\ SocketsConserved'
  <2>1. \A b \in Actors : ServerOf(b)' = ServerOf(b)
    BY <1>9 DEF vars, poolVars, ServerOf
  <2> QED  BY <1>9, <2>1, SocketQuiet DEF vars
<1> QED
  BY <1>1, <1>2, <1>3, <1>4, <1>5, <1>6, <1>7, <1>8, <1>9
  DEF Next, TaskStep, TransferStep, UseSocket

-------------------------------------------------------------------------------
(* Entries.  Only the steps of a transfer task, of an open task that joins *)
(* and of a close task move one.                                           *)
LEMMA EntriesQuiet ==
  ASSUME EntriesConserved,
         UNCHANGED <<mq, joined, sev, old>>,
         \A f \in Files : phase'[f] \in {"live", "waiting"} => phase[f] \in {"live", "waiting"}
  PROVE  EntriesConserved'
<1>1. \A e \in Entries : EntryFile(e) \in Files
  BY PoolConstants DEF Entries, EntryFile
<1> QED  BY <1>1 DEF EntriesConserved, Borrowers, EntryFile

(* EntriesConserved, entry by entry.                                       *)
Kept(e) ==
  /\ e \in joined /\ phase[EntryFile(e)] \in {"live", "waiting"} => e \in mq \/ Borrowers(e) # {}
  /\ e \in mq => Borrowers(e) = {}
  /\ e \in mq \/ Borrowers(e) # {} => e \in joined
  /\ \A t, u \in Borrowers(e) : t = u

Apart == \A t \in Threads : sev[t] = old[t] => sev[t] = None

LEMMA EntryWise == EntriesConserved <=> (\A e \in Entries : Kept(e)) /\ Apart
BY DEF EntriesConserved, Kept, Apart

LEMMA KeptFrame ==
  ASSUME NEW e \in Entries, Kept(e), UNCHANGED <<joined, phase>>,
         e \in mq' <=> e \in mq, Borrowers(e)' = Borrowers(e)
  PROVE  Kept(e)'
BY DEF Kept, EntryFile

LEMMA EntriesStep ==
  TypeOK /\ TaskSound /\ PhaseSound /\ EntriesConserved /\ [Next]_vars => EntriesConserved'
<1> SUFFICES ASSUME TypeOK, TaskSound, PhaseSound, EntriesConserved, [Next]_vars
             PROVE  EntriesConserved'
  OBVIOUS
<1> USE PoolConstants, ActorFacts, NoneIsNothing DEF TypeOK, Goto
<1>1. ASSUME NEW a \in Actors, UseSocket(a) \/ WakeSpuriously(a) PROVE EntriesConserved'
  <2>1. UNCHANGED <<mq, joined, sev, old, phase>>
    BY <1>1 DEF UseSocket, TakeSocket, WaitForSocket, ReturnSocket, Notify, WakeSpuriously,
                poolVars, openVars
  <2> QED  BY <2>1, EntriesQuiet
<1>2. ASSUME NEW a \in Actors, CheckSize(a) \/ SetSize(a) \/ SetValid(a) \/ OpenTaskEnd(a)
      PROVE  EntriesConserved'
  <2>1. UNCHANGED <<mq, joined, sev, old, phase>>
    BY <1>2 DEF CheckSize, SetSize, SetValid, OpenTaskEnd, poolVars, openVars
  <2> QED  BY <2>1, EntriesQuiet
<1>3. ASSUME NEW a \in Actors, Join(a) PROVE EntriesConserved'
  <2>1. PICK e \in Entries : e \notin joined /\ mq' = mq \cup {e} /\ joined' = joined \cup {e}
    BY <1>3 DEF Join, EntriesOfTask
  <2>2. UNCHANGED <<sev, old, phase>>
    BY <1>3 DEF Join
  <2> QED  BY <2>1, <2>2 DEF EntriesConserved, Borrowers, EntryFile
<1>4. ASSUME NEW a \in Actors, CloseTaskEnd(a) PROVE EntriesConserved'
  <2>1. /\ a \in CloseTasks /\ a[1] \in Files /\ a[2] \in Servers /\ a = <<a[1], a[2]>>
        /\ pc[a] = "popOne"
    BY <1>4, Kinds DEF CloseTaskEnd, CloseTasks
  <2>2. phase[a[1]] \in {"closing", "freed"}
    BY <2>1 DEF PhaseSound
  <2>3. /\ UNCHANGED <<joined, sev, old, phase>>
        /\ mq' \subseteq mq
        /\ \A e \in mq \ mq' : EntryFile(e) = a[1]
    BY <1>4 DEF CloseTaskEnd, PoolOf, openVars
  <2> QED  BY <2>2, <2>3 DEF EntriesConserved, Borrowers, EntryFile
<1>5. ASSUME NEW t \in Threads, Pop(t) PROVE EntriesConserved'
  <2>1. PICK e \in mq : sev' = [sev EXCEPT ![t] = e] /\ mq' = mq \ {e}
    BY <1>5 DEF Pop, PoolOf
  <2>2. UNCHANGED <<joined, old, phase>> /\ sev[t] = None
    BY <1>5 DEF Pop, openVars, TaskSound
  <2>3. Borrowers(e)' = {t}
    BY <2>1, <2>2 DEF Borrowers, EntriesConserved
  <2>4. \A d \in Entries \ {e} : Borrowers(d)' = Borrowers(d)
    BY <2>1, <2>2 DEF Borrowers
  <2>5. Apart'
    BY <2>1, <2>2 DEF EntriesConserved, Borrowers, Apart
  <2>6. Kept(e)'
    BY <2>1, <2>2, <2>3 DEF EntriesConserved, Kept
  <2>7. \A d \in Entries \ {e} : Kept(d)'
    BY <2>1, <2>2, <2>4, EntryWise, KeptFrame
  <2> QED  BY <2>5, <2>6, <2>7 DEF EntriesConserved, Kept, Apart
<1>6. ASSUME NEW t \in Threads, Retry(t) PROVE EntriesConserved'
  <2>1. /\ old' = [old EXCEPT ![t] = sev[t]] /\ sev' = [sev EXCEPT ![t] = None]
        /\ UNCHANGED <<mq, joined, phase>>
        /\ old[t] = None /\ sev[t] # None
    BY <1>6 DEF Retry, openVars, TaskSound
  <2>2. \A e \in Entries : Borrowers(e)' = Borrowers(e)
    BY <2>1 DEF Borrowers
  <2>3. \A u \in Threads : sev'[u] = old'[u] => sev'[u] = None
    BY <2>1 DEF EntriesConserved
  <2> QED  BY <2>1, <2>2, <2>3 DEF EntriesConserved, EntryFile
<1>7. ASSUME NEW t \in Threads, PushOld(t) PROVE EntriesConserved'
  <2>1. PICK e \in Entries :
        /\ e = old[t] /\ mq' = mq \cup {e} /\ old' = [old EXCEPT ![t] = None]
        /\ UNCHANGED <<sev, joined, phase>>
        /\ sev[t] # None
    BY <1>7 DEF PushOld, openVars, TaskSound
  <2>2. Borrowers(e) = {t}
    BY <2>1 DEF Borrowers, EntriesConserved
  <2>3. Borrowers(e)' = {}
    <3>1. \A u \in Threads \ {t} : e \notin {sev'[u], old'[u]}
      BY <2>1, <2>2 DEF Borrowers
    <3>2. e \notin {sev'[t], old'[t]}
      BY <2>1 DEF EntriesConserved
    <3> QED  BY <3>1, <3>2 DEF Borrowers
  <2>4. \A d \in Entries \ {e} : Borrowers(d)' = Borrowers(d)
    BY <2>1 DEF Borrowers
  <2>5. Apart'
    BY <2>1 DEF EntriesConserved, Apart
  <2>6. Kept(e)'
    BY <2>1, <2>2, <2>3 DEF EntriesConserved, Kept
  <2>7. \A d \in Entries \ {e} : Kept(d)'
    BY <2>1, <2>4, EntryWise, KeptFrame
  <2> QED  BY <2>5, <2>6, <2>7 DEF EntriesConserved, Kept, Apart
<1>8. ASSUME NEW t \in Threads, Push(t) PROVE EntriesConserved'
  <2>1. PICK e \in Entries :
        /\ e = sev[t] /\ mq' = mq \cup {e} /\ sev' = [sev EXCEPT ![t] = None]
        /\ UNCHANGED <<old, joined, phase>>
        /\ old[t] = None
    BY <1>8 DEF Push, openVars, TaskSound
  <2>2. Borrowers(e) = {t}
    BY <2>1 DEF Borrowers, EntriesConserved
  <2>3. Borrowers(e)' = {}
    <3>1. \A u \in Threads \ {t} : e \notin {sev'[u], old'[u]}
      BY <2>1, <2>2 DEF Borrowers
    <3>2. e \notin {sev'[t], old'[t]}
      BY <2>1 DEF EntriesConserved
    <3> QED  BY <3>1, <3>2 DEF Borrowers
  <2>4. \A d \in Entries \ {e} : Borrowers(d)' = Borrowers(d)
    BY <2>1 DEF Borrowers
  <2>5. Apart'
    BY <2>1 DEF EntriesConserved, Apart
  <2>6. Kept(e)'
    BY <2>1, <2>2, <2>3 DEF EntriesConserved, Kept
  <2>7. \A d \in Entries \ {e} : Kept(d)'
    BY <2>1, <2>4, EntryWise, KeptFrame
  <2> QED  BY <2>5, <2>6, <2>7 DEF EntriesConserved, Kept, Apart
<1>9. ASSUME NEW t \in Threads, NEW f \in Files, StartTransfer(t, f) PROVE EntriesConserved'
  <2>1. UNCHANGED <<mq, joined, sev, old, phase>>
    BY <1>9 DEF StartTransfer, openVars
  <2> QED  BY <2>1, EntriesQuiet
<1>10. ASSUME NEW o \in Openers, CallOpen(o) \/ OpenStep(o) PROVE EntriesConserved'
  <2>1. UNCHANGED <<mq, joined, sev, old, phase>>
    BY <1>10 DEF CallOpen, OpenStep, Spawn, Await, ReturnSize, poolVars
  <2> QED  BY <2>1, EntriesQuiet
<1>11. ASSUME NEW f \in Files, DeletePool(f) \/ SpawnClose(f) \/ FreePool(f)
       PROVE  EntriesConserved'
  <2>1. UNCHANGED <<mq, joined, sev, old>>
    BY <1>11 DEF DeletePool, SpawnClose, FreePool, poolVars, openVars
  <2>2. \A g \in Files : phase'[g] \in {"live", "waiting"} => phase[g] \in {"live", "waiting"}
    BY <1>11 DEF DeletePool, SpawnClose, FreePool
  <2> QED  BY <2>1, <2>2, EntriesQuiet
<1>12. ASSUME UNCHANGED vars PROVE EntriesConserved'
  BY <1>12, EntriesQuiet DEF vars, poolVars, openVars
<1> QED
  BY <1>1, <1>2, <1>3, <1>4, <1>5, <1>6, <1>7, <1>8, <1>9, <1>10, <1>11, <1>12
  DEF Next, TaskStep, TransferStep

-------------------------------------------------------------------------------
(* The life of a pool.                                                     *)
LEMMA PhaseStep ==
  TypeOK /\ TaskSound /\ PhaseSound /\ OpenSound /\ [Next]_vars => PhaseSound'
<1> SUFFICES ASSUME TypeOK, TaskSound, PhaseSound, OpenSound, [Next]_vars PROVE PhaseSound'
  OBVIOUS
<1> USE PoolConstants, ActorFacts, NoneIsNothing DEF TypeOK, Goto
<1>0. ASSUME UNCHANGED <<phase, caller>>,
             \A t \in Threads : pc[t] = "none" => pc'[t] = "none",
             \A a \in CloseTasks : pc[a] = "none" => pc'[a] = "none"
      PROVE  PhaseSound'
  BY <1>0 DEF PhaseSound, Running, CloseTasks
<1>1. ASSUME NEW a \in Actors, TaskStep(a) \/ WakeSpuriously(a) PROVE PhaseSound'
  <2>1. UNCHANGED <<phase, caller>>
    BY <1>1 DEF TaskStep, UseSocket, TakeSocket, WaitForSocket, ReturnSocket, Notify, WakeSpuriously,
                CheckSize, SetSize, Join, SetValid, OpenTaskEnd, CloseTaskEnd, openVars
  <2>2. \A b \in Actors : pc[b] = "none" => pc'[b] = "none"
    <3>1. CASE Notify(a)
      BY <3>1 DEF Notify, Waiting
    <3>2. CASE ~Notify(a)
      BY <1>1, <3>2 DEF TaskStep, UseSocket, TakeSocket, WaitForSocket, ReturnSocket,
            WakeSpuriously, CheckSize, SetSize, Join, SetValid, OpenTaskEnd, CloseTaskEnd
    <3> QED  BY <3>1, <3>2
  <2> QED  BY <1>0, <2>1, <2>2 DEF Actors
<1>2. ASSUME NEW t \in Threads, TransferStep(t) PROVE PhaseSound'
  <2>1. UNCHANGED <<phase, caller>>
    BY <1>2 DEF TransferStep, Pop, Retry, PushOld, Push, openVars
  <2>2. \A b \in Actors : pc[b] = "none" => pc'[b] = "none"
    BY <1>2 DEF TransferStep, Pop, Retry, PushOld, Push
  <2> QED  BY <1>0, <2>1, <2>2 DEF Actors
<1>3. ASSUME NEW t \in Threads, NEW f \in Files, StartTransfer(t, f) PROVE PhaseSound'
  <2>1. Running' /\ UNCHANGED phase
    BY <1>3 DEF StartTransfer, Running
  <2>2. \A g \in Files, s \in Servers : <<g, s>> # t
    BY DEF CloseTasks
  <2>3. \A g \in Files, s \in Servers : pc'[<<g, s>>] = pc[<<g, s>>]
    BY <1>3, <2>2 DEF StartTransfer, Actors, CloseTasks
  <2> QED  BY <2>1, <2>3 DEF PhaseSound
<1>4. ASSUME NEW o \in Openers, CallOpen(o) PROVE PhaseSound'
  BY <1>4 DEF CallOpen, PhaseSound, Running
<1>5. ASSUME NEW o \in Openers, OpenStep(o) PROVE PhaseSound'
  <2>1. caller[o] \in {"spawn", "return"} /\ UNCHANGED phase
    BY <1>5 DEF OpenStep, Spawn, Await, ReturnSize
  <2>2. Running /\ Running'
    BY <2>1 DEF PhaseSound, Running
  <2>3. \A b \in CloseTasks : pc'[b] = pc[b]
    <3>1. CASE \E s \in Servers : Spawn(o, s)
      <4>1. PICK b : b \notin CloseTasks /\ pc' = [pc EXCEPT ![b] = "lock"]
        BY <3>1 DEF Spawn, OpenTasks, CloseTasks
      <4> QED  BY <4>1 DEF Actors
    <3>2. CASE pc' = pc
      BY <3>2
    <3> QED  BY <1>5, <3>1, <3>2 DEF OpenStep, Await, ReturnSize
  <2> QED  BY <2>1, <2>2, <2>3 DEF PhaseSound, CloseTasks
<1>6. ASSUME NEW f \in Files, DeletePool(f) PROVE PhaseSound'
  BY <1>6 DEF DeletePool, PhaseSound, openVars
<1>7. ASSUME NEW f \in Files, SpawnClose(f) PROVE PhaseSound'
  <2>1. \A b \in Actors : b \notin {f} \X Servers => pc'[b] = pc[b]
    BY <1>7 DEF SpawnClose
  <2>2. \A t \in Threads : t \notin {f} \X Servers
    BY DEF CloseTasks
  <2>3. ~Running /\ UNCHANGED caller
    BY <1>7 DEF SpawnClose, Running, openVars
  <2>4. \A t \in Threads : pc'[t] = "none"
    BY <2>1, <2>2, <2>3 DEF PhaseSound, Actors
  <2>5. \A g \in Files, s \in Servers : pc'[<<g, s>>] # "none" => phase'[g] \in {"closing", "freed"}
    BY <1>7, <2>1 DEF SpawnClose, PhaseSound, Actors, CloseTasks
  <2> QED  BY <2>3, <2>4, <2>5 DEF PhaseSound
<1>8. ASSUME NEW f \in Files, FreePool(f) PROVE PhaseSound'
  <2>1. ~Running
    BY <1>8 DEF FreePool, Running
  <2> QED  BY <1>8, <2>1 DEF FreePool, PhaseSound, openVars
<1>9. ASSUME UNCHANGED vars PROVE PhaseSound'
  BY <1>9, <1>0 DEF vars, openVars
<1> QED
  BY <1>1, <1>2, <1>3, <1>4, <1>5, <1>6, <1>7, <1>8, <1>9 DEF Next

-------------------------------------------------------------------------------
(* Opening.                                                                *)
LEMMA OpenTaskShape ==
  /\ \A a \in OpenTasks : a[1] \in Openers /\ a[2] \in Servers /\ a = <<a[1], a[2]>>
                          /\ fileOf[a[1]] \in Files
  /\ \A o \in Openers, s \in Servers : <<o, s>> \in OpenTasks
BY PoolConstants DEF OpenTasks

(* What is counted changes only when a task starts or ends.                *)
LEMMA SameCount ==
  ASSUME Counted, UNCHANGED requested,
         \A a \in OpenTasks : pc[a] \in {"none", "end"} <=> pc'[a] \in {"none", "end"}
  PROVE  Counted'
<1>1. \A f \in Files : ActiveTasks(f)' = ActiveTasks(f)
  BY DEF ActiveTasks
<1> QED  BY <1>1 DEF Counted

(* A step that leaves the open tasks alone or within their requests.       *)
LEMMA OpenQuiet ==
  ASSUME TypeOK, OpenSound,
         UNCHANGED <<requested, fileSize, joined, valid, caller>>,
         \A a \in OpenTasks : /\ \/ pc'[a] = pc[a]
                                 \/ /\ {pc[a], pc'[a]} \subseteq Locking \cup {"check"}
                                    /\ EntriesOfTask(a) \cap joined = {}
                              /\ answer'[a] = answer[a] \/ pc[a] = "request"
  PROVE  OpenSound'
<1>1. Counted'
  <2>1. \A a \in OpenTasks : pc[a] \in {"none", "end"} <=> pc'[a] \in {"none", "end"}
    BY DEF Locking
  <2> QED  BY <2>1, SameCount DEF OpenSound
<1>2. ASSUME NEW a \in OpenTasks PROVE TaskKnows(a)'
  <2>1. CASE pc'[a] = pc[a] /\ answer'[a] = answer[a]
    BY <2>1 DEF OpenSound, TaskKnows, EntriesOfTask, EntryServer
  <2>2. CASE pc'[a] = pc[a] /\ pc[a] = "request"
    BY <2>2 DEF OpenSound, TaskKnows, EntriesOfTask, EntryServer
  <2>3. CASE {pc[a], pc'[a]} \subseteq Locking \cup {"check"} /\ EntriesOfTask(a) \cap joined = {}
    <3>1. pc[a] # "none" /\ pc'[a] \notin {"none", "join", "dec", "end", "setSize"}
      BY <2>3 DEF Locking
    <3> QED  BY <3>1, <2>3 DEF OpenSound, TaskKnows, EntriesOfTask, EntryServer
  <2> QED  BY <2>1, <2>2, <2>3
<1>3. ASSUME NEW o \in Openers PROVE CallerKnows(o)'
  <2>1. AllFailed(o) => AllFailed(o)'
    <3> SUFFICES ASSUME AllFailed(o), NEW s \in Servers
                 PROVE  pc'[<<o, s>>] = "end" /\ answer'[<<o, s>>] = 0
      BY DEF AllFailed
    <3>1. <<o, s>> \in OpenTasks /\ pc[<<o, s>>] = "end" /\ answer[<<o, s>>] = 0
      BY OpenTaskShape DEF AllFailed
    <3> QED  BY <3>1 DEF Locking
  <2> QED  BY <2>1 DEF OpenSound, CallerKnows
<1>4. ValidKnown'
  BY DEF OpenSound, ValidKnown
<1> QED  BY <1>1, <1>2, <1>3, <1>4 DEF OpenSound, Counted, TaskKnows, ValidKnown, CallerKnows

(* A step of one open task between a request and its end, that keeps what  *)
(* is known of the sizes.                                                  *)
LEMMA OpenMove ==
  ASSUME TypeOK, OpenSound, NEW a \in OpenTasks,
         UNCHANGED <<requested, caller>>,
         pc[a] \notin {"none", "end"}, pc'[a] \notin {"none", "end"},
         \A b \in OpenTasks \ {a} : pc'[b] = pc[b] /\ answer'[b] = answer[b]
                                    /\ (EntriesOfTask(b) \cap joined' # {}
                                          => EntriesOfTask(b) \cap joined # {}),
         \A f \in Files : fileSize[f] # 0 => fileSize'[f] # 0,
         ValidKnown', TaskKnows(a)'
  PROVE  OpenSound'
<1>1. Counted'
  BY SameCount DEF OpenSound
<1>2. ASSUME NEW b \in OpenTasks \ {a} PROVE TaskKnows(b)'
  <2>1. TaskKnows(b) /\ fileOf[b[1]] \in Files
    BY OpenTaskShape DEF OpenSound
  <2> QED  BY <2>1 DEF TaskKnows, EntriesOfTask, EntryServer
<1>3. ASSUME NEW o \in Openers PROVE CallerKnows(o)'
  <2>1. AllFailed(o) => AllFailed(o)'
    <3> SUFFICES ASSUME AllFailed(o), NEW s \in Servers
                 PROVE  pc'[<<o, s>>] = "end" /\ answer'[<<o, s>>] = 0
      BY DEF AllFailed
    <3>1. <<o, s>> \in OpenTasks /\ pc[<<o, s>>] = "end" /\ answer[<<o, s>>] = 0
      BY OpenTaskShape DEF AllFailed
    <3> QED  BY <3>1
  <2> QED  BY <2>1, PoolConstants DEF OpenSound, CallerKnows
<1> QED  BY <1>1, <1>2, <1>3 DEF OpenSound, Counted, TaskKnows, ValidKnown, CallerKnows

LEMMA OpenSoundStep ==
  TypeOK /\ OpenSound /\ [Next]_vars => OpenSound'
<1> SUFFICES ASSUME TypeOK, OpenSound, [Next]_vars PROVE OpenSound'
  OBVIOUS
<1> USE PoolConstants, ActorFacts DEF TypeOK, Goto
<1>0. ASSUME UNCHANGED <<requested, fileSize, joined, valid, caller, answer>>,
             \A a \in OpenTasks : pc'[a] = pc[a]
      PROVE  OpenSound'
  BY <1>0, OpenQuiet
<1>1. ASSUME NEW a \in Actors, UseSocket(a) \/ WakeSpuriously(a) PROVE OpenSound'
  <2>1. UNCHANGED <<requested, fileSize, joined, valid, caller>>
    BY <1>1 DEF UseSocket, TakeSocket, WaitForSocket, ReturnSocket, Notify, WakeSpuriously, openVars
  <2>2. \A b \in OpenTasks : answer'[b] = answer[b] \/ pc[b] = "request"
    BY <1>1 DEF UseSocket, TakeSocket, WaitForSocket, ReturnSocket, Notify, WakeSpuriously, Actors
  <2>3. \A b \in OpenTasks : \/ pc'[b] = pc[b]
                             \/ {pc[b], pc'[b]} \subseteq Locking \cup {"check"}
    <3>1. CASE Notify(a)
      <4>1. \A b \in OpenTasks \ {a} : pc'[b] = pc[b] \/ (pc[b] = "wait" /\ pc'[b] = "lock")
        <5>1. CASE \E w \in Waiting(ServerOf(a)) : pc' = [pc EXCEPT ![a] = AfterUnlock(a), ![w] = "lock"]
          <6>1. PICK w \in Actors : /\ pc[w] = "wait"
                                    /\ pc' = [pc EXCEPT ![a] = AfterUnlock(a), ![w] = "lock"]
            BY <5>1 DEF Waiting
          <6> QED  BY <6>1 DEF Actors
        <5>2. CASE pc' = [pc EXCEPT ![a] = AfterUnlock(a)]
          BY <5>2 DEF Actors
        <5> QED  BY <3>1, <5>1, <5>2 DEF Notify
      <4>2. a \in OpenTasks => pc[a] = "notify" /\ pc'[a] \in {"check", "lock"}
        BY <3>1 DEF Notify, AfterUnlock, Actors
      <4> QED  BY <4>1, <4>2 DEF Locking
    <3>2. CASE ~Notify(a)
      <4>1. \E q \in Locking : pc[a] \in Locking /\ pc' = [pc EXCEPT ![a] = q]
        BY <1>1, <3>2 DEF UseSocket, TakeSocket, WaitForSocket, ReturnSocket, WakeSpuriously, Locking
      <4> QED  BY <4>1 DEF Actors
    <3> QED  BY <3>1, <3>2
  <2>4. \A b \in OpenTasks : pc[b] \in Locking \cup {"check"} => EntriesOfTask(b) \cap joined = {}
    BY DEF OpenSound, TaskKnows, Locking
  <2> QED  BY <2>1, <2>2, <2>3, <2>4, OpenQuiet
<1>2. ASSUME NEW a \in Actors, CheckSize(a) PROVE OpenSound'
  <2>1. a \in OpenTasks /\ TaskKnows(a) /\ fileOf[a[1]] \in Files
    BY <1>2, Kinds DEF OpenSound, CheckSize
  <2>2. UNCHANGED <<requested, caller, fileSize, joined, valid>>
    BY <1>2 DEF CheckSize, openVars
  <2>3. \A b \in OpenTasks \ {a} : pc'[b] = pc[b] /\ answer'[b] = answer[b]
    BY <1>2 DEF CheckSize, Actors
  <2>4. pc[a] = "check" /\ pc'[a] \in {"dec", "setSize", "join"}
    BY <1>2 DEF CheckSize
  <2>5. /\ pc'[a] \in {"setSize", "join"} => answer'[a] # 0
        /\ pc'[a] \in {"dec", "join"} /\ answer'[a] # 0 => fileSize[fileOf[a[1]]] # 0
    BY <1>2 DEF CheckSize
  <2>6. TaskKnows(a)'
    BY <2>1, <2>2, <2>4, <2>5 DEF TaskKnows, EntriesOfTask, EntryServer
  <2>7. ValidKnown'
    BY <2>2 DEF OpenSound, ValidKnown
  <2> QED  BY <2>1, <2>2, <2>3, <2>4, <2>6, <2>7, OpenMove
<1>3. ASSUME NEW a \in Actors, SetSize(a) PROVE OpenSound'
  <2>1. a \in OpenTasks /\ TaskKnows(a) /\ fileOf[a[1]] \in Files
    BY <1>3, Kinds DEF OpenSound, SetSize
  <2>2. UNCHANGED <<requested, caller, joined, valid, answer>> /\ answer[a] # 0
    BY <1>3, <2>1 DEF SetSize, TaskKnows
  <2>3. \A b \in OpenTasks \ {a} : pc'[b] = pc[b]
    BY <1>3 DEF SetSize, Actors
  <2>4. pc[a] = "setSize" /\ pc'[a] = "join"
    BY <1>3 DEF SetSize
  <2>5. fileSize'[fileOf[a[1]]] # 0 /\ \A f \in Files : fileSize[f] # 0 => fileSize'[f] # 0
    BY <1>3, <2>1, <2>2 DEF SetSize
  <2>6. TaskKnows(a)'
    BY <2>1, <2>2, <2>4, <2>5 DEF TaskKnows, EntriesOfTask, EntryServer
  <2>7. ValidKnown'
    BY <2>2, <2>5 DEF OpenSound, ValidKnown
  <2> QED  BY <2>1, <2>2, <2>3, <2>4, <2>5, <2>6, <2>7, OpenMove
<1>4. ASSUME NEW a \in Actors, Join(a) PROVE OpenSound'
  <2>1. a \in OpenTasks /\ TaskKnows(a)
    BY <1>4, Kinds DEF OpenSound, Join
  <2>2. UNCHANGED <<requested, caller, valid, answer, fileSize, pc>> /\ pc[a] = "join"
    BY <1>4 DEF Join
  <2>3. PICK e \in EntriesOfTask(a) : joined' = joined \cup {e}
    BY <1>4 DEF Join
  <2>4. \A b \in OpenTasks \ {a} : e \notin EntriesOfTask(b)
    BY DEF EntriesOfTask
  <2>5. \A b \in OpenTasks \ {a} : EntriesOfTask(b) \cap joined' # {} => EntriesOfTask(b) \cap joined # {}
    BY <2>3, <2>4
  <2>6. TaskKnows(a)'
    BY <2>1, <2>2 DEF TaskKnows
  <2>7. ValidKnown'
    BY <2>2 DEF OpenSound, ValidKnown
  <2> QED  BY <2>1, <2>2, <2>5, <2>6, <2>7, OpenMove
<1>5. ASSUME NEW a \in Actors, SetValid(a) PROVE OpenSound'
  <2>1. a \in OpenTasks /\ TaskKnows(a) /\ fileOf[a[1]] \in Files
    BY <1>5, Kinds DEF OpenSound, SetValid
  <2>2. UNCHANGED <<requested, caller, joined, answer, fileSize>>
    BY <1>5 DEF SetValid
  <2>3. \A b \in OpenTasks \ {a} : pc'[b] = pc[b]
    BY <1>5 DEF SetValid, Actors
  <2>4. pc[a] = "join" /\ pc'[a] = "dec"
    BY <1>5 DEF SetValid
  <2>5. fileSize[fileOf[a[1]]] # 0
    BY <2>1, <2>4 DEF TaskKnows
  <2>6. TaskKnows(a)'
    BY <2>1, <2>2, <2>4 DEF TaskKnows, EntriesOfTask, EntryServer
  <2>7. ValidKnown'
    BY <1>5, <2>2, <2>5 DEF OpenSound, ValidKnown, SetValid
  <2> QED  BY <2>1, <2>2, <2>3, <2>4, <2>6, <2>7, OpenMove
<1>6. ASSUME NEW a \in Actors, OpenTaskEnd(a) PROVE OpenSound'
  <2>1. /\ a \in OpenTasks /\ TaskKnows(a) /\ fileOf[a[1]] \in Files
        /\ UNCHANGED <<caller, joined, answer, fileSize, valid>>
        /\ pc[a] = "dec" /\ pc' = [pc EXCEPT ![a] = "end"]
        /\ requested' = [requested EXCEPT ![fileOf[a[1]]] = @ - 1]
    BY <1>6, OpenTaskShape DEF OpenSound, OpenTaskEnd
  <2>2. \A b \in OpenTasks : b # a => pc'[b] = pc[b]
    BY <2>1 DEF Actors
  <2>3. pc'[a] = "end"
    BY <2>1
  <2>4. Counted'
    <3> DEFINE f == fileOf[a[1]]
    <3>1. a \in ActiveTasks(f) /\ ActiveTasks(f)' = ActiveTasks(f) \ {a}
      BY <2>1, <2>2, <2>3 DEF ActiveTasks
    <3>2. \A g \in Files \ {f} : ActiveTasks(g)' = ActiveTasks(g)
      BY <2>1, <2>2 DEF ActiveTasks
    <3>3. Cardinality(ActiveTasks(f) \ {a}) = Cardinality(ActiveTasks(f)) - 1
      <4>1. IsFiniteSet(ActiveTasks(f))
        BY <2>1, ActiveFinite
      <4> HIDE DEF f
      <4> QED  BY <3>1, <4>1, FS_RemoveElement
    <3> HIDE DEF f
    <3>4. ASSUME NEW g \in Files PROVE requested'[g] = Cardinality(ActiveTasks(g)')
      <4>1. requested[g] = Cardinality(ActiveTasks(g))
        BY DEF OpenSound, Counted
      <4> QED  BY <2>1, <3>1, <3>2, <3>3, <4>1 DEF f
    <3> QED  BY <3>4 DEF Counted
  <2>5. \A b \in OpenTasks : TaskKnows(b)'
    <3> TAKE b \in OpenTasks
    <3>1. TaskKnows(b)
      BY DEF OpenSound
    <3> QED  BY <2>1, <2>2, <2>3, <3>1 DEF TaskKnows, EntriesOfTask, EntryServer
  <2>6. \A o \in Openers : CallerKnows(o)'
    <3> TAKE o \in Openers
    <3>1. AllFailed(o) => AllFailed(o)'
      BY <2>1, <2>2, <2>3, OpenTaskShape DEF AllFailed
    <3> QED  BY <2>1, <3>1 DEF OpenSound, CallerKnows
  <2>7. ValidKnown'
    BY <2>1 DEF OpenSound, ValidKnown
  <2> QED  BY <2>4, <2>5, <2>6, <2>7 DEF OpenSound, Counted, TaskKnows, ValidKnown, CallerKnows
<1>7. ASSUME NEW a \in Actors, CloseTaskEnd(a) PROVE OpenSound'
  <2>1. a \notin OpenTasks
    BY <1>7, Kinds DEF CloseTaskEnd
  <2> QED  BY <1>7, <2>1, <1>0 DEF CloseTaskEnd, openVars, Actors
<1>8. ASSUME NEW t \in Threads, TransferStep(t) PROVE OpenSound'
  <2>1. t \notin OpenTasks
    OBVIOUS
  <2> QED  BY <1>8, <2>1, <1>0 DEF TransferStep, Pop, Retry, PushOld, Push, openVars, Actors
<1>9. ASSUME NEW t \in Threads, NEW f \in Files, StartTransfer(t, f) PROVE OpenSound'
  <2>1. t \notin OpenTasks
    OBVIOUS
  <2> QED  BY <1>9, <2>1, <1>0 DEF StartTransfer, openVars, Actors
<1>10. ASSUME NEW o \in Openers, CallOpen(o) PROVE OpenSound'
  <2>1. /\ UNCHANGED <<pc, requested, joined, answer, fileSize, valid>>
        /\ caller' = [caller EXCEPT ![o] = IF valid[fileOf[o]] THEN "return" ELSE "spawn"]
    BY <1>10 DEF CallOpen
  <2>2. Counted'
    BY <2>1, SameCount DEF OpenSound
  <2>3. \A a \in OpenTasks : TaskKnows(a)'
    <3> TAKE a \in OpenTasks
    <3>1. TaskKnows(a) /\ a[1] \in Openers
      BY OpenTaskShape DEF OpenSound
    <3> QED  BY <2>1, <3>1 DEF TaskKnows
  <2>4. \A p \in Openers : CallerKnows(p)'
    BY <2>1 DEF OpenSound, CallerKnows, AllFailed, ValidKnown
  <2>5. ValidKnown'
    BY <2>1 DEF OpenSound, ValidKnown
  <2> QED  BY <2>2, <2>3, <2>4, <2>5 DEF OpenSound, Counted, TaskKnows, ValidKnown, CallerKnows
<1>11. ASSUME NEW o \in Openers, NEW s \in Servers, Spawn(o, s) PROVE OpenSound'
  <2>0. PICK a \in OpenTasks : a = <<o, s>>
    BY DEF OpenTasks
  <2>1. /\ UNCHANGED <<caller, joined, answer, fileSize, valid>>
        /\ pc[a] = "none" /\ pc' = [pc EXCEPT ![a] = "lock"]
        /\ caller[o] = "spawn" /\ a[1] = o
        /\ requested' = [requested EXCEPT ![fileOf[o]] = @ + 1]
    BY <1>11, <2>0 DEF Spawn
  <2>2. \A b \in OpenTasks : b # a => pc'[b] = pc[b]
    BY <2>1 DEF Actors
  <2>3. pc'[a] = "lock"
    BY <2>1 DEF Actors
  <2>4. Counted'
    <3> DEFINE f == fileOf[o]
    <3>1. a \notin ActiveTasks(f) /\ ActiveTasks(f)' = ActiveTasks(f) \cup {a}
      BY <2>1, <2>2, <2>3 DEF ActiveTasks
    <3>2. \A g \in Files \ {f} : ActiveTasks(g)' = ActiveTasks(g)
      BY <2>1, <2>2 DEF ActiveTasks
    <3>3. Cardinality(ActiveTasks(f) \cup {a}) = Cardinality(ActiveTasks(f)) + 1
      BY <3>1, ActiveFinite, FS_AddElement
    <3> HIDE DEF f
    <3>4. ASSUME NEW g \in Files PROVE requested'[g] = Cardinality(ActiveTasks(g)')
      <4>1. requested[g] = Cardinality(ActiveTasks(g))
        BY DEF OpenSound, Counted
      <4> QED  BY <2>1, <3>1, <3>2, <3>3, <4>1 DEF f
    <3> QED  BY <3>4 DEF Counted
  <2>5. \A b \in OpenTasks : TaskKnows(b)'
    <3> TAKE b \in OpenTasks
    <3>1. TaskKnows(b)
      BY DEF OpenSound
    <3> QED  BY <2>1, <2>2, <2>3, <3>1 DEF TaskKnows, EntriesOfTask, EntryServer
  <2>6. \A p \in Openers : CallerKnows(p)'
    <3> TAKE p \in Openers
    <3>1. AllFailed(p) => AllFailed(p)'
      BY <2>1, <2>2, OpenTaskShape DEF AllFailed
    <3> QED  BY <2>1, <3>1 DEF OpenSound, CallerKnows
  <2>7. ValidKnown'
    BY <2>1 DEF OpenSound, ValidKnown
  <2> QED  BY <2>4, <2>5, <2>6, <2>7 DEF OpenSound, Counted, TaskKnows, ValidKnown, CallerKnows
<1>12. ASSUME NEW o \in Openers, Await(o) \/ ReturnSize(o) PROVE OpenSound'
  <2>1. /\ UNCHANGED <<pc, requested, joined, answer, fileSize, valid>>
        /\ \A p \in Openers \ {o} : caller'[p] = caller[p]
        /\ caller[o] # "none" /\ caller'[o] # "none"
    BY <1>12 DEF Await, ReturnSize
  <2>2. Counted'
    BY <2>1, SameCount DEF OpenSound
  <2>3. \A a \in OpenTasks : TaskKnows(a)'
    <3> TAKE a \in OpenTasks
    <3>1. TaskKnows(a) /\ a[1] \in Openers
      BY OpenTaskShape DEF OpenSound
    <3> QED  BY <2>1, <3>1 DEF TaskKnows
  <2>4. \A p \in Openers \ {o} : CallerKnows(p)'
    BY <2>1 DEF OpenSound, CallerKnows, AllFailed
  <2>5. CallerKnows(o)'
    <3>1. CASE ReturnSize(o)
      BY <3>1 DEF ReturnSize, CallerKnows
    <3>2. CASE Await(o) /\ valid[fileOf[o]]
      BY <2>1, <3>2 DEF OpenSound, ValidKnown, CallerKnows
    <3>3. CASE Await(o) /\ requested[fileOf[o]] = 0 /\ fileSize[fileOf[o]] = 0
      <4>1. ActiveTasks(fileOf[o]) = {}
        BY <3>3, ActiveFinite, FS_EmptySet DEF OpenSound, Counted
      <4>2. ASSUME NEW s \in Servers PROVE pc[<<o, s>>] = "end" /\ answer[<<o, s>>] = 0
        <5>1. PICK a \in OpenTasks : a = <<o, s>>
          BY OpenTaskShape
        <5>2. a[1] = o
          BY <5>1
        <5>3. pc[a] = "end"
          BY <3>3, <4>1, <5>1, <5>2 DEF Await, ActiveTasks
        <5> QED  BY <3>3, <5>1, <5>2, <5>3 DEF OpenSound, TaskKnows
      <4> QED  BY <2>1, <4>2 DEF CallerKnows, AllFailed
    <3>4. CASE fileSize[fileOf[o]] # 0
      BY <2>1, <3>4 DEF CallerKnows
    <3> QED  BY <1>12, <3>1, <3>2, <3>3, <3>4 DEF Await
  <2>6. ValidKnown'
    BY <2>1 DEF OpenSound, ValidKnown
  <2> QED  BY <2>2, <2>3, <2>4, <2>5, <2>6 DEF OpenSound, Counted, TaskKnows, ValidKnown, CallerKnows
<1>13. ASSUME NEW f \in Files, DeletePool(f) \/ SpawnClose(f) \/ FreePool(f) PROVE OpenSound'
  <2>1. \A a \in OpenTasks : a \notin {f} \X Servers
    BY DEF CloseTasks
  <2> QED  BY <1>13, <2>1, <1>0 DEF DeletePool, SpawnClose, FreePool, openVars, Actors
<1>14. ASSUME UNCHANGED vars PROVE OpenSound'
  BY <1>14, <1>0 DEF vars, openVars
<1> QED
  BY <1>1, <1>2, <1>3, <1>4, <1>5, <1>6, <1>7, <1>8, <1>9, <1>10, <1>11, <1>12, <1>13, <1>14
  DEF Next, TaskStep, OpenStep

-------------------------------------------------------------------------------
(* A task that ended stays where it is with its answer, and when the       *)
(* process ends no open task starts.                                       *)
LEMMA EndStable ==
  ASSUME TypeOK, PhaseSound, [Next]_vars, NEW b \in Actors, pc[b] = "end"
  PROVE  pc'[b] = "end" /\ answer'[b] = answer[b]
<1> USE DEF TypeOK, Goto
<1>1. ASSUME NEW a \in Actors, TaskStep(a) \/ WakeSpuriously(a)
      PROVE  pc'[b] = "end" /\ answer'[b] = answer[b]
  <2>1. CASE Notify(a)
    BY <2>1 DEF Notify, Waiting
  <2>2. CASE ~Notify(a)
    BY <1>1, <2>2 DEF TaskStep, UseSocket, TakeSocket, WaitForSocket, ReturnSocket,
          WakeSpuriously, CheckSize, SetSize, Join, SetValid, OpenTaskEnd, CloseTaskEnd
  <2> QED  BY <2>1, <2>2
<1>2. ASSUME NEW t \in Threads, TransferStep(t) PROVE pc'[b] = "end" /\ answer'[b] = answer[b]
  BY <1>2 DEF TransferStep, Pop, Retry, PushOld, Push
<1>3. ASSUME NEW t \in Threads, NEW f \in Files, StartTransfer(t, f)
      PROVE  pc'[b] = "end" /\ answer'[b] = answer[b]
  BY <1>3 DEF StartTransfer
<1>4. ASSUME NEW o \in Openers, CallOpen(o) \/ OpenStep(o)
      PROVE  pc'[b] = "end" /\ answer'[b] = answer[b]
  BY <1>4 DEF CallOpen, OpenStep, Spawn, Await, ReturnSize
<1>5. ASSUME NEW f \in Files, DeletePool(f) \/ FreePool(f)
      PROVE  pc'[b] = "end" /\ answer'[b] = answer[b]
  BY <1>5 DEF DeletePool, FreePool
<1>6. ASSUME NEW f \in Files, SpawnClose(f) PROVE pc'[b] = "end" /\ answer'[b] = answer[b]
  <2>1. b \notin {f} \X Servers
    BY <1>6 DEF SpawnClose, PhaseSound
  <2> QED  BY <1>6, <2>1 DEF SpawnClose
<1> QED
  BY <1>1, <1>2, <1>3, <1>4, <1>5, <1>6 DEF Next, vars

LEMMA NoneStable ==
  ASSUME TypeOK, PhaseSound, [Next]_vars, NEW b \in OpenTasks, pc[b] = "none", ~Running
  PROVE  pc'[b] = "none"
<1> USE PoolConstants, ActorFacts DEF TypeOK, Goto
<1>0. b \in Actors /\ b \notin Threads
  BY DEF Actors
<1>1. ASSUME NEW a \in Actors, TaskStep(a) \/ WakeSpuriously(a) PROVE pc'[b] = "none"
  <2>1. CASE Notify(a)
    BY <1>0, <2>1 DEF Notify, Waiting
  <2>2. CASE ~Notify(a)
    BY <1>0, <1>1, <2>2 DEF TaskStep, UseSocket, TakeSocket, WaitForSocket, ReturnSocket,
          WakeSpuriously, CheckSize, SetSize, Join, SetValid, OpenTaskEnd, CloseTaskEnd
  <2> QED  BY <2>1, <2>2
<1>2. ASSUME NEW t \in Threads, TransferStep(t) PROVE pc'[b] = "none"
  BY <1>0, <1>2 DEF TransferStep, Pop, Retry, PushOld, Push
<1>3. ASSUME NEW t \in Threads, NEW f \in Files, StartTransfer(t, f) PROVE pc'[b] = "none"
  BY <1>3 DEF StartTransfer
<1>4. ASSUME NEW o \in Openers, CallOpen(o) \/ OpenStep(o) PROVE pc'[b] = "none"
  BY <1>4 DEF CallOpen, OpenStep, Spawn, Await, ReturnSize, PhaseSound
<1>5. ASSUME NEW f \in Files, DeletePool(f) \/ FreePool(f) PROVE pc'[b] = "none"
  BY <1>5 DEF DeletePool, FreePool
<1>6. ASSUME NEW f \in Files, SpawnClose(f) PROVE pc'[b] = "none"
  <2>1. b \notin {f} \X Servers /\ b \in Actors
    BY DEF CloseTasks, Actors
  <2> QED  BY <1>6, <2>1 DEF SpawnClose
<1> QED
  BY <1>1, <1>2, <1>3, <1>4, <1>5, <1>6 DEF Next, vars

LEMMA OpenFailsStep ==
  TypeOK /\ PhaseSound /\ OpenSound /\ OpenFailsOnlyIfAllFail /\ [Next]_vars
    => OpenFailsOnlyIfAllFail'
<1> SUFFICES ASSUME TypeOK, PhaseSound, OpenSound, OpenFailsOnlyIfAllFail, [Next]_vars,
                    NEW o \in Openers, caller'[o] = "returned", result'[o] = 0
             PROVE  AllFailed(o)'
  BY DEF OpenFailsOnlyIfAllFail, AllFailed
<1>1. AllFailed(o) => AllFailed(o)'
  <2> SUFFICES ASSUME AllFailed(o), NEW s \in Servers
               PROVE  pc'[<<o, s>>] = "end" /\ answer'[<<o, s>>] = 0
    BY DEF AllFailed
  <2>1. <<o, s>> \in Actors /\ pc[<<o, s>>] = "end" /\ answer[<<o, s>>] = 0
    BY OpenTaskShape DEF AllFailed, Actors
  <2> QED  BY <2>1, EndStable
<1>2. CASE caller[o] = "returned" /\ result[o] = 0
  BY <1>1, <1>2 DEF OpenFailsOnlyIfAllFail, AllFailed
<1>3. CASE ~(caller[o] = "returned" /\ result[o] = 0)
  <2>1. ReturnSize(o)
    BY <1>3 DEF TypeOK, Next, vars, TaskStep, UseSocket, TakeSocket, WaitForSocket, ReturnSocket, Notify,
         WakeSpuriously, CheckSize, SetSize, Join, SetValid, OpenTaskEnd, CloseTaskEnd,
         TransferStep, Pop, Retry, PushOld, Push, StartTransfer, CallOpen, OpenStep, Spawn,
         Await, ReturnSize, DeletePool, SpawnClose, FreePool, openVars
  <2>2. caller[o] = "return" /\ fileSize[fileOf[o]] = 0
    BY <2>1 DEF ReturnSize, TypeOK
  <2> QED  BY <1>1, <2>2 DEF OpenSound, CallerKnows
<1> QED  BY <1>2, <1>3

(* The destructor of a pool goes through its phases in order.              *)
LEMMA PhaseMoves ==
  ASSUME TypeOK, [Next]_vars, NEW f \in Files
  PROVE  \/ phase'[f] = phase[f]
         \/ phase[f] = "live" /\ phase'[f] = "waiting"
         \/ phase[f] = "waiting" /\ phase'[f] = "closing" /\ SpawnClose(f)
         \/ phase[f] = "closing" /\ phase'[f] = "freed" /\ FreePool(f)
BY DEF TypeOK, Next, vars, TaskStep, UseSocket, TakeSocket, WaitForSocket, ReturnSocket, Notify,
       WakeSpuriously, CheckSize, SetSize, Join, SetValid, OpenTaskEnd, CloseTaskEnd,
       TransferStep, Pop, Retry, PushOld, Push, StartTransfer, CallOpen, OpenStep, Spawn,
       Await, ReturnSize, DeletePool, SpawnClose, FreePool

LEMMA OutlivesStep ==
  TypeOK /\ TaskSound /\ PhaseSound /\ OpenSound /\ PoolOutlivesTasks /\ [Next]_vars
    => PoolOutlivesTasks'
<1> SUFFICES ASSUME TypeOK, TaskSound, PhaseSound, OpenSound, PoolOutlivesTasks, [Next]_vars,
                    NEW f \in Files, phase'[f] \in {"closing", "freed"}
             PROVE  /\ \A t \in Threads : file'[t] # f
                    /\ \A a \in OpenTasks : fileOf[a[1]] = f => pc'[a] \in {"none", "end"}
                    /\ phase'[f] = "freed" => \A s \in Servers : pc'[<<f, s>>] = "end"
  BY DEF PoolOutlivesTasks
<1>1. \A t \in Threads : file'[t] # f
  <2>1. PhaseSound' /\ TaskSound'
    BY PhaseStep, TaskSoundStep
  <2>2. ~Running'
    BY DEF Running
  <2> QED  BY <2>1, <2>2, NoneIsNothing DEF PhaseSound, TaskSound
<1>2. phase[f] # "live" /\ ~Running
  <2>1. phase[f] # "live"
    BY PhaseMoves
  <2> QED  BY <2>1 DEF Running
<1>3. ASSUME NEW a \in OpenTasks, fileOf[a[1]] = f PROVE pc'[a] \in {"none", "end"}
  <2>1. pc[a] \in {"none", "end"}
    <3>1. CASE phase[f] \in {"closing", "freed"}
      BY <1>3, <3>1 DEF PoolOutlivesTasks
    <3>2. CASE phase[f] = "waiting"
      <4>1. SpawnClose(f)
        BY <3>2, PhaseMoves
      <4>2. ActiveTasks(f) = {}
        BY <4>1, ActiveFinite, FS_EmptySet DEF OpenSound, Counted, SpawnClose
      <4> QED  BY <1>3, <4>2 DEF ActiveTasks
    <3> QED  BY <1>2, <3>1, <3>2 DEF TypeOK
  <2> QED  BY <1>2, <2>1, EndStable, NoneStable DEF Actors
<1>4. ASSUME phase'[f] = "freed", NEW s \in Servers PROVE pc'[<<f, s>>] = "end"
  <2>1. <<f, s>> \in Actors
    BY DEF Actors, CloseTasks
  <2>2. CASE phase[f] = "freed"
    BY <2>1, <2>2, EndStable DEF PoolOutlivesTasks
  <2>3. CASE phase[f] # "freed"
    <3>1. FreePool(f)
      BY <1>4, <2>3, PhaseMoves
    <3> QED  BY <2>1, <3>1, EndStable DEF FreePool
  <2> QED  BY <2>2, <2>3
<1> QED  BY <1>1, <1>3, <1>4

-------------------------------------------------------------------------------
(* Wakeups.                                                                *)
LEMMA WakeFinite ==
  ASSUME TypeOK, NEW s \in Servers
  PROVE  IsFiniteSet(Free(s)) /\ IsFiniteSet(Coming(s))
<1>1. Free(s) \subseteq Sockets /\ Coming(s) \subseteq Actors
  BY DEF TypeOK, Free, Coming
<1> QED  BY <1>1, PoolConstants, ActorFacts, FS_Subset

(* A step after which nobody else waits, nobody who comes has left and no  *)
(* socket came back loses no wakeup.                                       *)
LEMMA WakeQuiet ==
  ASSUME TypeOK, TypeOK', NoLostWakeup, UNCHANGED sockets,
         \A a \in Actors :
            /\ pc'[a] = "wait" => pc[a] = "wait" /\ ServerOf(a)' = ServerOf(a)
            /\ pc[a] \in {"lock", "notify"}
                 => pc'[a] \in {"lock", "notify"} /\ ServerOf(a)' = ServerOf(a)
  PROVE  NoLostWakeup'
<1> SUFFICES ASSUME NEW s \in Servers, Waiting(s)' # {}
             PROVE  Cardinality(Free(s)') <= Cardinality(Coming(s)')
  BY DEF NoLostWakeup
<1>1. Waiting(s) # {} /\ Free(s)' = Free(s) /\ Coming(s) \subseteq Coming(s)'
  BY DEF Waiting, Free, Coming
<1>2. IsFiniteSet(Free(s)) /\ IsFiniteSet(Coming(s)) /\ IsFiniteSet(Coming(s)')
  <2>1. Coming(s)' \subseteq Actors
    BY DEF Coming
  <2> QED  BY <2>1, WakeFinite, ActorFacts, FS_Subset
<1>3. Cardinality(Coming(s)) <= Cardinality(Coming(s)')
  BY <1>1, <1>2, FS_Subset
<1>4. Cardinality(Free(s)) <= Cardinality(Coming(s))
  BY <1>1 DEF NoLostWakeup
<1>5. /\ Cardinality(Free(s)) \in Nat /\ Cardinality(Coming(s)) \in Nat
      /\ Cardinality(Coming(s)') \in Nat
  BY <1>2, FS_CardinalityType
<1> QED  BY <1>1, <1>3, <1>4, <1>5

(* The servers whose sockets an actor's step does not touch.               *)
LEMMA WakeElsewhere ==
  ASSUME NoLostWakeup, NEW s \in Servers, Waiting(s)' # {},
         Waiting(s)' = Waiting(s), Free(s)' = Free(s), Coming(s)' = Coming(s)
  PROVE  Cardinality(Free(s)') <= Cardinality(Coming(s)')
BY DEF NoLostWakeup

LEMMA WakeStep ==
  TypeOK /\ TypeOK' /\ TaskSound /\ SocketSound /\ PhaseSound /\ SocketsConserved /\ NoLostWakeup
     /\ [Next]_vars => NoLostWakeup'
<1> SUFFICES ASSUME TypeOK, TypeOK', TaskSound, SocketSound, PhaseSound, SocketsConserved,
                    NoLostWakeup, [Next]_vars
             PROVE  NoLostWakeup'
  OBVIOUS
<1> USE DEF Goto
<1>1. ASSUME NEW a \in Actors, TakeSocket(a) PROVE NoLostWakeup'
  <2> SUFFICES ASSUME NEW s \in Servers, Waiting(s)' # {}
               PROVE  Cardinality(Free(s)') <= Cardinality(Coming(s)')
    BY DEF NoLostWakeup
  <2>1. PICK x \in sockets : serverOf[x] = ServerOf(a) /\ sockets' = sockets \ {x}
    BY <1>1 DEF TakeSocket
  <2>2. /\ pc[a] = "lock" /\ pc'[a] = "request"
        /\ \A b \in Actors \ {a} : pc'[b] = pc[b]
        /\ \A b \in Actors : ServerOf(b)' = ServerOf(b)
    BY <1>1 DEF TakeSocket, TypeOK, ServerOf, poolVars
  <2>3. Waiting(s)' = Waiting(s)
    BY <2>2 DEF Waiting
  <2>4. CASE s = ServerOf(a)
    <3>1. x \in Free(s) /\ Free(s)' = Free(s) \ {x}
      BY <2>1, <2>4 DEF Free
    <3>2. a \in Coming(s) /\ Coming(s)' = Coming(s) \ {a}
      BY <2>2, <2>4 DEF Coming
    <3>3. /\ Cardinality(Free(s)') = Cardinality(Free(s)) - 1
          /\ Cardinality(Coming(s)') = Cardinality(Coming(s)) - 1
      BY <3>1, <3>2, WakeFinite, FS_RemoveElement
    <3>4. Cardinality(Free(s)) <= Cardinality(Coming(s))
      BY <2>3 DEF NoLostWakeup
    <3> QED  BY <3>3, <3>4, WakeFinite, FS_CardinalityType
  <2>5. CASE s # ServerOf(a)
    <3>1. Free(s)' = Free(s) /\ Coming(s)' = Coming(s)
      BY <2>1, <2>2, <2>5 DEF Free, Coming
    <3> QED  BY <2>3, <3>1, WakeElsewhere
  <2> QED  BY <2>4, <2>5
<1>2. ASSUME NEW a \in Actors, WaitForSocket(a) PROVE NoLostWakeup'
  <2> SUFFICES ASSUME NEW s \in Servers, Waiting(s)' # {}
               PROVE  Cardinality(Free(s)') <= Cardinality(Coming(s)')
    BY DEF NoLostWakeup
  <2>1. /\ pc[a] = "lock" /\ pc'[a] = "wait" /\ UNCHANGED sockets
        /\ \A b \in Actors \ {a} : pc'[b] = pc[b]
        /\ \A b \in Actors : ServerOf(b)' = ServerOf(b)
    BY <1>2 DEF WaitForSocket, TypeOK, ServerOf, poolVars, socketVars
  <2>2. CASE s = ServerOf(a)
    <3>1. Free(s)' = {} /\ Coming(s)' = Coming(s) \ {a}
      BY <1>2, <2>1, <2>2 DEF WaitForSocket, Free, Coming
    <3>2. Cardinality(Free(s)') = 0 /\ Cardinality(Coming(s)') \in Nat
      BY <3>1, WakeFinite, FS_RemoveElement, FS_EmptySet, FS_CardinalityType
    <3> QED  BY <3>2
  <2>3. CASE s # ServerOf(a)
    <3>1. Waiting(s)' = Waiting(s) /\ Free(s)' = Free(s) /\ Coming(s)' = Coming(s)
      BY <2>1, <2>3 DEF Waiting, Free, Coming
    <3> QED  BY <3>1, WakeElsewhere
  <2> QED  BY <2>2, <2>3
<1>3. ASSUME NEW a \in Actors, ReturnSocket(a) PROVE NoLostWakeup'
  <2> SUFFICES ASSUME NEW s \in Servers, Waiting(s)' # {}
               PROVE  Cardinality(Free(s)') <= Cardinality(Coming(s)')
    BY DEF NoLostWakeup
  <2>1. /\ pc[a] = "request" /\ pc'[a] = "notify" /\ sockets' = sockets \cup {sock[a]}
        /\ \A b \in Actors \ {a} : pc'[b] = pc[b]
        /\ \A b \in Actors : ServerOf(b)' = ServerOf(b)
    BY <1>3 DEF ReturnSocket, TypeOK, ServerOf, poolVars
  <2>2. serverOf[sock[a]] = ServerOf(a) /\ sock[a] \in Sockets /\ sock[a] \notin sockets
    BY <2>1 DEF SocketSound, SocketsConserved, TypeOK
  <2>3. Waiting(s)' = Waiting(s)
    BY <2>1 DEF Waiting
  <2>4. CASE s = ServerOf(a)
    <3>1. PICK x : x \notin Free(s) /\ Free(s)' = Free(s) \cup {x}
      BY <2>1, <2>2, <2>4 DEF Free
    <3>2. a \notin Coming(s) /\ Coming(s)' = Coming(s) \cup {a}
      BY <2>1, <2>4 DEF Coming
    <3>3. /\ Cardinality(Free(s)') = Cardinality(Free(s)) + 1
          /\ Cardinality(Coming(s)') = Cardinality(Coming(s)) + 1
      BY <3>1, <3>2, WakeFinite, FS_AddElement
    <3>4. Cardinality(Free(s)) <= Cardinality(Coming(s))
      BY <2>3 DEF NoLostWakeup
    <3> QED  BY <3>3, <3>4, WakeFinite, FS_CardinalityType
  <2>5. CASE s # ServerOf(a)
    <3>1. Free(s)' = Free(s) /\ Coming(s)' = Coming(s)
      BY <2>1, <2>2, <2>5 DEF Free, Coming
    <3> QED  BY <2>3, <3>1, WakeElsewhere
  <2> QED  BY <2>4, <2>5
<1>4. ASSUME NEW a \in Actors, Notify(a) PROVE NoLostWakeup'
  <2> SUFFICES ASSUME NEW s \in Servers, Waiting(s)' # {}
               PROVE  Cardinality(Free(s)') <= Cardinality(Coming(s)')
    BY DEF NoLostWakeup
  <2>1. /\ pc[a] = "notify" /\ UNCHANGED sockets
        /\ \A b \in Actors : ServerOf(b)' = ServerOf(b)
        /\ AfterUnlock(a) \notin {"wait", "lock", "notify"}
    BY <1>4 DEF Notify, ServerOf, poolVars, socketVars, AfterUnlock
  <2>2. Free(s)' = Free(s)
    BY <2>1 DEF Free
  <2>3. ASSUME NEW w \in Waiting(ServerOf(a)), pc' = [pc EXCEPT ![a] = AfterUnlock(a), ![w] = "lock"]
        PROVE  Cardinality(Free(s)') <= Cardinality(Coming(s)')
    <3>1. /\ w \in Actors /\ w # a /\ pc[w] = "wait" /\ ServerOf(w) = ServerOf(a)
          /\ pc'[w] = "lock" /\ pc'[a] = AfterUnlock(a)
          /\ \A b \in Actors \ {a, w} : pc'[b] = pc[b]
      BY <2>1, <2>3 DEF Waiting, TypeOK
    <3>2. CASE s = ServerOf(a)
      <4>1. /\ a \in Coming(s) /\ w \notin Coming(s) \ {a}
            /\ Coming(s)' = (Coming(s) \ {a}) \cup {w}
        BY <2>1, <3>1, <3>2 DEF Coming
      <4>2. IsFiniteSet(Coming(s) \ {a}) /\ Cardinality(Coming(s) \ {a}) = Cardinality(Coming(s)) - 1
        BY <4>1, WakeFinite, FS_RemoveElement
      <4>3. Cardinality(Coming(s)') = Cardinality(Coming(s)) - 1 + 1
        BY <4>1, <4>2, FS_AddElement
      <4>4. Cardinality(Free(s)) <= Cardinality(Coming(s))
        BY <2>3, <3>2 DEF NoLostWakeup
      <4> QED  BY <2>2, <4>3, <4>4, WakeFinite, FS_CardinalityType
    <3>3. CASE s # ServerOf(a)
      <4>1. Waiting(s)' = Waiting(s) /\ Coming(s)' = Coming(s)
        BY <2>1, <3>1, <3>3 DEF Waiting, Coming
      <4> QED  BY <2>2, <4>1, WakeElsewhere
    <3> QED  BY <3>2, <3>3
  <2>4. ASSUME Waiting(ServerOf(a)) = {}, pc' = [pc EXCEPT ![a] = AfterUnlock(a)]
        PROVE  Cardinality(Free(s)') <= Cardinality(Coming(s)')
    <3>1. pc'[a] = AfterUnlock(a) /\ \A b \in Actors \ {a} : pc'[b] = pc[b]
      BY <2>4 DEF TypeOK
    <3>2. Waiting(s)' = Waiting(s)
      BY <2>1, <3>1 DEF Waiting
    <3>3. s # ServerOf(a)
      BY <2>4, <3>2
    <3>4. Coming(s)' = Coming(s)
      BY <2>1, <3>1, <3>3 DEF Coming
    <3> QED  BY <2>2, <3>2, <3>4, WakeElsewhere
  <2> QED  BY <1>4, <2>3, <2>4 DEF Notify
<1>5. ASSUME NEW a \in Actors, WakeSpuriously(a) PROVE NoLostWakeup'
  BY <1>5, WakeQuiet DEF WakeSpuriously, ServerOf, poolVars, socketVars, TypeOK
<1>6. ASSUME NEW a \in Actors,
             CheckSize(a) \/ SetSize(a) \/ Join(a) \/ SetValid(a) \/ OpenTaskEnd(a) \/ CloseTaskEnd(a)
      PROVE  NoLostWakeup'
  <2>1. UNCHANGED sockets /\ \A b \in Actors : ServerOf(b)' = ServerOf(b)
    BY <1>6 DEF CheckSize, SetSize, Join, SetValid, OpenTaskEnd, CloseTaskEnd, ServerOf,
                poolVars, socketVars
  <2>2. \A b \in Actors : pc'[b] = pc[b] \/ {pc[b], pc'[b]} \cap {"wait", "lock", "notify"} = {}
    BY <1>6 DEF CheckSize, SetSize, Join, SetValid, OpenTaskEnd, CloseTaskEnd, TypeOK
  <2> QED  BY <2>1, <2>2, WakeQuiet
<1>7. ASSUME NEW t \in Threads, TransferStep(t) PROVE NoLostWakeup'
  <2>1. UNCHANGED sockets /\ \A u \in Threads \ {t} : sev'[u] = sev[u]
    BY <1>7 DEF TransferStep, Pop, Retry, PushOld, Push, socketVars, TypeOK
  <2>2. /\ \A b \in Actors \ {t} : pc'[b] = pc[b]
        /\ pc[t] \notin {"wait", "lock", "notify"} /\ pc'[t] # "wait"
    BY <1>7 DEF TransferStep, Pop, Retry, PushOld, Push, TypeOK, Actors
  <2>3. \A b \in Actors \ {t} : ServerOf(b)' = ServerOf(b)
    BY <2>1 DEF ServerOf
  <2> QED  BY <2>1, <2>2, <2>3, WakeQuiet
<1>8. ASSUME NEW t \in Threads, NEW f \in Files, StartTransfer(t, f) PROVE NoLostWakeup'
  <2>1. UNCHANGED sockets /\ \A b \in Actors : ServerOf(b)' = ServerOf(b)
    BY <1>8 DEF StartTransfer, ServerOf, socketVars
  <2>2. \A b \in Actors : pc'[b] = pc[b] \/ {pc[b], pc'[b]} \cap {"wait", "lock", "notify"} = {}
    BY <1>8 DEF StartTransfer, TypeOK
  <2> QED  BY <2>1, <2>2, WakeQuiet
<1>9. ASSUME NEW o \in Openers, CallOpen(o) \/ OpenStep(o) PROVE NoLostWakeup'
  <2>1. UNCHANGED sockets /\ \A b \in Actors : ServerOf(b)' = ServerOf(b)
    BY <1>9 DEF CallOpen, OpenStep, Spawn, Await, ReturnSize, ServerOf, poolVars, socketVars
  <2>2. \A b \in Actors : \/ pc'[b] = pc[b]
                          \/ pc[b] = "none" /\ pc'[b] = "lock"
    BY <1>9 DEF CallOpen, OpenStep, Spawn, Await, ReturnSize, TypeOK
  <2> QED  BY <2>1, <2>2, WakeQuiet
<1>10. ASSUME NEW f \in Files, DeletePool(f) \/ SpawnClose(f) \/ FreePool(f) PROVE NoLostWakeup'
  <2>1. UNCHANGED sockets /\ \A b \in Actors : ServerOf(b)' = ServerOf(b)
    BY <1>10 DEF DeletePool, SpawnClose, FreePool, ServerOf, poolVars, socketVars
  <2>2. \A b \in Actors : \/ pc'[b] = pc[b]
                          \/ pc[b] = "none" /\ pc'[b] = "lock"
    BY <1>10 DEF DeletePool, SpawnClose, FreePool, PhaseSound
  <2> QED  BY <2>1, <2>2, WakeQuiet
<1>11. ASSUME UNCHANGED vars PROVE NoLostWakeup'
  BY <1>11, WakeQuiet DEF vars, poolVars, socketVars, ServerOf
<1> QED
  BY <1>1, <1>2, <1>3, <1>4, <1>5, <1>6, <1>7, <1>8, <1>9, <1>10, <1>11
  DEF Next, TaskStep, UseSocket

-------------------------------------------------------------------------------
LEMMA InitIInv == Init => IInv
<1> SUFFICES ASSUME Init PROVE IInv
  OBVIOUS
<1> USE PoolConstants, ActorFacts, NoneIsNothing DEF Init
<1>1. TypeOK
  BY DEF TypeOK, ThreadPCs, OpenPCs, ClosePCs, Locking, Actors
<1>2. TaskSound /\ SocketSound /\ PhaseSound
  BY DEF TaskSound, SocketSound, PhaseSound, Running, Actors, CloseTasks
<1>3. OpenSound
  <2>1. Counted
    <3>1. \A f \in Files : ActiveTasks(f) = {}
      BY DEF ActiveTasks, Actors
    <3> QED  BY <3>1, FS_EmptySet DEF Counted
  <2>2. ValidKnown /\ (\A a \in OpenTasks : TaskKnows(a)) /\ \A o \in Openers : CallerKnows(o)
    BY DEF ValidKnown, TaskKnows, CallerKnows, Actors
  <2> QED  BY <2>1, <2>2 DEF OpenSound
<1>4. EntriesConserved
  BY DEF EntriesConserved, Borrowers
<1>5. SocketsConserved
  BY DEF SocketsConserved
<1>6. NoLostWakeup
  BY DEF NoLostWakeup, Waiting
<1>7. OpenFailsOnlyIfAllFail /\ PoolOutlivesTasks
  BY DEF OpenFailsOnlyIfAllFail, PoolOutlivesTasks
<1> QED  BY <1>1, <1>2, <1>3, <1>4, <1>5, <1>6, <1>7 DEF IInv

(* Every step of transfers, opens and destructors keeps IInv.              *)
THEOREM PoolInductive == Spec => []IInv
<1>1. IInv /\ [Next]_vars => IInv'
  BY TypeStep, TaskSoundStep, SocketStep, OpenSoundStep, PhaseStep, EntriesStep, WakeStep,
     OpenFailsStep, OutlivesStep DEF IInv
<1> QED  BY InitIInv, <1>1, PTL DEF Spec

(* The variables of the pools, the sockets and the tasks have their types; *)
(* _servers_requested never goes below zero.                               *)
THEOREM TypeCorrect == Spec => []TypeOK
<1>1. IInv => TypeOK
  BY DEF IInv
<1> QED  BY <1>1, PoolInductive, PTL

(* popConnection, pushConnection and the retries of NetworkCache::readBlock*)
(* lose and duplicate no entry of a pool.                                  *)
THEOREM EntriesCorrect == Spec => []EntriesConserved
<1>1. IInv => EntriesConserved
  BY DEF IInv
<1> QED  BY <1>1, PoolInductive, PTL

(* Connection::lock and unlock give a socket to one thread at a time, for  *)
(* its connection, and lose none.                                          *)
THEOREM SocketsCorrect == Spec => []SocketsConserved
<1>1. IInv => SocketsConserved
  BY DEF IInv
<1> QED  BY <1>1, PoolInductive, PTL

(* notify_one after the mutex was released wakes enough waiters of         *)
(* Connection::lock.                                                       *)
THEOREM WakeupsCorrect == Spec => []NoLostWakeup
<1>1. IInv => NoLostWakeup
  BY DEF IInv
<1> QED  BY <1>1, PoolInductive, PTL

(* openFileOnAllServers reports no size only when every server failed.     *)
THEOREM OpenCorrect == Spec => []OpenFailsOnlyIfAllFail
<1>1. IInv => OpenFailsOnlyIfAllFail
  BY DEF IInv
<1> QED  BY <1>1, PoolInductive, PTL

(* ~ConnectionPool runs when nothing else uses the pool and returns when   *)
(* its own tasks ended.                                                    *)
THEOREM DestructorCorrect == Spec => []PoolOutlivesTasks
<1>1. IInv => PoolOutlivesTasks
  BY DEF IInv
<1> QED  BY <1>1, PoolInductive, PTL

(* A pool with more entries than transfer threads never has all of them in *)
(* the hands of threads that wait for another: if none is in the pool or   *)
(* in use, each is the oldSev of a thread of its own.                      *)
THEOREM PoolServesCorrect == Spec => []PoolServes
<1>1. TypeOK /\ EntriesConserved => PoolServes
  <2> SUFFICES ASSUME TypeOK, EntriesConserved, NEW f \in Files, phase[f] = "live",
                      PoolOf(f) = {},
                      \A t \in Threads : sev[t] = None \/ EntryFile(sev[t]) # f
               PROVE  ~(Cardinality(EntriesOf(f)) > Cardinality(Threads))
    BY DEF PoolServes
  <2> DEFINE T == {t \in Threads : old[t] \in EntriesOf(f)}
             g == [t \in T |-> old[t]]
  <2>1. \A e \in EntriesOf(f) : \E t \in T : g[t] = e
    <3> TAKE e \in EntriesOf(f)
    <3>1. e \in Entries /\ e \in joined /\ EntryFile(e) = f /\ e # None
      BY NoneIsNothing DEF EntriesOf, TypeOK
    <3>2. e \notin mq
      BY <3>1 DEF PoolOf
    <3>3. PICK t \in Threads : e \in {sev[t], old[t]}
      BY <3>1, <3>2 DEF EntriesConserved, Borrowers
    <3>4. e = old[t]
      BY <3>1, <3>3
    <3> QED  BY <3>4
  <2>2. g \in Surjection(T, EntriesOf(f))
    BY <2>1 DEF Surjection
  <2>3. IsFiniteSet(T) /\ Cardinality(T) <= Cardinality(Threads)
    BY PoolConstants, FS_Subset
  <2>4. Cardinality(EntriesOf(f)) <= Cardinality(T) /\ IsFiniteSet(EntriesOf(f))
    BY <2>2, <2>3, FS_Surjection
  <2> HIDE DEF T, g
  <2> QED  BY <2>3, <2>4, PoolConstants, FS_CardinalityType
<1>2. IInv => TypeOK /\ EntriesConserved
  BY DEF IInv
<1> QED  BY <1>1, <1>2, PoolInductive, PTL
===============================================================================
