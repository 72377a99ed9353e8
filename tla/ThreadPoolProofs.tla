--------------------------- MODULE ThreadPoolProofs ---------------------------
(* Proofs about ThreadPool, for any finite sets of clients, threads and    *)
(* tasks.                                                                  *)
EXTENDS ThreadPool, FiniteSetTheorems, TLAPS

WorkerPCs == {"none", "top", "look", "wait", "woken", "run", "notify", "leave", "exited"}

(* What is counted is finite.                                              *)
LEMMA Finite ==
  ASSUME TypeOK
  PROVE  /\ IsFiniteSet(q) /\ IsFiniteSet(threads) /\ IsFiniteSet(Running)
         /\ IsFiniteSet(Using) /\ IsFiniteSet(Coming)
         /\ IsFiniteSet({t \in Tasks : by[t] = Owner})
<1> USE PoolConstants
<1>1. IsFiniteSet(q) /\ IsFiniteSet(threads)
  BY FS_Subset DEF TypeOK
<1>2. IsFiniteSet(Running)
  <2>1. Running \subseteq threads
    BY DEF Running
  <2> QED  BY <1>1, <2>1, FS_Subset
<1>3. IsFiniteSet(Using)
  <2>1. Using \subseteq Clients
    BY DEF Using
  <2> QED  BY <2>1, FS_Subset
<1>4. IsFiniteSet(Coming)
  <2>1. IsFiniteSet(Callers)
    BY FS_AddElement DEF Callers
  <2>2. IsFiniteSet(Workers \cup Callers)
    BY <2>1, FS_Union
  <2>3. Coming \subseteq Workers \cup Callers
    BY DEF Coming
  <2> QED  BY <2>2, <2>3, FS_Subset
<1>5. IsFiniteSet({t \in Tasks : by[t] = Owner})
  BY FS_Subset
<1> QED  BY <1>1, <1>2, <1>3, <1>4, <1>5

(* notify_one wakes a sleeping thread, if there is one, and no other.      *)
LEMMA WakeOne ==
  ASSUME NEW others \in [Workers -> WorkerPCs], NotifyOne(others),
         \A w \in Workers : wpc[w] = "wait" => others[w] = "wait"
  PROVE  /\ wpc' \in [Workers -> WorkerPCs]
         /\ \A w \in Workers : wpc'[w] = others[w] \/ (wpc[w] = "wait" /\ wpc'[w] = "woken")
         /\ Waiting # {} => \E w \in Waiting : wpc'[w] = "woken"
         /\ Waiting = {} => wpc' = others
<1>1. CASE \E w \in Waiting : wpc' = [others EXCEPT ![w] = "woken"]
  <2>1. PICK w \in Waiting : wpc' = [others EXCEPT ![w] = "woken"]
    BY <1>1
  <2> QED  BY <2>1 DEF Waiting, WorkerPCs
<1>2. CASE Waiting = {} /\ wpc' = others
  BY <1>2
<1> QED  BY <1>1, <1>2 DEF NotifyOne

(* Somebody who uses the pool is counted.                                  *)
LEMMA UsersCounted ==
  ASSUME TypeOK, ThreadsMatchUsers, ~Ending,
         Using # {} \/ cpc[Owner] = "adding"
  PROVE  users > 0
<1>1. /\ Cardinality(Using) \in Nat
      /\ Using # {} => Cardinality(Using) # 0
      /\ Cardinality({t \in Tasks : by[t] = Owner}) \in Nat
  BY Finite, FS_EmptySet, FS_CardinalityType
<1>2. users = Cardinality(Using) + OwnerCalls
  BY DEF ThreadsMatchUsers
<1>3. OwnerCalls \in Nat /\ (cpc[Owner] = "adding" => OwnerCalls # 0)
  BY <1>1 DEF OwnerCalls
<1> QED  BY <1>1, <1>2, <1>3

(* A pool that nobody stops is alive, so addThreads counts and starts.     *)
LEMMA AliveIfFree ==
  ASSUME TMutexFree, ~Ending, StopSound
  PROVE  alive
BY DEF TMutexFree, StopSound, Terminating, Callers

LEMMA AddThreadsFacts ==
  ASSUME TypeOK, StopSound, WorkersSound, ~Ending,
         NEW n \in Nat \ {0}, AddThreads(n)
  PROVE  /\ TMutexFree /\ alive /\ alive' = alive
         /\ users' = users + 1
         /\ threads' # {}
         /\ \E W \in SUBSET (Workers \ threads) :
              /\ IsFiniteSet(W)
              /\ threads' = threads \cup W
              /\ current' = current + Cardinality(W)
              /\ wpc' = [w \in Workers |-> IF w \in W THEN "top" ELSE wpc[w]]
         /\ UNCHANGED <<q, task, drainVars, taskVars>>
<1> USE PoolConstants
<1>1. alive /\ TMutexFree
  BY AliveIfFree DEF AddThreads
<1>2. /\ IsFiniteSet(threads) /\ Cardinality(threads) \in Nat
      /\ Cardinality(threads) <= MaxThreads
      /\ threads = {} => Cardinality(threads) = 0
  BY Finite, FS_Subset, FS_CardinalityType, FS_EmptySet DEF TypeOK
<1> DEFINE missing == MaxThreads - Cardinality(threads)
           added == IF n > missing THEN missing ELSE n
<1>3. PICK W \in SUBSET (Workers \ threads) :
        /\ Cardinality(W) = added
        /\ threads' = threads \cup W
        /\ current' = current + added
        /\ wpc' = [w \in Workers |-> IF w \in W THEN "top" ELSE wpc[w]]
  BY <1>1 DEF AddThreads
<1>4. IsFiniteSet(W)
  BY FS_Subset
<1>5. threads' # {}
  <2>1. threads = {} => Cardinality(W) # 0
    BY <1>2, <1>3
  <2> QED  BY <1>3, <2>1, FS_EmptySet
<1> HIDE DEF added
<1>6. current' = current + Cardinality(W)
  BY <1>3
<1> QED  BY <1>1, <1>3, <1>4, <1>5, <1>6 DEF AddThreads

-------------------------------------------------------------------------------
LEMMA TypeStep ==
  TypeOK /\ WorkersSound /\ StopSound /\ CountExact /\ [Next]_vars => TypeOK'
<1> SUFFICES ASSUME TypeOK, WorkersSound, StopSound, CountExact, [Next]_vars PROVE TypeOK'
  OBVIOUS
<1> USE PoolConstants DEF TypeOK, Callers, Terminating, threadVars, drainVars, taskVars
<1>1. ASSUME NEW c \in Clients, Initiate(c) PROVE TypeOK'
  <2>1. ~Ending /\ AddThreads(MaxThreads) /\ cpc' = [cpc EXCEPT ![c] = "using"]
    BY <1>1 DEF Initiate
  <2>2. PICK W \in SUBSET (Workers \ threads) :
          /\ IsFiniteSet(W)
          /\ threads' = threads \cup W
          /\ current' = current + Cardinality(W)
          /\ wpc' = [w \in Workers |-> IF w \in W THEN "top" ELSE wpc[w]]
    BY <2>1, AddThreadsFacts
  <2>3. Cardinality(W) \in Nat
    BY <2>2, FS_CardinalityType
  <2>4. alive' = alive /\ users' = users + 1 /\ UNCHANGED <<q, task, drainVars, taskVars>>
    BY <2>1, AddThreadsFacts
  <2> QED  BY <2>1, <2>2, <2>3, <2>4
<1>2. ASSUME AddThreadWithTask PROVE TypeOK'
  <2>1. ~Ending /\ AddThreads(1) /\ cpc' = [cpc EXCEPT ![Owner] = "adding"]
    BY <1>2 DEF AddThreadWithTask, Ending
  <2>2. PICK W \in SUBSET (Workers \ threads) :
          /\ IsFiniteSet(W)
          /\ threads' = threads \cup W
          /\ current' = current + Cardinality(W)
          /\ wpc' = [w \in Workers |-> IF w \in W THEN "top" ELSE wpc[w]]
    BY <2>1, AddThreadsFacts
  <2>3. Cardinality(W) \in Nat
    BY <2>2, FS_CardinalityType
  <2>4. alive' = alive /\ users' = users + 1 /\ UNCHANGED <<q, task, drainVars, taskVars>>
    BY <2>1, AddThreadsFacts
  <2> QED  BY <2>1, <2>2, <2>3, <2>4
<1>3. ASSUME NEW c \in Callers, NEW t \in Tasks, AddTask(c, t) PROVE TypeOK'
  BY <1>3 DEF AddTask
<1>4. ASSUME NEW c \in Callers, Notify(c) PROVE TypeOK'
  <2>1. wpc' \in [Workers -> WorkerPCs]
    BY <1>4, WakeOne DEF Notify, WorkerPCs
  <2> QED  BY <1>4, <2>1 DEF Notify, WorkerPCs
<1>5. ASSUME NEW c \in Callers, Terminate(c) PROVE TypeOK'
  <2>1. Cardinality(q) \in Nat
    BY Finite, FS_CardinalityType
  <2> QED  BY <1>5, <2>1 DEF Terminate
<1>6. ASSUME NEW c \in Callers, Sleep(c) PROVE TypeOK'
  BY <1>6 DEF Sleep
<1>7. ASSUME NEW c \in Callers, CheckProgress(c) PROVE TypeOK'
  <2>1. Cardinality(q) \in Nat
    BY Finite, FS_CardinalityType
  <2> QED  BY <1>7, <2>1 DEF CheckProgress
<1>8. ASSUME NEW c \in Callers, StopThreads(c) PROVE TypeOK'
  BY <1>8 DEF StopThreads
<1>9. ASSUME NEW c \in Callers, NotifyAll(c) PROVE TypeOK'
  BY <1>9 DEF NotifyAll
<1>10. ASSUME NEW c \in Callers, Join(c) PROVE TypeOK'
  BY <1>10 DEF Join
<1>11. ASSUME NEW w \in Workers, Test(w) \/ FindNothing(w) \/ WakeSpuriously(w) PROVE TypeOK'
  BY <1>11 DEF Test, FindNothing, WakeSpuriously
<1>12. ASSUME NEW w \in Workers, Pop(w) PROVE TypeOK'
  BY <1>12 DEF Pop
<1>13. ASSUME NEW w \in Workers, AddItself(w) PROVE TypeOK'
  <2>1. PICK t \in Tasks : t = task[w]
    BY <1>13 DEF AddItself
  <2>2. /\ turns' = [turns EXCEPT ![t] = @ + 1]
        /\ turns[t] < MaxTurns
        /\ q' = q \cup {t} /\ wpc' = [wpc EXCEPT ![w] = "notify"]
        /\ UNCHANGED <<threadVars, task, cpc, drainVars, by>>
    BY <1>13, <2>1 DEF AddItself
  <2> QED  BY <2>2
<1>14. ASSUME NEW w \in Workers, NotifyAndEnd(w) PROVE TypeOK'
  <2>1. wpc' \in [Workers -> WorkerPCs]
    BY <1>14, WakeOne DEF NotifyAndEnd, WorkerPCs
  <2> QED  BY <1>14, <2>1 DEF NotifyAndEnd, WorkerPCs
<1>15. ASSUME NEW w \in Workers, End(w) PROVE TypeOK'
  BY <1>15 DEF End
<1>16. ASSUME NEW w \in Workers, Leave(w) PROVE TypeOK'
  <2>1. w \in Running
    BY <1>16 DEF Leave, Running, WorkersSound
  <2>2. current > 0
    BY <2>1, Finite, FS_EmptySet DEF CountExact
  <2> QED  BY <1>16, <2>2 DEF Leave
<1>17. ASSUME UNCHANGED vars PROVE TypeOK'
  BY <1>17 DEF vars
<1> QED
  BY <1>1, <1>2, <1>3, <1>4, <1>5, <1>6, <1>7, <1>8, <1>9, <1>10, <1>11, <1>12, <1>13, <1>14,
     <1>15, <1>16, <1>17 DEF Next, TerminateStep, WorkerStep

LEMMA OneTerminatesStep == TypeOK /\ OneTerminates /\ [Next]_vars => OneTerminates'
<1> SUFFICES ASSUME TypeOK, OneTerminates, [Next]_vars PROVE OneTerminates'
  OBVIOUS
<1> USE PoolConstants DEF TypeOK, OneTerminates, Terminating
<1>1. ASSUME NEW c \in Callers, cpc' = [cpc EXCEPT ![c] = cpc'[c]],
             cpc'[c] \in Terminating => cpc[c] \in Terminating \/ TMutexFree
      PROVE  OneTerminates'
  BY <1>1 DEF TMutexFree
<1>2. CASE \E c \in Clients : Initiate(c)
  BY <1>1, <1>2 DEF Initiate, Callers
<1>3. CASE AddThreadWithTask
  BY <1>1, <1>3 DEF AddThreadWithTask, Callers
<1>4. CASE \E c \in Callers, t \in Tasks : AddTask(c, t)
  BY <1>1, <1>4 DEF AddTask
<1>5. CASE \E c \in Callers : Notify(c)
  BY <1>1, <1>5 DEF Notify
<1>6. CASE \E c \in Callers : Terminate(c)
  BY <1>1, <1>6 DEF Terminate
<1>7. CASE \E c \in Callers : TerminateStep(c)
  BY <1>1, <1>7 DEF TerminateStep, Sleep, CheckProgress, StopThreads, NotifyAll, Join
<1>8. CASE \E w \in Workers : WorkerStep(w) \/ WakeSpuriously(w)
  BY <1>8 DEF WorkerStep, WakeSpuriously, Test, Pop, FindNothing, AddItself, NotifyAndEnd, End, Leave
<1>9. CASE UNCHANGED vars
  BY <1>9 DEF vars
<1> QED  BY <1>2, <1>3, <1>4, <1>5, <1>6, <1>7, <1>8, <1>9 DEF Next

-------------------------------------------------------------------------------
(* A step that moves threads only between places where they hold no task   *)
(* and have not seen the pool dead keeps them in order.                    *)
NoTask == {"top", "look", "wait", "woken"}

LEMMA WorkersQuiet ==
  ASSUME WorkersSound, UNCHANGED threads, alive' => alive,
         \A w \in Workers : /\ task'[w] = task[w]
                            /\ wpc'[w] = wpc[w] \/ {wpc[w], wpc'[w]} \subseteq NoTask
  PROVE  WorkersSound'
BY DEF WorkersSound, NoTask

LEMMA WorkersSoundStep ==
  TypeOK /\ WorkersSound /\ StopSound /\ [Next]_vars => WorkersSound'
<1> SUFFICES ASSUME TypeOK, WorkersSound, StopSound, [Next]_vars PROVE WorkersSound'
  OBVIOUS
<1> USE PoolConstants DEF TypeOK, threadVars, drainVars, taskVars
<1>1. ASSUME NEW n \in Nat \ {0}, AddThreads(n), ~Ending PROVE WorkersSound'
  <2>1. PICK W \in SUBSET (Workers \ threads) :
          /\ threads' = threads \cup W
          /\ wpc' = [w \in Workers |-> IF w \in W THEN "top" ELSE wpc[w]]
    BY <1>1, AddThreadsFacts
  <2>2. UNCHANGED <<alive, task>>
    BY <1>1, AddThreadsFacts
  <2> QED  BY <2>1, <2>2 DEF WorkersSound
<1>2. CASE \E c \in Clients : Initiate(c)
  BY <1>1, <1>2 DEF Initiate
<1>3. CASE AddThreadWithTask
  BY <1>1, <1>3 DEF AddThreadWithTask, Ending, Terminating
<1>4. ASSUME NEW c \in Callers, Notify(c) PROVE WorkersSound'
  <2>1. \A w \in Workers : wpc'[w] = wpc[w] \/ (wpc[w] = "wait" /\ wpc'[w] = "woken")
    BY <1>4, WakeOne DEF Notify, WorkerPCs
  <2> QED  BY <1>4, <2>1, WorkersQuiet DEF Notify, NoTask
<1>5. CASE \E c \in Callers, t \in Tasks : AddTask(c, t)
  BY <1>5, WorkersQuiet DEF AddTask
<1>6. CASE \E c \in Callers : Terminate(c) \/ Sleep(c) \/ CheckProgress(c) \/ StopThreads(c)
  BY <1>6, WorkersQuiet DEF Terminate, Sleep, CheckProgress, StopThreads
<1>7. ASSUME NEW c \in Callers, NotifyAll(c) PROVE WorkersSound'
  BY <1>7, WorkersQuiet DEF NotifyAll, Waiting, NoTask
<1>8. ASSUME NEW c \in Callers, Join(c) PROVE WorkersSound'
  BY <1>8 DEF Join, WorkersSound
<1>9. ASSUME NEW w \in Workers, Test(w) PROVE WorkersSound'
  BY <1>9 DEF Test, WorkersSound
<1>10. ASSUME NEW w \in Workers, Pop(w) PROVE WorkersSound'
  BY <1>10 DEF Pop, WorkersSound
<1>11. ASSUME NEW w \in Workers, FindNothing(w) \/ WakeSpuriously(w) PROVE WorkersSound'
  BY <1>11, WorkersQuiet DEF FindNothing, WakeSpuriously, NoTask
<1>12. ASSUME NEW w \in Workers, AddItself(w) \/ End(w) PROVE WorkersSound'
  BY <1>12 DEF AddItself, End, WorkersSound
<1>13. ASSUME NEW w \in Workers, NotifyAndEnd(w) PROVE WorkersSound'
  <2>1. \A v \in Workers : \/ wpc'[v] = [wpc EXCEPT ![w] = "top"][v]
                           \/ wpc[v] = "wait" /\ wpc'[v] = "woken"
    BY <1>13, WakeOne DEF NotifyAndEnd, WorkerPCs
  <2> QED  BY <1>13, <2>1 DEF NotifyAndEnd, WorkersSound
<1>14. ASSUME NEW w \in Workers, Leave(w) PROVE WorkersSound'
  BY <1>14 DEF Leave, WorkersSound
<1>15. CASE UNCHANGED vars
  BY <1>15, WorkersQuiet DEF vars
<1> QED
  BY <1>2, <1>3, <1>4, <1>5, <1>6, <1>7, <1>8, <1>9, <1>10, <1>11, <1>12, <1>13, <1>14, <1>15
  DEF Next, TerminateStep, WorkerStep

LEMMA QueueSoundStep ==
  TypeOK /\ WorkersSound /\ QueueSound /\ [Next]_vars => QueueSound'
<1> SUFFICES ASSUME TypeOK, WorkersSound, QueueSound, [Next]_vars PROVE QueueSound'
  OBVIOUS
<1> USE PoolConstants DEF TypeOK, QueueSound, threadVars, drainVars, taskVars
<1>1. ASSUME UNCHANGED <<q, task, by>> PROVE QueueSound'
  BY <1>1
<1>2. CASE \/ \E c \in Clients : Initiate(c)
           \/ AddThreadWithTask
           \/ \E c \in Callers : Notify(c) \/ Terminate(c) \/ TerminateStep(c)
           \/ \E w \in Workers : \/ Test(w) \/ FindNothing(w) \/ Leave(w)
                                 \/ WakeSpuriously(w)
           \/ UNCHANGED vars
  BY <1>1, <1>2 DEF Initiate, AddThreadWithTask, AddThreads, Notify, Terminate, TerminateStep,
     Sleep, CheckProgress, StopThreads, NotifyAll, Join, Test, FindNothing, Leave,
     WakeSpuriously, vars
<1>3. ASSUME NEW c \in Callers, NEW t \in Tasks, AddTask(c, t) PROVE QueueSound'
  <2>1. c # None
    BY DEF Callers
  <2> QED  BY <1>3, <2>1 DEF AddTask
<1>4. ASSUME NEW w \in Workers, Pop(w) PROVE QueueSound'
  BY <1>4 DEF Pop
<1>5. ASSUME NEW w \in Workers, AddItself(w) PROVE QueueSound'
  BY <1>5 DEF AddItself, WorkersSound
<1>6. ASSUME NEW w \in Workers, NotifyAndEnd(w) \/ End(w) PROVE QueueSound'
  BY <1>6 DEF NotifyAndEnd, End
<1> QED  BY <1>2, <1>3, <1>4, <1>5, <1>6 DEF Next, WorkerStep

-------------------------------------------------------------------------------
(* Who adds a task uses the pool, so nobody stops its threads.             *)
LEMMA AddingNotStopped ==
  ASSUME TypeOK, ThreadsMatchUsers, StopSound,
         NEW c \in Callers, NEW t \in Tasks, AddTask(c, t)
  PROVE  users > 0 /\ ~Ending /\ threads # {} /\ \A d \in Callers : cpc[d] \notin Terminating
<1> USE PoolConstants
<1>1. ~Ending
  BY DEF AddTask, Ending, Terminating
<1>2. Using # {} \/ cpc[Owner] = "adding"
  BY DEF AddTask, Using
<1>3. users > 0
  BY <1>1, <1>2, UsersCounted
<1> QED  BY <1>1, <1>3 DEF StopSound, TypeOK, Callers, Ending

LEMMA StopSoundStep ==
  TypeOK /\ OneTerminates /\ WorkersSound /\ StopSound /\ ThreadsMatchUsers /\ [Next]_vars
    => StopSound'
<1> SUFFICES ASSUME TypeOK, OneTerminates, WorkersSound, StopSound, ThreadsMatchUsers, [Next]_vars
             PROVE  StopSound'
  OBVIOUS
<1> USE PoolConstants DEF threadVars, drainVars, taskVars, Callers, Ending, Terminating
<1>1. ASSUME ~Ending, TMutexFree, alive, alive' = alive, threads' # {}, UNCHANGED <<q, idle, turns>>,
             NEW c \in Callers, cpc' = [cpc EXCEPT ![c] = cpc'[c]], cpc'[c] \in {"using", "adding"}
      PROVE  StopSound'
  BY <1>1 DEF StopSound, TypeOK, TMutexFree
<1>2. ASSUME NEW c \in Clients, Initiate(c) PROVE StopSound'
  <2>1. cpc'[c] = "using" /\ cpc' = [cpc EXCEPT ![c] = cpc'[c]]
    BY <1>2 DEF Initiate, TypeOK
  <2>2. ~Ending /\ AddThreads(MaxThreads)
    BY <1>2 DEF Initiate
  <2>3. TMutexFree /\ alive /\ alive' = alive /\ threads' # {} /\ UNCHANGED <<q, idle, turns>>
    BY <2>2, AddThreadsFacts
  <2> QED  BY <1>1, <2>1, <2>2, <2>3
<1>3. CASE AddThreadWithTask
  <2>1. cpc'[Owner] = "adding" /\ cpc' = [cpc EXCEPT ![Owner] = cpc'[Owner]]
    BY <1>3 DEF AddThreadWithTask, TypeOK
  <2>2. ~Ending /\ AddThreads(1)
    BY <1>3 DEF AddThreadWithTask
  <2>3. TMutexFree /\ alive /\ alive' = alive /\ threads' # {} /\ UNCHANGED <<q, idle, turns>>
    BY <2>2, AddThreadsFacts
  <2> QED  BY <1>1, <2>1, <2>2, <2>3
<1>4. ASSUME NEW c \in Callers, NEW t \in Tasks, AddTask(c, t) PROVE StopSound'
  <2>1. \A d \in Callers : cpc[d] \notin Terminating
    BY <1>4, AddingNotStopped
  <2> QED  BY <1>4, <2>1 DEF AddTask, StopSound, TypeOK
<1>5. ASSUME NEW c \in Callers, Notify(c) PROVE StopSound'
  BY <1>5 DEF Notify, StopSound, TypeOK
<1>6. ASSUME NEW c \in Callers, Terminate(c) PROVE StopSound'
  <2>1. UNCHANGED <<alive, threads, q, turns>> /\ TMutexFree
    BY <1>6 DEF Terminate
  <2>2. users' \in Nat /\ users' <= users
    BY <1>6 DEF Terminate, TypeOK
  <2>3. CASE cpc' = [cpc EXCEPT ![c] = "drain"] /\ (users' = 0 \/ c = Owner)
    BY <1>6, <2>1, <2>2, <2>3 DEF StopSound, TypeOK, TMutexFree, Terminate
  <2>4. CASE cpc' = [cpc EXCEPT ![c] = "idle"] /\ c # Owner
    BY <2>1, <2>2, <2>4 DEF StopSound, TypeOK, TMutexFree
  <2> QED  BY <1>6, <2>3, <2>4 DEF Terminate
<1>7. ASSUME NEW c \in Callers, Sleep(c) \/ CheckProgress(c) PROVE StopSound'
  <2>1. \A d \in Callers : cpc[d] = "stop" => d = c
    BY <1>7 DEF Sleep, CheckProgress, OneTerminates
  <2> QED  BY <1>7, <2>1 DEF Sleep, CheckProgress, StopSound, TypeOK
<1>8. ASSUME NEW c \in Callers, StopThreads(c) PROVE StopSound'
  BY <1>8 DEF StopThreads, StopSound, OneTerminates, TypeOK
<1>9. ASSUME NEW c \in Callers, NotifyAll(c) PROVE StopSound'
  BY <1>9 DEF NotifyAll, StopSound
<1>10. ASSUME NEW c \in Callers, Join(c) PROVE StopSound'
  <2>1. \A d \in Callers : cpc[d] \in Terminating => d = c
    BY <1>10 DEF Join, OneTerminates
  <2>2. /\ threads' = {} /\ alive' = (c # Owner)
        /\ cpc' = [cpc EXCEPT ![c] = IF c = Owner THEN "gone" ELSE "idle"]
        /\ UNCHANGED <<users, q, idle, turns>>
    BY <1>10 DEF Join
  <2>3. \A d \in Callers : cpc'[d] \notin Terminating
    BY <2>1, <2>2 DEF TypeOK
  <2>4. CASE c = Owner
    BY <2>2, <2>3, <2>4 DEF TypeOK, StopSound
  <2>5. CASE c \in Clients
    <3>1. users = 0 /\ ~Ending
      BY <1>10, <2>5 DEF Join, StopSound
    <3>2. cpc'[Owner] = cpc[Owner] /\ alive'
      BY <2>2, <2>5 DEF TypeOK
    <3> QED  BY <2>2, <2>3, <3>1, <3>2 DEF StopSound
  <2> QED  BY <2>4, <2>5
<1>11. ASSUME NEW w \in Workers, Pop(w) PROVE StopSound'
  BY <1>11 DEF Pop, StopSound
<1>12. ASSUME NEW w \in Workers, AddItself(w) PROVE StopSound'
  <2>1. PICK t \in Tasks : t = task[w]
    BY <1>12 DEF AddItself, TypeOK, WorkersSound
  <2>2. turns'[t] > 0 /\ \A s \in Tasks \ {t} : turns'[s] = turns[s]
    BY <1>12, <2>1 DEF AddItself, TypeOK
  <2>3. q' = q \cup {t} /\ UNCHANGED <<threadVars, cpc, idle>>
    BY <1>12, <2>1 DEF AddItself
  <2> QED  BY <2>2, <2>3 DEF StopSound, TypeOK
<1>13. ASSUME NEW w \in Workers,
              \/ Test(w) \/ FindNothing(w) \/ NotifyAndEnd(w) \/ End(w) \/ Leave(w)
              \/ WakeSpuriously(w)
       PROVE  StopSound'
  BY <1>13 DEF Test, FindNothing, NotifyAndEnd, End, Leave, WakeSpuriously, StopSound
<1>14. CASE UNCHANGED vars
  BY <1>14 DEF vars, StopSound
<1> QED
  BY <1>2, <1>3, <1>4, <1>5, <1>6, <1>7, <1>8, <1>9, <1>10, <1>11, <1>12, <1>13, <1>14
  DEF Next, TerminateStep, WorkerStep

LEMMA NothingForgottenStep ==
  TypeOK /\ WorkersSound /\ StopSound /\ ThreadsMatchUsers /\ NothingForgotten /\ [Next]_vars
    => NothingForgotten'
<1> SUFFICES ASSUME TypeOK, WorkersSound, StopSound, ThreadsMatchUsers, NothingForgotten, [Next]_vars
             PROVE  NothingForgotten'
  OBVIOUS
<1> USE PoolConstants DEF threadVars, drainVars, taskVars, TMutexFree, Terminating
<1>1. CASE \E c \in Clients : Initiate(c)
  BY <1>1, AddThreadsFacts DEF Initiate, NothingForgotten
<1>2. CASE AddThreadWithTask
  BY <1>2, AddThreadsFacts DEF AddThreadWithTask, NothingForgotten, Ending
<1>3. CASE \E c \in Callers, t \in Tasks : AddTask(c, t)
  <2>1. threads # {}
    BY <1>3, AddingNotStopped
  <2> QED  BY <1>3, <2>1 DEF AddTask, NothingForgotten
<1>4. ASSUME NEW c \in Callers, Notify(c) PROVE NothingForgotten'
  BY <1>4 DEF Notify, NothingForgotten, TypeOK
<1>5. ASSUME NEW c \in Callers, Terminate(c) PROVE NothingForgotten'
  <2>1. CASE cpc' = [cpc EXCEPT ![c] = "drain"]
    BY <2>1 DEF NothingForgotten, TypeOK
  <2>2. CASE c \in Clients /\ ~Ending /\ users > 0
    <3>1. threads # {}
      BY <2>2 DEF StopSound
    <3> QED  BY <1>5, <3>1 DEF Terminate, NothingForgotten
  <2> QED  BY <1>5, <2>1, <2>2 DEF Terminate, TypeOK, Callers
<1>6. ASSUME NEW c \in Callers, Sleep(c) \/ CheckProgress(c) \/ StopThreads(c) \/ NotifyAll(c)
      PROVE  NothingForgotten'
  BY <1>6 DEF Sleep, CheckProgress, StopThreads, NotifyAll, NothingForgotten, TypeOK
<1>7. ASSUME NEW c \in Callers, Join(c) PROVE NothingForgotten'
  BY <1>7 DEF Join, NothingForgotten, StopSound
<1>8. ASSUME NEW w \in Workers, Pop(w) PROVE NothingForgotten'
  BY <1>8 DEF Pop, NothingForgotten
<1>9. ASSUME NEW w \in Workers, AddItself(w) PROVE NothingForgotten'
  <2>1. w \in threads
    BY <1>9 DEF AddItself, WorkersSound
  <2> QED  BY <1>9, <2>1 DEF AddItself, NothingForgotten
<1>10. ASSUME NEW w \in Workers,
              \/ Test(w) \/ FindNothing(w) \/ NotifyAndEnd(w) \/ End(w) \/ Leave(w)
              \/ WakeSpuriously(w)
       PROVE  NothingForgotten'
  BY <1>10 DEF Test, FindNothing, NotifyAndEnd, End, Leave, WakeSpuriously, NothingForgotten
<1>11. CASE UNCHANGED vars
  BY <1>11 DEF vars, NothingForgotten
<1> QED
  BY <1>1, <1>2, <1>3, <1>4, <1>5, <1>6, <1>7, <1>8, <1>9, <1>10, <1>11
  DEF Next, TerminateStep, WorkerStep

-------------------------------------------------------------------------------
LEMMA CountStep ==
  TypeOK /\ OneTerminates /\ WorkersSound /\ StopSound /\ CountExact /\ [Next]_vars => CountExact'
<1> SUFFICES ASSUME TypeOK, OneTerminates, WorkersSound, StopSound, CountExact, [Next]_vars
             PROVE  CountExact'
  OBVIOUS
<1> USE PoolConstants DEF TypeOK, threadVars, drainVars, taskVars
<1>1. ASSUME UNCHANGED <<threads, current>>,
             \A w \in Workers : wpc'[w] = "exited" <=> wpc[w] = "exited"
      PROVE  CountExact'
  BY <1>1 DEF CountExact, Running
<1>2. ASSUME NEW n \in Nat \ {0}, AddThreads(n), ~Ending PROVE CountExact'
  <2>1. PICK W \in SUBSET (Workers \ threads) :
          /\ IsFiniteSet(W)
          /\ threads' = threads \cup W
          /\ current' = current + Cardinality(W)
          /\ wpc' = [w \in Workers |-> IF w \in W THEN "top" ELSE wpc[w]]
    BY <1>2, AddThreadsFacts
  <2>2. Running' = Running \cup W /\ Running \cap W = {}
    BY <2>1 DEF Running
  <2>3. Cardinality(Running') = Cardinality(Running) + Cardinality(W)
    <3>1. Cardinality(Running \cup W)
            = Cardinality(Running) + Cardinality(W) - Cardinality(Running \cap W)
      BY <2>1, Finite, FS_Union
    <3>2. /\ Cardinality(Running) \in Nat /\ Cardinality(W) \in Nat
          /\ Cardinality(Running \cap W) = 0
      BY <2>1, <2>2, Finite, FS_CardinalityType, FS_EmptySet
    <3> QED  BY <2>2, <3>1, <3>2
  <2> QED  BY <2>1, <2>3 DEF CountExact
<1>3. CASE \E c \in Clients : Initiate(c)
  BY <1>2, <1>3 DEF Initiate
<1>4. CASE AddThreadWithTask
  BY <1>2, <1>4 DEF AddThreadWithTask, Ending, Terminating
<1>5. CASE \E c \in Callers, t \in Tasks : AddTask(c, t)
  BY <1>1, <1>5 DEF AddTask
<1>6. ASSUME NEW c \in Callers, Notify(c) PROVE CountExact'
  <2>1. \A w \in Workers : wpc'[w] = wpc[w] \/ (wpc[w] = "wait" /\ wpc'[w] = "woken")
    BY <1>6, WakeOne DEF Notify, WorkerPCs
  <2> QED  BY <1>1, <1>6, <2>1 DEF Notify
<1>7. CASE \E c \in Callers : \/ Terminate(c) \/ Sleep(c) \/ CheckProgress(c) \/ StopThreads(c)
                              \/ NotifyAll(c)
  BY <1>1, <1>7 DEF Terminate, Sleep, CheckProgress, StopThreads, NotifyAll, Waiting
<1>8. ASSUME NEW c \in Callers, Join(c) PROVE CountExact'
  <2>1. threads' = {} /\ current' = 0
    BY <1>8 DEF Join
  <2> QED  BY <2>1, FS_EmptySet DEF CountExact, Running
<1>9. CASE \E w \in Workers : \/ Test(w) \/ Pop(w) \/ FindNothing(w) \/ AddItself(w) \/ End(w)
                              \/ WakeSpuriously(w)
  BY <1>1, <1>9 DEF Test, Pop, FindNothing, AddItself, End, WakeSpuriously
<1>10. ASSUME NEW w \in Workers, NotifyAndEnd(w) PROVE CountExact'
  <2>1. \A v \in Workers : \/ wpc'[v] = [wpc EXCEPT ![w] = "top"][v]
                           \/ wpc[v] = "wait" /\ wpc'[v] = "woken"
    BY <1>10, WakeOne DEF NotifyAndEnd, WorkerPCs
  <2> QED  BY <1>1, <1>10, <2>1 DEF NotifyAndEnd
<1>11. ASSUME NEW w \in Workers, Leave(w) PROVE CountExact'
  <2>1. w \in Running /\ Running' = Running \ {w}
    BY <1>11 DEF Leave, Running, WorkersSound
  <2>2. Cardinality(Running \ {w}) = Cardinality(Running) - 1
    BY <2>1, Finite, FS_RemoveElement
  <2> QED  BY <1>11, <2>1, <2>2 DEF Leave, CountExact
<1>12. CASE UNCHANGED vars
  BY <1>1, <1>12 DEF vars
<1> QED
  BY <1>3, <1>4, <1>5, <1>6, <1>7, <1>8, <1>9, <1>10, <1>11, <1>12
  DEF Next, TerminateStep, WorkerStep

(* Wakeups stay enough if those coming only become more, ...               *)
LEMMA ComingFinite ==
  /\ TypeOK => IsFiniteSet(Coming)
  /\ IsFiniteSet(Coming')
<1> USE PoolConstants
<1>1. IsFiniteSet(Workers \cup Callers)
  BY FS_AddElement, FS_Union DEF Callers
<1>2. Coming' \subseteq Workers \cup Callers
  BY DEF Coming
<1> QED  BY <1>1, <1>2, FS_Subset, Finite

LEMMA WakeupsQuiet ==
  ASSUME TypeOK, NoLostWakeup, UNCHANGED q, alive' => alive,
         Waiting' \subseteq Waiting, Coming \subseteq Coming'
  PROVE  NoLostWakeup'
<1>1. Cardinality(Coming) <= Cardinality(Coming')
  BY ComingFinite, FS_Subset
<1>2. Cardinality(Coming) \in Nat /\ Cardinality(Coming') \in Nat /\ Cardinality(q) \in Nat
  BY ComingFinite, Finite, FS_CardinalityType
<1> QED  BY <1>1, <1>2 DEF NoLostWakeup

(* ... or one more comes with one more task.                               *)
LEMMA WakeupsGrow ==
  ASSUME TypeOK, NoLostWakeup, alive' => alive,
         Waiting' \subseteq Waiting,
         NEW t, q' = q \cup {t},
         NEW x, x \notin Coming, Coming \cup {x} \subseteq Coming'
  PROVE  NoLostWakeup'
<1>1. Cardinality(Coming \cup {x}) = Cardinality(Coming) + 1
  BY ComingFinite, FS_AddElement
<1>2. IsFiniteSet(Coming')
  BY ComingFinite
<1>3. Cardinality(Coming \cup {x}) <= Cardinality(Coming')
  BY <1>2, FS_Subset
<1>4. Cardinality(q') <= Cardinality(q) + 1
  <2>1. Cardinality(q) \in Nat
    BY Finite, FS_CardinalityType
  <2>2. Cardinality(q \cup {t}) = IF t \in q THEN Cardinality(q) ELSE Cardinality(q) + 1
    BY Finite, FS_AddElement
  <2> QED  BY <2>1, <2>2
<1>5. /\ Cardinality(Coming) \in Nat /\ Cardinality(Coming') \in Nat
      /\ Cardinality(q) \in Nat /\ Cardinality(q') \in Nat
  BY ComingFinite, Finite, FS_CardinalityType, FS_AddElement
<1> QED  BY <1>1, <1>3, <1>4, <1>5 DEF NoLostWakeup

LEMMA WakeupsStep ==
  TypeOK /\ WorkersSound /\ QueueSound /\ StopSound /\ NoLostWakeup /\ [Next]_vars
    => NoLostWakeup'
<1> SUFFICES ASSUME TypeOK, WorkersSound, QueueSound, StopSound, NoLostWakeup, [Next]_vars
             PROVE  NoLostWakeup'
  OBVIOUS
<1> USE PoolConstants DEF threadVars, drainVars, taskVars
<1>0. Callers \cap Workers = {}
  OBVIOUS
<1>1. ASSUME NEW n \in Nat \ {0}, AddThreads(n), ~Ending,
             \A c \in Callers : cpc[c] = "notify" => cpc'[c] = "notify"
      PROVE  NoLostWakeup'
  <2>1. PICK W \in SUBSET (Workers \ threads) :
          wpc' = [w \in Workers |-> IF w \in W THEN "top" ELSE wpc[w]]
    BY <1>1, AddThreadsFacts
  <2>2. alive' = alive /\ q' = q
    BY <1>1, AddThreadsFacts
  <2>3. Waiting' \subseteq Waiting /\ Coming \subseteq Coming'
    BY <1>1, <2>1 DEF Waiting, Coming
  <2> QED  BY <2>2, <2>3, WakeupsQuiet
<1>2. CASE \E c \in Clients : Initiate(c)
  <2>1. PICK c \in Clients : Initiate(c)
    BY <1>2
  <2>2. \A d \in Callers : cpc[d] = "notify" => cpc'[d] = "notify"
    BY <2>1 DEF Initiate, TypeOK, Callers
  <2>3. AddThreads(MaxThreads) /\ ~Ending
    BY <2>1 DEF Initiate
  <2> QED  BY <1>1, <2>2, <2>3
<1>3. CASE AddThreadWithTask
  <2>1. \A d \in Callers : cpc[d] = "notify" => cpc'[d] = "notify"
    BY <1>3 DEF AddThreadWithTask, TypeOK, Callers
  <2>2. AddThreads(1) /\ ~Ending
    BY <1>3 DEF AddThreadWithTask, Ending, Terminating
  <2> QED  BY <1>1, <2>1, <2>2
<1>4. ASSUME NEW c \in Callers, NEW t \in Tasks, AddTask(c, t) PROVE NoLostWakeup'
  <2>1. c \notin Coming /\ Coming \cup {c} \subseteq Coming' /\ Waiting' = Waiting
    BY <1>4 DEF AddTask, Coming, Waiting, TypeOK
  <2>2. alive' = alive /\ q' = q \cup {t}
    BY <1>4 DEF AddTask
  <2> QED  BY <2>1, <2>2, WakeupsGrow
<1>5. ASSUME NEW c \in Callers, Notify(c) PROVE NoLostWakeup'
  <2>1. /\ \A w \in Workers : wpc'[w] = wpc[w] \/ (wpc[w] = "wait" /\ wpc'[w] = "woken")
        /\ Waiting # {} => \E w \in Waiting : wpc'[w] = "woken"
    BY <1>5, WakeOne DEF Notify, WorkerPCs, TypeOK
  <2>2. CASE Waiting = {}
    <3>1. Waiting' = {}
      BY <2>1, <2>2 DEF Waiting
    <3> QED  BY <3>1 DEF NoLostWakeup
  <2>3. CASE Waiting # {}
    <3>1. PICK w \in Waiting : wpc'[w] = "woken"
      BY <2>1, <2>3
    <3>2. w \notin Coming /\ c \in Coming
      BY <1>5, <3>1 DEF Coming, Waiting, Notify
    <3>3. (Coming \ {c}) \cup {w} \subseteq Coming'
      BY <1>5, <2>1, <3>1 DEF Coming, Waiting, Notify, TypeOK
    <3>4. Cardinality((Coming \ {c}) \cup {w}) = Cardinality(Coming)
      <4>1. IsFiniteSet(Coming \ {c}) /\ Cardinality(Coming \ {c}) = Cardinality(Coming) - 1
        BY <3>2, ComingFinite, FS_RemoveElement
      <4>2. Cardinality((Coming \ {c}) \cup {w}) = Cardinality(Coming \ {c}) + 1
        BY <3>2, <4>1, FS_AddElement
      <4>3. Cardinality(Coming) \in Nat
        BY ComingFinite, FS_CardinalityType
      <4> QED  BY <4>1, <4>2, <4>3
    <3>5. Cardinality((Coming \ {c}) \cup {w}) <= Cardinality(Coming')
      BY <3>3, ComingFinite, FS_Subset
    <3>6. /\ Cardinality(Coming) \in Nat /\ Cardinality(Coming') \in Nat
          /\ Cardinality(q) \in Nat
      BY ComingFinite, Finite, FS_CardinalityType
    <3>7. alive' = alive /\ q' = q
      BY <1>5 DEF Notify
    <3> QED  BY <2>3, <3>4, <3>5, <3>6, <3>7 DEF NoLostWakeup
  <2> QED  BY <2>2, <2>3
<1>6. ASSUME NEW c \in Callers, Terminate(c) \/ Sleep(c) \/ CheckProgress(c) \/ StopThreads(c)
      PROVE  NoLostWakeup'
  <2>1. UNCHANGED <<q, wpc>> /\ (alive' => alive)
    BY <1>6 DEF Terminate, Sleep, CheckProgress, StopThreads
  <2>2. \A d \in Callers : cpc[d] = "notify" => cpc'[d] = "notify"
    BY <1>6 DEF Terminate, Sleep, CheckProgress, StopThreads, TypeOK, Callers
  <2>3. Waiting' = Waiting /\ Coming \subseteq Coming'
    BY <2>1, <2>2 DEF Waiting, Coming
  <2> QED  BY <2>1, <2>3, WakeupsQuiet
<1>7. ASSUME NEW c \in Callers, NotifyAll(c) \/ Join(c) PROVE NoLostWakeup'
  <2>1. Waiting' = {}
    BY <1>7 DEF NotifyAll, Join, Waiting
  <2> QED  BY <2>1 DEF NoLostWakeup
<1>8. ASSUME NEW w \in Workers, Test(w) \/ WakeSpuriously(w) \/ End(w) PROVE NoLostWakeup'
  <2>1. UNCHANGED <<q, cpc, alive>>
    BY <1>8 DEF Test, WakeSpuriously, End
  <2>2. CASE alive
    <3>1. Waiting' \subseteq Waiting /\ Coming \subseteq Coming'
      BY <1>8, <2>1, <2>2 DEF Test, WakeSpuriously, End, Waiting, Coming, TypeOK
    <3> QED  BY <2>1, <3>1, WakeupsQuiet
  <2> QED  BY <2>1, <2>2 DEF NoLostWakeup
<1>9. ASSUME NEW w \in Workers, Pop(w) PROVE NoLostWakeup'
  <2>1. PICK t \in q : q' = q \ {t}
    BY <1>9 DEF Pop
  <2>2. w \in Coming /\ Coming \ {w} \subseteq Coming' /\ Waiting' = Waiting /\ alive' = alive
    BY <1>0, <1>9 DEF Pop, Coming, Waiting, TypeOK
  <2>3. /\ Cardinality(q') = Cardinality(q) - 1
        /\ Cardinality(Coming \ {w}) = Cardinality(Coming) - 1
    BY <2>1, <2>2, Finite, ComingFinite, FS_RemoveElement
  <2>4. Cardinality(Coming \ {w}) <= Cardinality(Coming')
    BY <2>2, ComingFinite, FS_Subset
  <2>5. /\ Cardinality(Coming) \in Nat /\ Cardinality(Coming') \in Nat
        /\ Cardinality(q) \in Nat
    BY ComingFinite, Finite, FS_CardinalityType
  <2> QED  BY <2>2, <2>3, <2>4, <2>5 DEF NoLostWakeup
<1>10. ASSUME NEW w \in Workers, FindNothing(w) PROVE NoLostWakeup'
  <2>1. q' = {}
    BY <1>10 DEF FindNothing
  <2>2. Cardinality(q') = 0 /\ Cardinality(Coming') \in Nat
    BY <2>1, FS_EmptySet, ComingFinite, FS_CardinalityType
  <2> QED  BY <2>2 DEF NoLostWakeup
<1>11. ASSUME NEW w \in Workers, AddItself(w) PROVE NoLostWakeup'
  <2>1. w \notin Coming /\ Coming \cup {w} \subseteq Coming' /\ Waiting' = Waiting
    BY <1>0, <1>11 DEF AddItself, Coming, Waiting, TypeOK
  <2>2. alive' = alive /\ q' = q \cup {task[w]}
    BY <1>11 DEF AddItself
  <2> QED  BY <2>1, <2>2, WakeupsGrow
<1>12. ASSUME NEW w \in Workers, NotifyAndEnd(w) PROVE NoLostWakeup'
  <2>1. \A v \in Workers : \/ wpc'[v] = [wpc EXCEPT ![w] = "top"][v]
                           \/ wpc[v] = "wait" /\ wpc'[v] = "woken"
    BY <1>12, WakeOne DEF NotifyAndEnd, WorkerPCs, TypeOK
  <2>2. Waiting' \subseteq Waiting /\ Coming \subseteq Coming'
    BY <1>12, <2>1 DEF NotifyAndEnd, Waiting, Coming, TypeOK
  <2>3. UNCHANGED <<q, alive>>
    BY <1>12 DEF NotifyAndEnd
  <2> QED  BY <2>2, <2>3, WakeupsQuiet
<1>13. ASSUME NEW w \in Workers, Leave(w) PROVE NoLostWakeup'
  <2>1. UNCHANGED <<q, alive, cpc>>
    BY <1>13 DEF Leave
  <2>2. Waiting' \subseteq Waiting /\ Coming \subseteq Coming'
    BY <1>13, <2>1 DEF Leave, Waiting, Coming, TypeOK
  <2> QED  BY <2>1, <2>2, WakeupsQuiet
<1>14. CASE UNCHANGED vars
  BY <1>14 DEF vars, NoLostWakeup, Waiting, Coming
<1> QED
  BY <1>2, <1>3, <1>4, <1>5, <1>6, <1>7, <1>8, <1>9, <1>10, <1>11, <1>12, <1>13, <1>14
  DEF Next, TerminateStep, WorkerStep

-------------------------------------------------------------------------------
(* _users counts: a client more, a client less, an addition of the owner.  *)
UsersExact == ~Ending => users = Cardinality(Using) + OwnerCalls

LEMMA UsersExactStep ==
  TypeOK /\ WorkersSound /\ StopSound /\ ThreadsMatchUsers /\ [Next]_vars => UsersExact'
<1> SUFFICES ASSUME TypeOK, WorkersSound, StopSound, ThreadsMatchUsers, [Next]_vars
             PROVE  UsersExact'
  OBVIOUS
<1> USE PoolConstants DEF threadVars, drainVars, taskVars
<1> DEFINE Added == {t \in Tasks : by[t] = Owner}
<1>0. /\ ~Ending => users = Cardinality(Using) + OwnerCalls
      /\ Cardinality(Using) \in Nat /\ Cardinality(Added) \in Nat /\ OwnerCalls \in Nat
  BY Finite, FS_CardinalityType DEF ThreadsMatchUsers, OwnerCalls
<1>1. ASSUME UNCHANGED <<users, by>>, Ending => Ending',
             \A c \in Clients : cpc[c] \in {"using", "notify"} <=> cpc'[c] \in {"using", "notify"},
             cpc[Owner] = "adding" <=> cpc'[Owner] = "adding"
      PROVE  UsersExact'
  <2>1. Using' = Using /\ OwnerCalls' = OwnerCalls
    BY <1>1 DEF Using, OwnerCalls
  <2> QED  BY <1>0, <1>1, <2>1 DEF UsersExact
<1>2. ASSUME NEW c \in Clients, Initiate(c) PROVE UsersExact'
  <2>1. ~Ending /\ AddThreads(MaxThreads) /\ cpc[c] = "idle" /\ cpc' = [cpc EXCEPT ![c] = "using"]
    BY <1>2 DEF Initiate
  <2>2. users' = users + 1 /\ UNCHANGED by
    BY <2>1, AddThreadsFacts
  <2>3. Using' = Using \cup {c} /\ c \notin Using /\ OwnerCalls' = OwnerCalls
    BY <2>1, <2>2 DEF Using, OwnerCalls, TypeOK, Callers
  <2>4. Cardinality(Using \cup {c}) = Cardinality(Using) + 1
    BY <2>3, Finite, FS_AddElement
  <2> QED  BY <1>0, <2>1, <2>2, <2>3, <2>4 DEF UsersExact
<1>3. CASE AddThreadWithTask
  <2>1. ~Ending /\ AddThreads(1) /\ cpc[Owner] = "idle" /\ cpc' = [cpc EXCEPT ![Owner] = "adding"]
    BY <1>3 DEF AddThreadWithTask, Ending, Terminating
  <2>2. users' = users + 1 /\ UNCHANGED by
    BY <2>1, AddThreadsFacts
  <2>3. Using' = Using
    BY <2>1 DEF Using, TypeOK, Callers
  <2>4. cpc'[Owner] = "adding" /\ Added' = Added
    BY <2>1, <2>2 DEF TypeOK, Callers
  <2>5. OwnerCalls' = Cardinality(Added) + 1 /\ OwnerCalls = Cardinality(Added) + 0
    BY <2>1, <2>4 DEF OwnerCalls
  <2> QED  BY <1>0, <2>1, <2>2, <2>3, <2>5 DEF UsersExact
<1>4. ASSUME NEW c \in Clients, NEW t \in Tasks, AddTask(c, t) PROVE UsersExact'
  <2>1. by[t] = None /\ cpc[c] = "using" /\ ~Ending /\ cpc' = [cpc EXCEPT ![c] = "notify"]
        /\ by' = [by EXCEPT ![t] = c] /\ users' = users
    BY <1>4 DEF AddTask
  <2>2. Using' = Using /\ Added' = Added /\ cpc'[Owner] = cpc[Owner]
    BY <2>1 DEF Using, TypeOK, Callers
  <2>3. OwnerCalls' = OwnerCalls
    BY <2>2 DEF OwnerCalls
  <2> QED  BY <1>0, <2>1, <2>2, <2>3 DEF UsersExact
<1>5. ASSUME NEW t \in Tasks, AddTask(Owner, t) PROVE UsersExact'
  <2>1. by[t] = None /\ cpc[Owner] = "adding" /\ cpc' = [cpc EXCEPT ![Owner] = "notify"]
        /\ by' = [by EXCEPT ![t] = Owner] /\ users' = users
    BY <1>5 DEF AddTask
  <2>2. Using' = Using /\ cpc'[Owner] = "notify"
    BY <2>1 DEF Using, TypeOK, Callers
  <2>3. Added' = Added \cup {t} /\ t \notin Added
    BY <2>1 DEF TypeOK, Callers
  <2>4. Cardinality(Added') = Cardinality(Added) + 1
    <3>1. Cardinality(Added \cup {t}) = Cardinality(Added) + 1
      BY <2>3, Finite, FS_AddElement
    <3> QED  BY <2>3, <3>1
  <2>5. OwnerCalls' = Cardinality(Added') + 0 /\ OwnerCalls = Cardinality(Added) + 1
    BY <2>1, <2>2 DEF OwnerCalls
  <2>6. ~Ending
    BY <2>1 DEF Ending, Terminating
  <2> QED  BY <1>0, <2>1, <2>2, <2>4, <2>5, <2>6 DEF UsersExact
<1>6. ASSUME NEW c \in Callers, Notify(c) PROVE UsersExact'
  BY <1>1, <1>6 DEF Notify, Ending, Terminating, TypeOK, Callers
<1>7. ASSUME NEW c \in Clients, Terminate(c) PROVE UsersExact'
  <2>1. /\ cpc[c] = "using" /\ ~Ending /\ by' = by
        /\ users' = IF users > 0 THEN users - 1 ELSE users
        /\ \E p \in {"drain", "idle"} : cpc' = [cpc EXCEPT ![c] = p]
    BY <1>7 DEF Terminate
  <2>2. c \in Using
    BY <2>1 DEF Using
  <2>3. users > 0
    BY <2>1, <2>2, UsersCounted
  <2>4. Using' = Using \ {c} /\ cpc'[Owner] = cpc[Owner]
    BY <2>1 DEF Using, TypeOK, Callers
  <2>5. Cardinality(Using \ {c}) = Cardinality(Using) - 1
    BY <2>2, Finite, FS_RemoveElement
  <2>6. OwnerCalls' = OwnerCalls
    BY <2>1, <2>4 DEF OwnerCalls
  <2> QED  BY <1>0, <2>1, <2>3, <2>4, <2>5, <2>6 DEF UsersExact
<1>8. CASE Terminate(Owner)
  <2>1. cpc' = [cpc EXCEPT ![Owner] = "drain"]
    BY <1>8 DEF Terminate
  <2> QED  BY <2>1 DEF UsersExact, Ending, Terminating, TypeOK, Callers
<1>9. ASSUME NEW c \in Callers, TerminateStep(c) PROVE UsersExact'
  <2>1. UNCHANGED <<users, by>>
    BY <1>9 DEF TerminateStep, Sleep, CheckProgress, StopThreads, NotifyAll, Join
  <2>2. /\ cpc' = [cpc EXCEPT ![c] = cpc'[c]]
        /\ cpc[c] \in Terminating
        /\ cpc'[c] \in Terminating \cup {"idle", "gone"}
        /\ c = Owner => cpc'[c] \in Terminating \cup {"gone"}
    BY <1>9 DEF TerminateStep, Sleep, CheckProgress, StopThreads, NotifyAll, Join, Terminating, TypeOK
  <2>3. Ending => Ending'
    BY <2>2 DEF Ending, TypeOK, Callers
  <2>4. /\ \A d \in Clients : cpc[d] \in {"using", "notify"} <=> cpc'[d] \in {"using", "notify"}
        /\ cpc[Owner] = "adding" <=> cpc'[Owner] = "adding"
    BY <2>2 DEF Terminating, TypeOK, Callers
  <2> QED  BY <1>1, <2>1, <2>3, <2>4
<1>10. CASE \E w \in Workers : WorkerStep(w) \/ WakeSpuriously(w)
  <2>1. UNCHANGED <<users, by, cpc>>
    BY <1>10 DEF WorkerStep, Test, Pop, FindNothing, AddItself, NotifyAndEnd, End, Leave, WakeSpuriously
  <2> QED  BY <1>1, <2>1 DEF Ending
<1>11. CASE UNCHANGED vars
  BY <1>1, <1>11 DEF vars, Ending
<1> QED
  BY <1>2, <1>3, <1>4, <1>5, <1>6, <1>7, <1>8, <1>9, <1>10, <1>11 DEF Next, Callers

(* When the pool is free and nobody uses it, its threads have left.        *)
IdleEmpty == TMutexFree /\ (users = 0 \/ Ending) => threads = {} /\ current = 0

LEMMA IdleEmptyStep ==
  TypeOK /\ WorkersSound /\ StopSound /\ ThreadsMatchUsers /\ [Next]_vars => IdleEmpty'
<1> SUFFICES ASSUME TypeOK, WorkersSound, StopSound, ThreadsMatchUsers, [Next]_vars
             PROVE  IdleEmpty'
  OBVIOUS
<1> USE PoolConstants DEF threadVars, drainVars, taskVars
<1>0. IdleEmpty
  BY DEF IdleEmpty, ThreadsMatchUsers
<1>1. ASSUME UNCHANGED <<users, threads, current>>, TMutexFree' => TMutexFree, Ending' => Ending
      PROVE  IdleEmpty'
  BY <1>0, <1>1 DEF IdleEmpty
<1>2. ASSUME NEW c \in Clients, Initiate(c) PROVE IdleEmpty'
  <2>1. users' = users + 1
    BY <1>2, AddThreadsFacts DEF Initiate
  <2>2. ~Ending'
    BY <1>2 DEF Initiate, Ending, TypeOK, Callers
  <2> QED  BY <2>1, <2>2 DEF IdleEmpty, TypeOK
<1>3. CASE AddThreadWithTask
  <2>1. users' = users + 1
    BY <1>3, AddThreadsFacts DEF AddThreadWithTask, Ending, Terminating
  <2>2. ~Ending'
    BY <1>3 DEF AddThreadWithTask, Ending, Terminating, TypeOK, Callers
  <2> QED  BY <2>1, <2>2 DEF IdleEmpty, TypeOK
<1>4. ASSUME NEW c \in Callers, (\E t \in Tasks : AddTask(c, t)) \/ Notify(c) PROVE IdleEmpty'
  <2>1. UNCHANGED <<users, threads, current>>
    BY <1>4 DEF AddTask, Notify
  <2>2. \E p \in {"notify", "idle", "using"} :
          cpc' = [cpc EXCEPT ![c] = p] /\ cpc[c] \notin Terminating
    BY <1>4 DEF AddTask, Notify, Terminating
  <2> QED  BY <1>1, <2>1, <2>2 DEF TMutexFree, Ending, Terminating, TypeOK, Callers
<1>5. ASSUME NEW c \in Callers, Terminate(c) PROVE IdleEmpty'
  <2>1. CASE cpc' = [cpc EXCEPT ![c] = "drain"]
    <3>1. cpc'[c] = "drain"
      BY <2>1 DEF TypeOK
    <3> QED  BY <3>1 DEF IdleEmpty, TMutexFree, Terminating
  <2>2. CASE c \in Clients /\ ~Ending /\ users' # 0 /\ cpc' = [cpc EXCEPT ![c] = "idle"]
    <3>1. ~Ending'
      BY <2>2 DEF Ending, TypeOK, Callers
    <3> QED  BY <2>2, <3>1 DEF IdleEmpty
  <2> QED  BY <1>5, <2>1, <2>2 DEF Terminate, Callers
<1>6. ASSUME NEW c \in Callers, Sleep(c) \/ CheckProgress(c) \/ StopThreads(c) \/ NotifyAll(c)
      PROVE  IdleEmpty'
  <2>1. cpc'[c] \in Terminating
    BY <1>6 DEF Sleep, CheckProgress, StopThreads, NotifyAll, Terminating, TypeOK
  <2> QED  BY <2>1 DEF IdleEmpty, TMutexFree
<1>7. ASSUME NEW c \in Callers, Join(c) PROVE IdleEmpty'
  BY <1>7 DEF Join, IdleEmpty
<1>8. ASSUME NEW w \in Workers, Leave(w) PROVE IdleEmpty'
  <2>1. threads # {} /\ UNCHANGED <<users, cpc, threads>>
    BY <1>8 DEF Leave, WorkersSound
  <2> QED  BY <1>0, <2>1 DEF IdleEmpty, TMutexFree, Ending
<1>9. ASSUME NEW w \in Workers,
             \/ Test(w) \/ Pop(w) \/ FindNothing(w) \/ AddItself(w) \/ NotifyAndEnd(w) \/ End(w)
             \/ WakeSpuriously(w)
      PROVE  IdleEmpty'
  <2>1. UNCHANGED <<users, threads, current, cpc>>
    BY <1>9 DEF Test, Pop, FindNothing, AddItself, NotifyAndEnd, End, WakeSpuriously
  <2> QED  BY <1>1, <2>1 DEF TMutexFree, Ending
<1>10. CASE UNCHANGED vars
  BY <1>1, <1>10 DEF vars, TMutexFree, Ending
<1> QED
  BY <1>2, <1>3, <1>4, <1>5, <1>6, <1>7, <1>8, <1>9, <1>10 DEF Next, TerminateStep, WorkerStep

-------------------------------------------------------------------------------
(* The invariant holds at first and after every step.                      *)
THEOREM ThreadPoolInductive == Spec => []IInv
<1>1. Init => IInv
  <2> USE PoolConstants
  <2> SUFFICES ASSUME Init PROVE IInv
    OBVIOUS
  <2>1. TypeOK /\ OneTerminates /\ WorkersSound /\ QueueSound /\ StopSound
    BY DEF Init, TypeOK, OneTerminates, WorkersSound, QueueSound, StopSound, Terminating,
       Callers, Ending
  <2>2. Using = {} /\ {t \in Tasks : by[t] = Owner} = {} /\ Running = {}
    BY DEF Init, Using, Running, Callers
  <2>3. CountExact /\ ThreadsMatchUsers
    BY <2>2, FS_EmptySet DEF Init, CountExact, ThreadsMatchUsers, OwnerCalls, Callers
  <2>4. NoLostWakeup /\ NothingForgotten
    BY DEF Init, NoLostWakeup, Waiting, NothingForgotten
  <2> QED  BY <2>1, <2>3, <2>4 DEF IInv
<1>2. IInv /\ [Next]_vars => IInv'
  <2> SUFFICES ASSUME IInv, [Next]_vars PROVE IInv'
    OBVIOUS
  <2>1. TypeOK' /\ OneTerminates' /\ WorkersSound' /\ QueueSound' /\ StopSound'
    BY TypeStep, OneTerminatesStep, WorkersSoundStep, QueueSoundStep, StopSoundStep DEF IInv
  <2>2. CountExact' /\ NoLostWakeup' /\ NothingForgotten'
    BY CountStep, WakeupsStep, NothingForgottenStep DEF IInv
  <2>3. UsersExact' /\ IdleEmpty'
    BY UsersExactStep, IdleEmptyStep DEF IInv
  <2>4. ThreadsMatchUsers'
    BY <2>1, <2>3 DEF ThreadsMatchUsers, UsersExact, IdleEmpty, StopSound, WorkersSound,
       TMutexFree, Terminating, TypeOK, Callers
  <2> QED  BY <2>1, <2>2, <2>4 DEF IInv
<1> QED  BY <1>1, <1>2, PTL DEF Spec

(* All variables keep their types: in particular _users and                *)
(* _currentThreads, which are unsigned in the code, never go below zero.   *)
THEOREM TypeCorrect == Spec => []TypeOK
<1>1. IInv => TypeOK
  BY DEF IInv
<1> QED  BY <1>1, ThreadPoolInductive, PTL

(* terminate of one client never stops the threads of another, and the     *)
(* last one leaves none.                                                   *)
THEOREM UsersCorrect == Spec => []ThreadsMatchUsers
<1>1. IInv => ThreadsMatchUsers
  BY DEF IInv
<1> QED  BY <1>1, ThreadPoolInductive, PTL

(* The unlocked notify_one of addTask and the unrepeated wait of workLoop  *)
(* lose no wakeup.                                                         *)
THEOREM WakeupsCorrect == Spec => []NoLostWakeup
<1>1. IInv => NoLostWakeup
  BY DEF IInv
<1> QED  BY <1>1, ThreadPoolInductive, PTL

(* terminate leaves a task behind only in the two cases the property names.*)
THEOREM DrainCorrect == Spec => []NothingForgotten
<1>1. IInv => NothingForgotten
  BY DEF IInv
<1> QED  BY <1>1, ThreadPoolInductive, PTL

(* _currentThreads is right whenever terminate looks at it.                *)
THEOREM CountCorrect == Spec => []CountExact
<1>1. IInv => CountExact
  BY DEF IInv
<1> QED  BY <1>1, ThreadPoolInductive, PTL

===============================================================================
