------------------------------ MODULE ThreadPool ------------------------------
(***************************************************************************)
(* ThreadPool and PriorityThreadPool: a queue of tasks, the threads that   *)
(* run them, and the objects that share the pool.                          *)
(*                                                                         *)
(* A client (a cache, an output file, a served file) initiates the pool,   *)
(* adds tasks and terminates it; only the terminate of the last one stops  *)
(* the threads.  The owner terminates with force, as the destructor of the *)
(* pool or at the end of the server, and may add threads with a task (the  *)
(* server's main thread, one for each connection).  A task may add itself  *)
(* again: pollConnection and the transfer tasks of OutputFile do.          *)
(*                                                                         *)
(* _tMutex is held throughout terminate and addThreads; a critical section *)
(* of _qMutex is one step.  Which task is first is left open: the two pools*)
(* differ in nothing else.                                                 *)
(***************************************************************************)
EXTENDS Naturals, FiniteSets

CONSTANTS Clients, Owner,
          Workers, MaxThreads,  \* the threads and how many a pool may have
          Tasks, Repeating,     \* those of them that add themselves again,
          MaxTurns,    \* and how often (a bound)
          Patience,    \* turns of the drain loop without progress, 10 in the code
          None

Callers == Clients \cup {Owner}

ASSUME PoolConstants ==
  /\ IsFiniteSet(Clients) /\ IsFiniteSet(Workers) /\ IsFiniteSet(Tasks)
  /\ Owner \notin Clients /\ Callers \cap Workers = {}
  /\ MaxThreads \in Nat \ {0} /\ Cardinality(Workers) = MaxThreads
  /\ Repeating \subseteq Tasks /\ MaxTurns \in Nat /\ Patience \in Nat \ {0}
  /\ None \notin Tasks \cup Callers

VARIABLES users, alive, threads,   \* _users, _alive, _threads
          current,     \* _currentThreads
          q,           \* _q
          wpc, task,   \* where a thread is and the task it runs
          cpc,         \* where a caller is
          size, idle,  \* cur_size and timeout_cnt of the terminate that runs
          by, turns    \* who added a task, and how often it added itself

taskVars   == <<by, turns>>
drainVars  == <<size, idle>>
threadVars == <<users, alive, threads, current>>
vars == <<threadVars, q, wpc, task, cpc, drainVars, taskVars>>

Terminating == {"drain", "sleep", "stop"}
TMutexFree  == \A c \in Callers : cpc[c] \notin Terminating

(* Nobody calls a pool that is being deleted.                              *)
Ending == cpc[Owner] \in Terminating \cup {"gone"}

Waiting == {w \in Workers : wpc[w] = "wait"}
Using   == {c \in Clients : cpc[c] \in {"using", "notify"}}

-------------------------------------------------------------------------------
(* addThreads(n): the threads that are still missing, at most n.           *)
AddThreads(n) ==
  /\ TMutexFree
  /\ LET missing == MaxThreads - Cardinality(threads)
         added   == IF ~alive THEN 0 ELSE IF n > missing THEN missing ELSE n
     IN  \E W \in SUBSET (Workers \ threads) :
           /\ Cardinality(W) = added
           /\ threads' = threads \cup W
           /\ current' = current + added
           /\ wpc' = [w \in Workers |-> IF w \in W THEN "top" ELSE wpc[w]]
  /\ users' = IF alive THEN users + 1 ELSE users
  /\ UNCHANGED <<alive, q, task, drainVars, taskVars>>

(* initiate, by a client.                                                  *)
Initiate(c) ==
  /\ ~Ending
  /\ cpc[c] = "idle" /\ cpc' = [cpc EXCEPT ![c] = "using"]
  /\ AddThreads(MaxThreads)

(* addThreadWithTask, by the owner: a thread first, then the task.         *)
AddThreadWithTask ==
  /\ \E t \in Tasks : by[t] = None
  /\ cpc[Owner] = "idle" /\ cpc' = [cpc EXCEPT ![Owner] = "adding"]
  /\ AddThreads(1)

(* addTask: queue it, and then, without the mutex, notify_one.             *)
AddTask(c, t) ==
  /\ by[t] = None
  /\ \/ c \in Clients /\ cpc[c] = "using" /\ ~Ending
     \/ c = Owner /\ cpc[c] = "adding"
  /\ cpc' = [cpc EXCEPT ![c] = "notify"]
  /\ q' = q \cup {t}
  /\ by' = [by EXCEPT ![t] = c]
  /\ UNCHANGED <<threadVars, wpc, task, drainVars, turns>>

(* Mutant: nobody is notified.                                             *)
NotifyOneMutant(others) == wpc' = others

NotifyOne(others) ==
  \/ \E w \in Waiting : wpc' = [others EXCEPT ![w] = "woken"]
  \/ Waiting = {} /\ wpc' = others

Notify(c) ==
  /\ cpc[c] = "notify"
  /\ cpc' = [cpc EXCEPT ![c] = IF c = Owner THEN "idle" ELSE "using"]
  /\ NotifyOne(wpc)
  /\ UNCHANGED <<threadVars, q, task, drainVars, taskVars>>

-------------------------------------------------------------------------------
(* Mutant: the count of users is not checked.                              *)
TerminateUnguarded(c) ==
  /\ TMutexFree
  /\ \/ c \in Clients /\ cpc[c] = "using" /\ ~Ending
     \/ c = Owner /\ cpc[c] \in {"idle", "gone"} /\ \A d \in Clients : cpc[d] # "notify"
  /\ LET left == users - 1
     IN  /\ users' = left
         /\ \/ /\ left = 0 \/ c = Owner
               /\ cpc' = [cpc EXCEPT ![c] = "drain"]
               /\ size' = Cardinality(q) /\ idle' = 0
            \/ /\ left # 0 /\ c # Owner
               /\ cpc' = [cpc EXCEPT ![c] = "idle"]
               /\ UNCHANGED drainVars
  /\ UNCHANGED <<alive, threads, current, q, wpc, task, taskVars>>

(* Mutant: every client stops the threads.                                 *)
TerminateAtOnce(c) ==
  /\ TMutexFree
  /\ \/ c \in Clients /\ cpc[c] = "using" /\ ~Ending
     \/ c = Owner /\ cpc[c] \in {"idle", "gone"} /\ \A d \in Clients : cpc[d] # "notify"
  /\ LET left == IF users > 0 THEN users - 1 ELSE users
     IN  /\ users' = left
         /\ cpc' = [cpc EXCEPT ![c] = "drain"]
         /\ size' = Cardinality(q) /\ idle' = 0
  /\ UNCHANGED <<alive, threads, current, q, wpc, task, taskVars>>

(* terminate: one user less; the last one, or force, goes on.              *)
Terminate(c) ==
  /\ TMutexFree
  /\ \/ c \in Clients /\ cpc[c] = "using" /\ ~Ending
     \/ c = Owner /\ cpc[c] \in {"idle", "gone"} /\ \A d \in Clients : cpc[d] # "notify"
  /\ LET left == IF users > 0 THEN users - 1 ELSE users
     IN  /\ users' = left
         /\ \/ /\ left = 0 \/ c = Owner
               /\ cpc' = [cpc EXCEPT ![c] = "drain"]
               /\ size' = Cardinality(q) /\ idle' = 0
            \/ /\ left # 0 /\ c # Owner
               /\ cpc' = [cpc EXCEPT ![c] = "idle"]
               /\ UNCHANGED drainVars
  /\ UNCHANGED <<alive, threads, current, q, wpc, task, taskVars>>

(* The queue may drain, as long as its size changes.                       *)
Sleep(c) ==
  /\ cpc[c] = "drain" /\ cpc' = [cpc EXCEPT ![c] = "sleep"]
  /\ q # {} /\ idle < Patience
  /\ idle' = idle + 1
  /\ UNCHANGED <<threadVars, q, wpc, task, size, taskVars>>

CheckProgress(c) ==
  /\ cpc[c] = "sleep" /\ cpc' = [cpc EXCEPT ![c] = "drain"]
  /\ \/ size # Cardinality(q) /\ size' = Cardinality(q) /\ idle' = 0
     \/ size = Cardinality(q) /\ UNCHANGED drainVars
  /\ UNCHANGED <<threadVars, q, wpc, task, taskVars>>

(* Mutant: as PriorityPool, which does not wait for the queue.             *)
StopThreadsMutant(c) ==
  /\ cpc[c] = "drain" /\ cpc' = [cpc EXCEPT ![c] = "stop"]
  /\ alive' = FALSE
  /\ UNCHANGED <<users, threads, current, q, wpc, task, drainVars, taskVars>>

StopThreads(c) ==
  /\ cpc[c] = "drain" /\ cpc' = [cpc EXCEPT ![c] = "stop"]
  /\ q = {} \/ idle = Patience
  /\ alive' = FALSE
  /\ UNCHANGED <<users, threads, current, q, wpc, task, drainVars, taskVars>>

NotifyAll(c) ==
  /\ cpc[c] = "stop" /\ current # 0
  /\ Waiting # {}
  /\ wpc' = [w \in Workers |-> IF w \in Waiting THEN "woken" ELSE wpc[w]]
  /\ UNCHANGED <<threadVars, q, task, cpc, drainVars, taskVars>>

(* The threads have exited: join them; after force the pool stays dead.    *)
Join(c) ==
  /\ cpc[c] = "stop" /\ current = 0
  /\ \A w \in threads : wpc[w] = "exited"
  /\ threads' = {}
  /\ wpc' = [w \in Workers |-> "none"]
  /\ alive' = (c # Owner)
  /\ cpc' = [cpc EXCEPT ![c] = IF c = Owner THEN "gone" ELSE "idle"]
  /\ UNCHANGED <<users, current, q, task, drainVars, taskVars>>

TerminateStep(c) == \/ Sleep(c) \/ CheckProgress(c) \/ StopThreads(c)
                    \/ NotifyAll(c) \/ Join(c)

-------------------------------------------------------------------------------
(* workLoop: look at _alive, ...                                           *)
Test(w) ==
  /\ wpc[w] = "top"
  /\ wpc' = [wpc EXCEPT ![w] = IF alive THEN "look" ELSE "leave"]
  /\ UNCHANGED <<threadVars, q, task, cpc, drainVars, taskVars>>

(* ... take a task, at once or after a wait, which is never repeated, ...  *)
Pop(w) ==
  /\ wpc[w] \in {"look", "woken"} /\ wpc' = [wpc EXCEPT ![w] = "run"]
  /\ \E t \in q : /\ q' = q \ {t}
                  /\ task' = [task EXCEPT ![w] = t]
  /\ UNCHANGED <<threadVars, cpc, drainVars, taskVars>>

(* Mutant: the wait is repeated while the queue is empty.                  *)
FindNothingMutant(w) ==
  /\ q = {}
  /\ wpc[w] \in {"look", "woken"} /\ wpc' = [wpc EXCEPT ![w] = "wait"]
  /\ UNCHANGED <<threadVars, q, task, cpc, drainVars, taskVars>>

FindNothing(w) ==
  /\ q = {}
  /\ \/ wpc[w] = "look" /\ wpc' = [wpc EXCEPT ![w] = "wait"]
     \/ wpc[w] = "woken" /\ wpc' = [wpc EXCEPT ![w] = "top"]
  /\ UNCHANGED <<threadVars, q, task, cpc, drainVars, taskVars>>

WakeSpuriously(w) ==
  /\ wpc[w] = "wait" /\ wpc' = [wpc EXCEPT ![w] = "woken"]
  /\ UNCHANGED <<threadVars, q, task, cpc, drainVars, taskVars>>

(* ... and run it.  It may add itself again before it ends.                *)
AddItself(w) ==
  /\ wpc[w] = "run" /\ wpc' = [wpc EXCEPT ![w] = "notify"]
  /\ task[w] \in Repeating /\ turns[task[w]] < MaxTurns
  /\ turns' = [turns EXCEPT ![task[w]] = @ + 1]
  /\ q' = q \cup {task[w]}
  /\ UNCHANGED <<threadVars, task, cpc, drainVars, by>>

NotifyAndEnd(w) ==
  /\ wpc[w] = "notify"
  /\ NotifyOne([wpc EXCEPT ![w] = "top"])
  /\ task' = [task EXCEPT ![w] = None]
  /\ UNCHANGED <<threadVars, q, cpc, drainVars, taskVars>>

End(w) ==
  /\ wpc[w] = "run" /\ wpc' = [wpc EXCEPT ![w] = "top"]
  /\ task' = [task EXCEPT ![w] = None]
  /\ UNCHANGED <<threadVars, q, cpc, drainVars, taskVars>>

Leave(w) ==
  /\ wpc[w] = "leave" /\ wpc' = [wpc EXCEPT ![w] = "exited"]
  /\ current' = current - 1
  /\ UNCHANGED <<users, alive, threads, q, task, cpc, drainVars, taskVars>>

WorkerStep(w) == \/ Test(w) \/ Pop(w) \/ FindNothing(w) \/ AddItself(w)
                 \/ NotifyAndEnd(w) \/ End(w) \/ Leave(w)

-------------------------------------------------------------------------------
Init ==
  /\ users = 0 /\ alive = TRUE /\ threads = {} /\ current = 0
  /\ q = {}
  /\ wpc = [w \in Workers |-> "none"] /\ task = [w \in Workers |-> None]
  /\ cpc = [c \in Callers |-> "idle"]
  /\ size = 0 /\ idle = 0
  /\ by = [t \in Tasks |-> None] /\ turns = [t \in Tasks |-> 0]

Next == \/ \E c \in Clients : Initiate(c)
        \/ AddThreadWithTask
        \/ \E c \in Callers, t \in Tasks : AddTask(c, t)
        \/ \E c \in Callers : Notify(c) \/ Terminate(c) \/ TerminateStep(c)
        \/ \E w \in Workers : WorkerStep(w) \/ WakeSpuriously(w)

Spec == Init /\ [][Next]_vars

(* Threads run, tasks end, and a call that began goes on; nobody has to    *)
(* call.                                                                   *)
Progress == /\ \A w \in Workers : WF_vars(WorkerStep(w))
            /\ \A c \in Callers : WF_vars(Notify(c) \/ TerminateStep(c))

FairSpec == Spec /\ Progress

-------------------------------------------------------------------------------
TypeOK ==
  /\ users \in Nat /\ alive \in BOOLEAN
  /\ threads \subseteq Workers /\ current \in Nat
  /\ q \subseteq Tasks
  /\ wpc \in [Workers -> {"none", "top", "look", "wait", "woken", "run", "notify", "leave", "exited"}]
  /\ task \in [Workers -> Tasks \cup {None}]
  /\ cpc \in [Callers -> Terminating \cup {"idle", "using", "adding", "notify", "gone"}]
  /\ \A c \in Clients : cpc[c] \notin {"adding", "gone"}
  /\ cpc[Owner] # "using"
  /\ size \in Nat /\ idle \in 0..Patience
  /\ by \in [Tasks -> Callers \cup {None}] /\ turns \in [Tasks -> 0..MaxTurns]

(* While somebody uses the pool its threads stay, whoever else terminates  *)
(* it; when nobody does, or after force, there are none.  _users counts    *)
(* the clients and the owner's additions exactly.                          *)
OwnerCalls == Cardinality({t \in Tasks : by[t] = Owner}) + (IF cpc[Owner] = "adding" THEN 1 ELSE 0)
ThreadsMatchUsers ==
  /\ ~Ending => users = Cardinality(Using) + OwnerCalls
  /\ TMutexFree /\ users > 0 /\ ~Ending =>
       alive /\ threads # {} /\ \A w \in threads : wpc[w] \notin {"none", "leave", "exited"}
  /\ TMutexFree /\ (users = 0 \/ Ending) => threads = {} /\ current = 0

(* addTask and workLoop lose no wakeup: while threads sleep, there are no  *)
(* more tasks than threads about to look and callers about to notify.      *)
Coming == {w \in Workers : wpc[w] \in {"top", "look", "woken", "notify"}}
          \cup {c \in Callers : cpc[c] = "notify"}
NoLostWakeup == alive /\ Waiting # {} => Cardinality(q) <= Cardinality(Coming)

(* When the threads are gone, a task is left behind only if the drain gave *)
(* up or the task added itself again as they left.                         *)
NothingForgotten ==
  TMutexFree /\ threads = {} /\ idle < Patience => \A t \in q : turns[t] > 0

(* _currentThreads counts the threads that have not left, so terminate     *)
(* joins all and waits for nobody else.                                    *)
Running    == {w \in threads : wpc[w] # "exited"}
CountExact == current = Cardinality(Running)

-------------------------------------------------------------------------------
(* What the invariants above rest on.                                      *)
OneTerminates == \A c, d \in Callers : {cpc[c], cpc[d]} \subseteq Terminating => c = d

WorkersSound ==
  \A w \in Workers : /\ w \in threads <=> wpc[w] # "none"
                     /\ task[w] = None <=> wpc[w] \notin {"run", "notify"}
                     /\ alive => wpc[w] \notin {"leave", "exited"}

QueueSound == /\ \A t \in q : by[t] # None
              /\ \A w \in Workers : task[w] # None => by[task[w]] # None

(* A client that stops the threads was the last user, and a pool is dead   *)
(* just while its threads are stopped, and for ever after force.           *)
StopSound ==
  /\ \A c \in Clients : cpc[c] \in Terminating => users = 0 /\ ~Ending
  /\ \A c \in Callers : cpc[c] = "stop" =>
        ~alive /\ (idle < Patience => \A t \in q : turns[t] > 0)
  /\ alive \/ Ending \/ \E c \in Clients : cpc[c] = "stop"
  /\ users > 0 /\ ~Ending => threads # {}
  /\ cpc[Owner] = "gone" => threads = {} /\ ~alive

IInv == /\ TypeOK /\ OneTerminates /\ WorkersSound /\ QueueSound /\ StopSound
        /\ ThreadsMatchUsers /\ NoLostWakeup /\ NothingForgotten /\ CountExact

-------------------------------------------------------------------------------
(* terminate ends, also while other threads sleep or add tasks.            *)
TerminateEnds ==
  \A c \in Callers : cpc[c] \in Terminating ~> cpc[c] \in {"idle", "gone"}

(* A task does not stay in the queue of a pool that is used.               *)
TasksServed ==
  \A t \in Tasks : t \in q ~> t \notin q \/ users = 0 \/ Ending

===============================================================================
