------------------------------ MODULE SharedMemory ------------------------------
(***************************************************************************)
(* How the processes of a node come to share memory: the block cache of    *)
(* NewSharedMemoryCache (SharedMemoryCache is the same), and the           *)
(* FileCacheRegister, in which every file name gets the index by which all *)
(* of them name its blocks.                                                *)
(*                                                                         *)
(* Whoever makes a memory object initialises it, while others may have it  *)
(* mapped already: they wait for a flag in it.  The memory of a new object *)
(* is zero.  A process may be killed and started again; the objects stay.  *)
(*                                                                         *)
(* The locks in the memory are those of ReaderWriterLock, a step each here.*)
(***************************************************************************)
EXTENDS Integers, FiniteSets

CONSTANTS Processes, Names,
          Slots,      \* NUMENTRIES
          MaxKills,   \* processes killed (a bound)
          Nobody

ASSUME SharedMemoryConstants ==
  /\ IsFiniteSet(Names) /\ Slots \in Nat /\ Cardinality(Names) <= Slots
  /\ MaxKills \in Nat /\ Nobody \notin Names \cup (Processes \X Names)

(* A thread for every file that a process opens.                           *)
Workers == Processes \X Names
HomeOf(w) == w[1]
NameOf(w) == w[2]

VARIABLES
  once,     \* of each process: _registerInitLock, and cache_init's once_flag
  memory,   \* the cache: made, ready, its lock, the entries in use
  table,    \* the register: made, ready, _available, _fileName, its lock
  work,     \* the worker threads: where they are, and the index they got
  kills     \* a bound

sharedVars == <<once, memory, table, work, kills>>

Fresh == [pc |-> "cache", index |-> 0]
Unused == [cache |-> "empty", register |-> "empty"]

SharedInit ==
  /\ once = [p \in Processes |-> Unused]
  /\ memory = [made |-> FALSE, ready |-> FALSE, lock |-> Nobody, used |-> {}]
  /\ table = [made |-> FALSE, flag |-> 0, available |-> 0,
              name |-> [i \in 1 .. Slots |-> Nobody], lock |-> Nobody]
  /\ work = [w \in Workers |-> Fresh] /\ kills = 0

-------------------------------------------------------------------------------
Is(w, pc) == work[w].pc = pc
GoesTo(w, pc) == work' = [work EXCEPT ![w].pc = pc]
State(w, what) == once[HomeOf(w)][what]
Becomes(w, what, s) == once' = [once EXCEPT ![HomeOf(w)][what] = s]

-------------------------------------------------------------------------------
(* The cache: one thread of a process makes it, the others wait.           *)

StartCache(w) ==
  /\ Is(w, "cache") /\ State(w, "cache") = "empty" /\ Becomes(w, "cache", "init")
  /\ memory' = [memory EXCEPT !.made = TRUE]
  /\ GoesTo(w, IF memory.made THEN "waitready" ELSE "newlock")
  /\ UNCHANGED <<table, kills>>

HasCache(w) ==
  /\ Is(w, "cache") /\ State(w, "cache") = "avail" /\ GoesTo(w, "register")
  /\ UNCHANGED <<once, memory, table, kills>>

(* Mutant: the memory is used as soon as it is there.                      *)
WaitReadyMutant(w) ==
  /\ Is(w, "waitready")
  /\ Becomes(w, "cache", "avail") /\ GoesTo(w, "register")
  /\ UNCHANGED <<memory, table, kills>>

WaitReady(w) ==
  /\ Is(w, "waitready") /\ memory.ready
  /\ Becomes(w, "cache", "avail") /\ GoesTo(w, "register")
  /\ UNCHANGED <<memory, table, kills>>

(* The locks are made, and taken; the blocks and the entries are cleared.  *)
NewLock(w) ==
  /\ Is(w, "newlock") /\ memory' = [memory EXCEPT !.lock = Nobody] /\ GoesTo(w, "lock")
  /\ UNCHANGED <<once, table, kills>>

LockMemory(w) ==
  /\ Is(w, "lock") /\ memory.lock = Nobody
  /\ memory' = [memory EXCEPT !.lock = w] /\ GoesTo(w, "clear")
  /\ UNCHANGED <<once, table, kills>>

Clear(w) ==
  /\ Is(w, "clear") /\ memory' = [memory EXCEPT !.used = {}] /\ GoesTo(w, "unlock")
  /\ UNCHANGED <<once, table, kills>>

UnlockMemory(w) ==
  /\ Is(w, "unlock") /\ memory' = [memory EXCEPT !.lock = Nobody] /\ GoesTo(w, "ready")
  /\ UNCHANGED <<once, table, kills>>

Ready(w) ==
  /\ Is(w, "ready") /\ memory' = [memory EXCEPT !.ready = TRUE]
  /\ Becomes(w, "cache", "avail") /\ GoesTo(w, "register")
  /\ UNCHANGED <<table, kills>>

-------------------------------------------------------------------------------
(* openFileCacheRegister and initFileCacheRegister.                        *)

StartRegister(w) ==
  /\ Is(w, "register") /\ State(w, "register") = "empty" /\ Becomes(w, "register", "init")
  /\ table' = [table EXCEPT !.made = TRUE]
  /\ GoesTo(w, IF table.made THEN "waitflag" ELSE "construct")
  /\ UNCHANGED <<memory, kills>>

(* Lost the exchange: the thread that won it is waited for.                *)
HasRegister(w) ==
  /\ Is(w, "register") /\ State(w, "register") = "avail" /\ GoesTo(w, "lockname")
  /\ UNCHANGED <<once, memory, table, kills>>

(* The constructor, and the flag at its end.                               *)
Construct(w) ==
  /\ Is(w, "construct") /\ GoesTo(w, "setflag")
  /\ table' = [table EXCEPT !.available = 0, !.lock = Nobody,
                            !.name = [i \in 1 .. Slots |-> Nobody]]
  /\ UNCHANGED <<once, memory, kills>>

SetFlag(w) ==
  /\ Is(w, "setflag") /\ table' = [table EXCEPT !.flag = 1]
  /\ Becomes(w, "register", "avail") /\ GoesTo(w, "lockname")
  /\ UNCHANGED <<memory, kills>>

(* incUsage.  Nobody takes a use back: the flag only tells zero from more. *)
WaitFlag(w) ==
  /\ Is(w, "waitflag") /\ table.flag # 0
  /\ Becomes(w, "register", "avail") /\ GoesTo(w, "lockname")
  /\ UNCHANGED <<memory, table, kills>>

-------------------------------------------------------------------------------
(* registerFile.                                                           *)

LockTable(w) ==
  /\ Is(w, "lockname") /\ table.lock = Nobody
  /\ table' = [table EXCEPT !.lock = w] /\ GoesTo(w, "search")
  /\ UNCHANGED <<once, memory, kills>>

Known(w) == {i \in 1 .. table.available : i <= Slots /\ table.name[i] = NameOf(w)}

Search(w) ==
  /\ Is(w, "search")
  /\ work' = IF Known(w) = {} THEN [work EXCEPT ![w].pc = "take"]
             ELSE [work EXCEPT ![w] = [pc |-> "unlockname",
                                       index |-> CHOOSE i \in Known(w) : TRUE]]
  /\ UNCHANGED <<once, memory, table, kills>>

(* The number is taken, and then the name is written.                      *)
Take(w) ==
  /\ Is(w, "take") /\ table' = [table EXCEPT !.available = @ + 1]
  /\ work' = IF table.available < Slots
             THEN [work EXCEPT ![w] = [pc |-> "write", index |-> table.available + 1]]
             ELSE [work EXCEPT ![w].pc = "unlockname"]
  /\ UNCHANGED <<once, memory, kills>>

WriteName(w) ==
  /\ Is(w, "write") /\ GoesTo(w, "unlockname")
  /\ table' = [table EXCEPT !.name[work[w].index] = NameOf(w)]
  /\ UNCHANGED <<once, memory, kills>>

UnlockTable(w) ==
  /\ Is(w, "unlockname") /\ table' = [table EXCEPT !.lock = Nobody] /\ GoesTo(w, "use")
  /\ UNCHANGED <<once, memory, kills>>

(* A block of the file gets an entry of the cache, under its lock.         *)
UseMemory(w) ==
  /\ Is(w, "use") /\ memory.lock = Nobody
  /\ memory' = [memory EXCEPT !.used = @ \cup {work[w].index}] /\ GoesTo(w, "done")
  /\ UNCHANGED <<once, table, kills>>

-------------------------------------------------------------------------------
(* A process is killed and started again.                                  *)
Kill(p) ==
  /\ kills < MaxKills /\ kills' = kills + 1
  /\ once' = [once EXCEPT ![p] = Unused]
  /\ work' = [w \in Workers |-> IF HomeOf(w) = p THEN Fresh ELSE work[w]]
  /\ UNCHANGED <<memory, table>>

SharedStep(w) ==
  \/ StartCache(w) \/ HasCache(w) \/ WaitReady(w) \/ NewLock(w) \/ LockMemory(w)
  \/ Clear(w) \/ UnlockMemory(w) \/ Ready(w) \/ StartRegister(w) \/ HasRegister(w)
  \/ Construct(w) \/ SetFlag(w) \/ WaitFlag(w) \/ LockTable(w) \/ Search(w)
  \/ Take(w) \/ WriteName(w) \/ UnlockTable(w) \/ UseMemory(w)

SharedNext == (\E w \in Workers : SharedStep(w)) \/ (\E p \in Processes : Kill(p))

SharedSpec == SharedInit /\ [][SharedNext]_sharedVars

-------------------------------------------------------------------------------
(* Nothing that a process found or put in the shared memory is taken away  *)
(* again by one that still initialises it, and all processes know a file   *)
(* by the same index, another for every file: whoever opens it first, at   *)
(* the same time, or after others were killed, and wherever those were.    *)
SharedMemoryKept ==
  /\ \A w \in Workers : Is(w, "use") \/ Is(w, "done") =>
       table.name[work[w].index] = NameOf(w)
  /\ \A w, v \in Workers :
       (Is(w, "use") \/ Is(w, "done")) /\ (Is(v, "use") \/ Is(v, "done")) =>
         (work[w].index = work[v].index <=> NameOf(w) = NameOf(v))
  /\ \A w \in Workers : Is(w, "done") => work[w].index \in memory.used
===============================================================================
