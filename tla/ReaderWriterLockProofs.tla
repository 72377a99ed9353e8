------------------------ MODULE ReaderWriterLockProofs ------------------------
(***************************************************************************)
(* Proofs about ReaderWriterLock for every finite set of threads, and      *)
(* about two parts that rely on it: the memory that processes share, and   *)
(* the handles for URLs, in which every download is a reader.              *)
(*                                                                         *)
(* The lock's argument: _readers and _writers are exact (ReadersExact,     *)
(* OneOwner), so a writer that reads _readers = 0 while it owns _writers   *)
(* has nobody inside and nobody who could still enter without looking at   *)
(* _writers again.                                                         *)
(***************************************************************************)
EXTENDS ReaderWriterLock, SharedMemory, UrlFiles, FiniteSetTheorems, SequenceTheorems, TLAPS

(* The counted threads are a finite set, now and after any step.           *)
LEMMA CountedFinite ==
  /\ IsFiniteSet(Counted) /\ Cardinality(Counted) \in Nat
  /\ IsFiniteSet(Counted') /\ Cardinality(Counted') \in Nat
<1>1. Counted \in SUBSET Threads /\ Counted' \in SUBSET Threads
  BY DEF Counted
<1>2. IsFiniteSet(Counted) /\ IsFiniteSet(Counted')
  BY <1>1, ThreadsFinite, FS_Subset
<1> QED
  BY <1>2, FS_CardinalityType

(* What a step does to the set _readers counts: fetch_add puts the thread  *)
(* in, fetch_sub takes it out, every other step leaves the set alone.      *)
LEMMA CountedStep ==
  ASSUME LockTypeOK, NEW t \in Threads
  PROVE  /\ ReaderAdd(t) => t \notin Counted /\ Counted' = Counted \cup {t}
         /\ ReaderUndo(t) \/ ReaderUnlock(t)
              => t \in Counted /\ Counted' = Counted \ {t}
         /\ Call(t) \/ ReaderSeesNoWriter(t) \/ ReaderEnter(t)
              \/ ReaderYield(t) \/ WriterStep(t)
              => Counted' = Counted
<1>1. ReaderAdd(t) => t \notin Counted /\ Counted' = Counted \cup {t}
  BY DEF LockTypeOK, PCs, Counted, ReaderAdd, Goto
<1>2. ReaderUndo(t) \/ ReaderUnlock(t)
        => t \in Counted /\ Counted' = Counted \ {t}
  BY DEF LockTypeOK, PCs, Counted, ReaderUndo, ReaderUnlock, Goto
<1>3. Call(t) => Counted' = Counted
  BY DEF LockTypeOK, PCs, Counted, Call, CallReaderLock, CallTryReaderLock,
         CallWriterLock, Goto
<1>4. ReaderSeesNoWriter(t) \/ ReaderEnter(t) \/ ReaderYield(t)
        => Counted' = Counted
  BY DEF LockTypeOK, PCs, Counted, ReaderSeesNoWriter, ReaderEnter, ReaderYield, Goto
<1>5. WriterStep(t) => Counted' = Counted
  BY DEF LockTypeOK, PCs, Counted, WriterStep, WriterAcquire, WriterEnter,
         CowardSeesReader, WriterRelease, Goto
<1> QED
  BY <1>1, <1>2, <1>3, <1>4, <1>5

(* The reader count follows the set it counts.                             *)
LEMMA CountExactStep ==
  ASSUME LockTypeOK, ReadersExact, [LockNext]_lockVars
  PROVE  ReadersExact' /\ readers' \in Nat
<1>1. CASE UNCHANGED lockVars
  <2>1. Counted' = Counted
    BY <1>1 DEF lockVars, Counted
  <2> QED
    BY <1>1, <2>1 DEF lockVars, ReadersExact, LockTypeOK
<1>2. ASSUME NEW t \in Threads, Call(t) \/ ReaderStep(t) \/ WriterStep(t)
      PROVE  ReadersExact' /\ readers' \in Nat
  <2>1. CASE ReaderAdd(t)
    <3>1. Cardinality(Counted') = Cardinality(Counted) + 1
      BY <2>1, CountedStep, CountedFinite, FS_AddElement
    <3>2. readers' = readers + 1
      BY <2>1 DEF ReaderAdd
    <3> QED
      BY <3>1, <3>2 DEF ReadersExact, LockTypeOK
  <2>2. CASE ReaderUndo(t) \/ ReaderUnlock(t)
    <3>1. Cardinality(Counted') = Cardinality(Counted) - 1
      BY <2>2, CountedStep, CountedFinite, FS_RemoveElement
    <3>2. readers' = readers - 1
      BY <2>2 DEF ReaderUndo, ReaderUnlock
    <3> QED
      BY <3>1, <3>2, CountedFinite DEF ReadersExact, LockTypeOK
  <2>3. CASE Call(t) \/ ReaderSeesNoWriter(t) \/ ReaderEnter(t)
               \/ ReaderYield(t) \/ WriterStep(t)
    <3>1. Counted' = Counted
      BY <2>3, CountedStep
    <3>2. readers' = readers
      BY <2>3 DEF Call, CallReaderLock, CallTryReaderLock, CallWriterLock,
                  ReaderSeesNoWriter, ReaderEnter, ReaderYield, WriterStep,
                  WriterAcquire, WriterEnter, CowardSeesReader, WriterRelease
    <3> QED
      BY <3>1, <3>2 DEF ReadersExact, LockTypeOK
  <2> QED
    BY <1>2, <2>1, <2>2, <2>3 DEF ReaderStep
<1> QED
  BY <1>1, <1>2 DEF LockNext

(* With _readers = 0 nobody is counted, so nobody is inside as a reader.   *)
LEMMA NobodyReading ==
  ASSUME LockTypeOK, ReadersExact, readers = 0
  PROVE  \A u \in Threads : pc[u] # "reading"
<1>1. Counted = {}
  BY CountedFinite, FS_EmptySet DEF ReadersExact
<1> QED
  BY <1>1 DEF Counted

(* The invariant is inductive.                                             *)
LEMMA IInvStep == LockIInv /\ [LockNext]_lockVars => LockIInv'
<1> SUFFICES ASSUME LockIInv, [LockNext]_lockVars
             PROVE  LockIInv'
  OBVIOUS
<1> USE DEF LockIInv
<1>1. ReadersExact' /\ readers' \in Nat
  BY CountExactStep
<1>2. CASE UNCHANGED lockVars
  BY <1>1, <1>2 DEF lockVars, LockTypeOK, OneOwner, Owners, MutualExclusion
<1>3. ASSUME NEW t \in Threads, Call(t) PROVE LockIInv'
  BY <1>1, <1>3 DEF Call, CallReaderLock, CallTryReaderLock, CallWriterLock,
       Goto, LockTypeOK, PCs, OneOwner, Owners, MutualExclusion
<1>4. ASSUME NEW t \in Threads, ReaderStep(t) PROVE LockIInv'
  <2>1. LockTypeOK'
    BY <1>1, <1>4 DEF ReaderStep, ReaderSeesNoWriter, ReaderAdd, ReaderEnter,
         ReaderYield, ReaderUndo, ReaderUnlock, Goto, LockTypeOK, PCs
  <2>2. OneOwner'
    BY <1>4 DEF ReaderStep, ReaderSeesNoWriter, ReaderAdd, ReaderEnter,
         ReaderYield, ReaderUndo, ReaderUnlock, Goto, LockTypeOK, PCs, OneOwner, Owners
  <2>3. CASE ReaderEnter(t)
    <3>1. \A u \in Threads : pc[u] # "writing"
      BY <2>3 DEF ReaderEnter, OneOwner, Owners, LockTypeOK
    <3>2. MutualExclusion'
      BY <2>3, <3>1 DEF ReaderEnter, Goto, LockTypeOK, MutualExclusion
    <3> QED
      BY <1>1, <2>1, <2>2, <3>2
  <2>4. CASE ~ReaderEnter(t)
    <3>1. MutualExclusion'
      BY <1>4, <2>4 DEF ReaderStep, ReaderSeesNoWriter, ReaderAdd, ReaderYield,
           ReaderUndo, ReaderUnlock, Goto, LockTypeOK, MutualExclusion
    <3> QED
      BY <1>1, <2>1, <2>2, <3>1
  <2> QED
    BY <2>3, <2>4
<1>5. ASSUME NEW t \in Threads, WriterStep(t) PROVE LockIInv'
  <2>1. LockTypeOK'
    BY <1>1, <1>5 DEF WriterStep, WriterAcquire, WriterEnter, CowardSeesReader,
         WriterRelease, Goto, LockTypeOK, PCs
  <2>2. CASE WriterAcquire(t)
    <3>1. OneOwner'
      BY <2>2 DEF WriterAcquire, Goto, LockTypeOK, OneOwner, Owners
    <3>2. MutualExclusion'
      BY <2>2 DEF WriterAcquire, Goto, LockTypeOK, MutualExclusion
    <3> QED
      BY <1>1, <2>1, <3>1, <3>2
  <2>3. CASE WriterEnter(t)
    <3>1. OneOwner'
      BY <2>3 DEF WriterEnter, Goto, LockTypeOK, OneOwner, Owners
    <3>2. \A u \in Threads : pc[u] # "reading"
      BY <2>3, NobodyReading DEF WriterEnter
    <3>3. MutualExclusion'
      BY <2>3, <3>1, <3>2 DEF WriterEnter, Goto, LockTypeOK, OneOwner, Owners,
           MutualExclusion
    <3> QED
      BY <1>1, <2>1, <3>1, <3>3
  <2>4. CASE CowardSeesReader(t)
    BY <1>1, <2>1, <2>4 DEF CowardSeesReader, Goto, LockTypeOK, OneOwner, Owners,
         MutualExclusion
  <2>5. CASE WriterRelease(t)
    BY <1>1, <2>1, <2>5 DEF WriterRelease, Goto, LockTypeOK, OneOwner, Owners,
         MutualExclusion
  <2> QED
    BY <1>5, <2>2, <2>3, <2>4, <2>5 DEF WriterStep
<1> QED
  BY <1>2, <1>3, <1>4, <1>5 DEF LockNext

(* Initially nobody is counted and nobody owns the flag.                   *)
LEMMA IInvInit == LockInit => LockIInv
<1> SUFFICES ASSUME LockInit PROVE LockIInv
  OBVIOUS
<1>1. Counted = {}
  BY DEF LockInit, Counted
<1>2. ReadersExact
  BY <1>1, FS_EmptySet DEF ReadersExact, LockInit
<1>3. LockTypeOK /\ OneOwner /\ MutualExclusion
  BY DEF LockInit, LockTypeOK, PCs, OneOwner, Owners, MutualExclusion
<1> QED
  BY <1>2, <1>3 DEF LockIInv

(* The inductive invariant holds in every state of the lock.               *)
THEOREM LockInvariant == LockSpec => []LockIInv
<1> QED
  BY IInvInit, IInvStep, PTL DEF LockSpec

(* The variables of the lock keep their types for every finite number of   *)
(* threads: _readers never goes below zero.                                *)
THEOREM TypeCorrect == LockSpec => []LockTypeOK
<1>1. LockIInv => LockTypeOK
  BY DEF LockIInv
<1> QED
  BY <1>1, LockInvariant, PTL

(* Mutual exclusion of readerLock, tryReaderLock, writerLock,              *)
(* tryWriterLock and cowardlyTryWriterLock for any finite set of threads.  *)
THEOREM Exclusion == LockSpec => []MutualExclusion
<1>1. LockIInv => MutualExclusion
  BY DEF LockIInv
<1> QED
  BY <1>1, LockInvariant, PTL

(* _readers counts exactly the threads that are inside or on their way.    *)
THEOREM ExactReaders == LockSpec => []ReadersExact
<1>1. LockIInv => ReadersExact
  BY DEF LockIInv
<1> QED
  BY <1>1, LockInvariant, PTL

(* _writers has at most one owner, and is set exactly while it has one.    *)
THEOREM SingleOwner == LockSpec => []OneOwner
<1>1. LockIInv => OneOwner
  BY DEF LockIInv
<1> QED
  BY <1>1, LockInvariant, PTL

(* Every step of the lock enters or leaves as the abstract lock allows, or *)
(* changes nothing the abstract lock can see.                              *)
LEMMA RefinesStep == LockIInv /\ LockIInv' /\ [LockNext]_lockVars => [Abs!AbsNext]_(Abs!absVars)
<1> SUFFICES ASSUME LockIInv, LockIInv', [LockNext]_lockVars
             PROVE  [Abs!AbsNext]_(Abs!absVars)
  OBVIOUS
<1> DEFINE R == {t \in Threads : pc[t] = "reading"}
           W == {t \in Threads : pc[t] = "writing"}
<1> USE DEF LockIInv
<1>1. CASE UNCHANGED lockVars
  BY <1>1 DEF lockVars, Abs!absVars
<1>2. ASSUME NEW t \in Threads, Call(t) PROVE R' = R /\ W' = W
  BY <1>2 DEF Call, CallReaderLock, CallTryReaderLock, CallWriterLock, Goto, LockTypeOK
<1>3. ASSUME NEW t \in Threads, ReaderStep(t) PROVE [Abs!AbsNext]_(Abs!absVars)
  <2>1. CASE ReaderEnter(t)
    <3>1. t \notin R /\ W = {}
      BY <2>1 DEF ReaderEnter, Goto, OneOwner, Owners, LockTypeOK
    <3>2. R' = R \cup {t} /\ W' = W
      BY <2>1 DEF ReaderEnter, Goto, LockTypeOK
    <3> QED
      BY <3>1, <3>2 DEF Abs!AbsNext, Abs!EnterRead
  <2>2. CASE ReaderUnlock(t)
    <3>1. t \in R /\ R' = R \ {t} /\ W' = W
      BY <2>2 DEF ReaderUnlock, Goto, LockTypeOK
    <3> QED
      BY <3>1 DEF Abs!AbsNext, Abs!LeaveRead
  <2>3. CASE ReaderSeesNoWriter(t) \/ ReaderAdd(t) \/ ReaderYield(t) \/ ReaderUndo(t)
    <3>1. R' = R /\ W' = W
      BY <2>3 DEF ReaderSeesNoWriter, ReaderAdd, ReaderYield, ReaderUndo, Goto, LockTypeOK
    <3> QED
      BY <3>1 DEF Abs!absVars
  <2> QED
    BY <1>3, <2>1, <2>2, <2>3 DEF ReaderStep
<1>4. ASSUME NEW t \in Threads, WriterStep(t) PROVE [Abs!AbsNext]_(Abs!absVars)
  <2>1. CASE WriterEnter(t)
    <3>1. R = {} /\ W = {}
      BY <2>1, NobodyReading DEF WriterEnter, Goto, OneOwner, Owners, LockTypeOK
    <3>2. R' = R /\ W' = {t}
      BY <2>1, <3>1 DEF WriterEnter, Goto, LockTypeOK
    <3> QED
      BY <3>1, <3>2 DEF Abs!AbsNext, Abs!EnterWrite
  <2>2. CASE WriterRelease(t) /\ pc[t] = "writing"
    <3>1. t \in W /\ W' = W \ {t} /\ R' = R
      BY <2>2 DEF WriterRelease, Goto, LockTypeOK
    <3> QED
      BY <3>1 DEF Abs!AbsNext, Abs!LeaveWrite
  <2>3. CASE \/ WriterAcquire(t) \/ CowardSeesReader(t)
             \/ WriterRelease(t) /\ pc[t] # "writing"
    <3>1. R' = R /\ W' = W
      BY <2>3 DEF WriterAcquire, CowardSeesReader, WriterRelease, Goto, LockTypeOK
    <3> QED
      BY <3>1 DEF Abs!absVars
  <2> QED
    BY <1>4, <2>1, <2>2, <2>3 DEF WriterStep
<1> QED
  BY <1>1, <1>2, <1>3, <1>4 DEF LockNext, Abs!absVars

(* The lock of ReaderWriterLock.cpp implements the abstract reader-writer  *)
(* lock for any finite set of threads.                                     *)
THEOREM LockRefinement == LockSpec => ImplementsLock
<1>1. LockInit => Abs!AbsInit
  BY DEF LockInit, Abs!AbsInit
<1> QED
  BY <1>1, RefinesStep, LockInvariant, PTL DEF LockSpec, ImplementsLock, Abs!AbsSpec

-------------------------------------------------------------------------------
(* SharedMemory: a memory object has one maker, since it is made once, and *)
(* a process that was killed never comes back to its place; everyone else  *)
(* waits for what the maker sets last.  So nobody has a file's index or an *)
(* entry while the memory is still cleared.                                *)

Makes      == {"newlock", "lock", "clear", "unlock", "ready"}
Constructs == {"construct", "setflag"}
Holds      == {"search", "take", "write", "unlockname"}
Named      == {"unlockname", "use", "done"}
HasTable   == {"lockname", "use", "done"} \cup Holds
HasMemory  == {"register", "waitflag"} \cup Constructs \cup HasTable
Places     == {"cache", "waitready"} \cup Makes \cup HasMemory
Phases     == {"empty", "init", "avail"}

StandsIn(w, S) == work[w].pc \in S

SharedTypes ==
  /\ once \in [Processes -> [cache : Phases, register : Phases]]
  /\ memory \in [made : BOOLEAN, ready : BOOLEAN, lock : Workers \cup {Nobody}, used : SUBSET Nat]
  /\ table \in [made : BOOLEAN, flag : {0, 1}, available : Nat,
                name : [1 .. Slots -> Names \cup {Nobody}], lock : Workers \cup {Nobody}]
  /\ work \in [Workers -> [pc : Places, index : 0 .. Slots]]

(* One thread makes the cache, before anyone uses it.                      *)
MakerInv ==
  /\ memory.ready => memory.made
  /\ \A w \in Workers : StandsIn(w, Makes) => memory.made /\ ~memory.ready
  /\ \A w, v \in Workers : StandsIn(w, Makes) /\ StandsIn(v, Makes) => w = v
  /\ \A w \in Workers : StandsIn(w, HasMemory) => memory.ready
  /\ \A p \in Processes : once[p].cache = "avail" => memory.ready

(* And one the register.                                                   *)
ConstructorInv ==
  /\ table.flag = 1 => table.made
  /\ \A w \in Workers : StandsIn(w, Constructs) => table.made /\ table.flag = 0
  /\ \A w, v \in Workers : StandsIn(w, Constructs) /\ StandsIn(v, Constructs) => w = v
  /\ \A w \in Workers : StandsIn(w, HasTable) => table.flag = 1
  /\ \A p \in Processes : once[p].register = "avail" => table.flag = 1

(* The names are there once each, without gaps unless the thread that has  *)
(* the lock is about to write one, or was killed then and keeps the lock.  *)
Full == \A i \in 1 .. table.available : i <= Slots /\ table.name[i] # Nobody
NoName(w) == \A i \in 1 .. Slots : table.name[i] # NameOf(w)

NamesOnce ==
  /\ \A i, j \in 1 .. Slots : table.name[i] = table.name[j] /\ table.name[i] # Nobody => i = j
  /\ \A i \in 1 .. Slots : table.name[i] # Nobody => i <= table.available
  /\ table.lock = Nobody => Full

WorkerSound(w) ==
  /\ StandsIn(w, Holds) => table.lock = w
  /\ StandsIn(w, Holds \ {"write"}) => Full
  /\ StandsIn(w, {"take", "write"}) => NoName(w)
  /\ StandsIn(w, {"write"}) => /\ work[w].index \in 1 .. Slots
                             /\ work[w].index = table.available
                             /\ table.name[table.available] = Nobody
                             /\ \A i \in 1 .. table.available - 1 : table.name[i] # Nobody
  /\ StandsIn(w, Named) => work[w].index \in 1 .. Slots /\ table.name[work[w].index] = NameOf(w)
  /\ StandsIn(w, {"done"}) => work[w].index \in memory.used

SharedInv ==
  /\ SharedTypes /\ MakerInv /\ ConstructorInv /\ NamesOnce
  /\ \A w \in Workers : WorkerSound(w)

LEMMA SharedInitSound == SharedInit => SharedInv
<1> SUFFICES ASSUME SharedInit PROVE SharedInv
  OBVIOUS
<1> USE SharedMemoryConstants
<1>1. Unused \in [cache : Phases, register : Phases]
  BY DEF Unused, Phases
<1>2. Fresh \in [pc : Places, index : 0 .. Slots]
  BY DEF Fresh, Places
<1>3. SharedTypes
  <2>1. memory \in [made : BOOLEAN, ready : BOOLEAN, lock : Workers \cup {Nobody}, used : SUBSET Nat]
    BY DEF SharedInit
  <2>2. table \in [made : BOOLEAN, flag : {0, 1}, available : Nat,
                   name : [1 .. Slots -> Names \cup {Nobody}], lock : Workers \cup {Nobody}]
    BY DEF SharedInit
  <2> QED
    BY <1>1, <1>2, <2>1, <2>2 DEF SharedInit, SharedTypes
<1>4. \A w \in Workers : work[w].pc = "cache"
  BY DEF SharedInit, Fresh
<1>5. \A p \in Processes : once[p].cache = "empty" /\ once[p].register = "empty"
  BY DEF SharedInit, Unused
<1>6. MakerInv /\ ConstructorInv
  BY <1>4, <1>5
     DEF SharedInit, MakerInv, ConstructorInv, StandsIn, Makes, Constructs, HasTable, HasMemory, Holds
<1>7. NamesOnce
  BY DEF SharedInit, NamesOnce, Full
<1>8. \A w \in Workers : WorkerSound(w)
  BY <1>4 DEF WorkerSound, StandsIn, Holds, Named
<1> QED
  BY <1>3, <1>6, <1>7, <1>8 DEF SharedInv

(* A thread's step moves that thread only.                                 *)
LEMMA GoesToEffect ==
  ASSUME SharedTypes, NEW w \in Workers, NEW at \in Places, GoesTo(w, at)
  PROVE  /\ work' \in [Workers -> [pc : Places, index : 0 .. Slots]]
         /\ work'[w].pc = at /\ work'[w].index = work[w].index
         /\ \A v \in Workers : v # w => work'[v] = work[v]
BY DEF GoesTo, SharedTypes

LEMMA BecomesEffect ==
  ASSUME SharedTypes, NEW w \in Workers, NEW s \in Phases,
         Becomes(w, "cache", s) \/ Becomes(w, "register", s)
  PROVE  /\ once' \in [Processes -> [cache : Phases, register : Phases]]
         /\ \A p \in Processes : p # HomeOf(w) => once'[p] = once[p]
         /\ Becomes(w, "cache", s) => /\ once'[HomeOf(w)].cache = s
                                      /\ once'[HomeOf(w)].register = once[HomeOf(w)].register
         /\ Becomes(w, "register", s) => /\ once'[HomeOf(w)].register = s
                                         /\ once'[HomeOf(w)].cache = once[HomeOf(w)].cache
<1>1. HomeOf(w) \in Processes
  BY DEF Workers, HomeOf
<1> QED
  BY <1>1 DEF Becomes, SharedTypes

(* Where nothing but a thread's place changes, or what it does is about    *)
(* the cache's memory only.                                                *)
LEMMA MakerSteps ==
  ASSUME SharedInv, NEW w \in Workers,
         \/ StartCache(w) \/ HasCache(w) \/ WaitReady(w) \/ NewLock(w) \/ LockMemory(w)
         \/ Clear(w) \/ UnlockMemory(w) \/ Ready(w)
  PROVE  SharedInv'
<1> USE SharedMemoryConstants DEF SharedInv
<1> DEFINE B == BOOLEAN
<1>m. memory \in [made : B, ready : B, lock : Workers \cup {Nobody}, used : SUBSET Nat]
  BY DEF SharedTypes
<1>t. UNCHANGED table
  BY DEF StartCache, HasCache, WaitReady, NewLock, LockMemory, Clear, UnlockMemory, Ready
<1>b. TRUE \in B
  OBVIOUS
<1> HIDE DEF B
<1>1. memory' \in [made : B, ready : B, lock : Workers \cup {Nobody}, used : SUBSET Nat]
  BY <1>m, <1>b
     DEF StartCache, HasCache, WaitReady, NewLock, LockMemory, Clear, UnlockMemory, Ready
<1>2. PICK at \in Places : GoesTo(w, at)
  <2>1. {"newlock", "lock", "clear", "unlock", "ready", "waitready", "register"} \subseteq Places
    BY DEF Places, Makes, HasMemory
  <2> QED
    BY <2>1 DEF StartCache, HasCache, WaitReady, NewLock, LockMemory, Clear, UnlockMemory, Ready
<1>3. /\ work' \in [Workers -> [pc : Places, index : 0 .. Slots]]
      /\ work'[w].pc = at /\ work'[w].index = work[w].index
      /\ \A v \in Workers : v # w => work'[v] = work[v]
  BY <1>2, GoesToEffect
<1>4. /\ once' \in [Processes -> [cache : Phases, register : Phases]]
      /\ \A p \in Processes : once'[p].register = once[p].register
  <2>1. CASE UNCHANGED once
    BY <2>1 DEF SharedTypes
  <2>2. CASE \E s \in Phases : Becomes(w, "cache", s)
    BY <2>2, BecomesEffect
  <2> QED
    BY <2>1, <2>2
       DEF StartCache, HasCache, WaitReady, NewLock, LockMemory, Clear, UnlockMemory, Ready, Phases
<1>5. SharedTypes'
  BY <1>1, <1>3, <1>4, <1>t DEF SharedTypes, B
<1>6. at \in Makes \cup {"waitready", "register"} /\ work[w].pc \in Makes \cup {"cache", "waitready"}
  <2>1. work'[w].pc = at
    BY <1>3
  <2>2. \A q : GoesTo(w, q) => work'[w].pc = q
    BY DEF GoesTo, SharedTypes
  <2> QED
    BY <2>1, <2>2
       DEF StartCache, HasCache, WaitReady, NewLock, LockMemory, Clear, UnlockMemory, Ready, Makes, Is
<1>7. ConstructorInv'
  BY <1>3, <1>4, <1>6, <1>t DEF ConstructorInv, StandsIn, Makes, Constructs, HasTable, Holds
<1>8. NamesOnce'
  BY <1>t DEF NamesOnce, Full
<1>9. \A v \in Workers : WorkerSound(v)'
  <2> SUFFICES ASSUME NEW v \in Workers PROVE WorkerSound(v)'
    OBVIOUS
  <2>1. WorkerSound(v) /\ (~StandsIn(v, {"done"}) \/ memory.ready)
    BY DEF MakerInv, StandsIn, HasMemory, HasTable
  <2>2. memory.ready => memory'.used = memory.used
    BY DEF Clear, MakerInv, StandsIn, Makes, StartCache, HasCache, WaitReady, NewLock,
           LockMemory, UnlockMemory, Ready, SharedTypes, Is
  <2>3. CASE v = w
    BY <1>3, <1>6, <2>3, <1>t DEF WorkerSound, StandsIn, Makes, Holds, Named
  <2>4. CASE v # w
    BY <1>3, <2>1, <2>2, <2>4, <1>t DEF WorkerSound, StandsIn, Full, NoName
  <2> QED
    BY <2>3, <2>4
<1>10. MakerInv'
  <2> USE DEF MakerInv, StandsIn
  <2>1. CASE StartCache(w)
    <3>1. memory'.made /\ memory'.ready = memory.ready /\ (at = "newlock" => ~memory.made)
          /\ at \in {"newlock", "waitready"}
      BY <1>3, <2>1 DEF StartCache, SharedTypes, GoesTo
    <3>2. \A p \in Processes : once'[p].cache = "avail" => once[p].cache = "avail"
      <4>1. Becomes(w, "cache", "init")
        BY <2>1 DEF StartCache
      <4> QED
        BY <4>1, BecomesEffect DEF Phases
    <3>3. "newlock" \notin HasMemory /\ "waitready" \notin HasMemory \cup Makes
      BY DEF Makes, HasMemory, HasTable, Constructs, Holds
    <3>4. \A v \in Workers : work'[v].pc \in Makes =>
            \/ v = w /\ ~memory.made
            \/ v # w /\ work[v].pc \in Makes
      BY <1>3, <3>1, <3>3
    <3>5. ~memory.made => ~memory.ready
      OBVIOUS
    <3> QED
      BY <1>3, <3>1, <3>2, <3>3, <3>4, <3>5
  <2>2. CASE NewLock(w) \/ LockMemory(w) \/ Clear(w) \/ UnlockMemory(w)
    <3>1. /\ memory'.made = memory.made /\ memory'.ready = memory.ready
          /\ at \in Makes /\ work[w].pc \in Makes /\ once' = once
      BY <1>3, <2>2 DEF NewLock, LockMemory, Clear, UnlockMemory, SharedTypes, GoesTo, Makes, Is
    <3> QED
      BY <1>3, <3>1 DEF Makes, HasMemory, HasTable, Constructs, Holds
  <2>3. CASE HasCache(w)
    <3>1. once[HomeOf(w)].cache = "avail" /\ HomeOf(w) \in Processes
      BY <2>3 DEF HasCache, State, Workers, HomeOf
    <3>2. memory' = memory /\ once' = once /\ at = "register"
      BY <1>3, <2>3 DEF HasCache, GoesTo, SharedTypes
    <3> QED
      BY <1>3, <3>1, <3>2 DEF Makes
  <2>4. CASE WaitReady(w)
    <3>1. memory' = memory /\ memory.ready /\ at = "register"
      BY <1>3, <2>4 DEF WaitReady, GoesTo, SharedTypes
    <3> QED
      BY <1>3, <3>1 DEF Makes
  <2>5. CASE Ready(w)
    <3>1. memory'.ready /\ memory'.made = memory.made /\ at = "register" /\ work[w].pc \in Makes
      BY <1>3, <2>5 DEF Ready, GoesTo, SharedTypes, Makes, Is
    <3> QED
      BY <1>3, <3>1 DEF Makes
  <2> QED
    BY <2>1, <2>2, <2>3, <2>4, <2>5
<1> QED
  BY <1>5, <1>7, <1>8, <1>9, <1>10

(* The register, while nobody has it yet.                                  *)
LEMMA ConstructorSteps ==
  ASSUME SharedInv, NEW w \in Workers,
         StartRegister(w) \/ HasRegister(w) \/ Construct(w) \/ SetFlag(w) \/ WaitFlag(w)
  PROVE  SharedInv'
<1> USE SharedMemoryConstants DEF SharedInv
<1> DEFINE B == BOOLEAN
<1> DEFINE N == [1 .. Slots -> Names \cup {Nobody}]
<1>m. table \in [made : B, flag : {0, 1}, available : Nat, name : N, lock : Workers \cup {Nobody}]
  BY DEF SharedTypes
<1>t. UNCHANGED memory
  BY DEF StartRegister, HasRegister, Construct, SetFlag, WaitFlag
<1>b. TRUE \in B /\ [i \in 1 .. Slots |-> Nobody] \in N
  OBVIOUS
<1> HIDE DEF B, N
<1>1. table' \in [made : B, flag : {0, 1}, available : Nat, name : N, lock : Workers \cup {Nobody}]
  <2>1. CASE Construct(w)
    <3> DEFINE none == [i \in 1 .. Slots |-> Nobody]
    <3>1. table' = [table EXCEPT !.available = 0, !.lock = Nobody, !.name = none]
      BY <2>1 DEF Construct
    <3>2. none \in N
      BY <1>b
    <3> HIDE DEF none
    <3> QED
      BY <1>m, <3>1, <3>2
  <2>2. CASE StartRegister(w)
    BY <1>m, <1>b, <2>2 DEF StartRegister
  <2>3. CASE SetFlag(w)
    BY <1>m, <2>3 DEF SetFlag
  <2> QED
    BY <1>m, <2>1, <2>2, <2>3 DEF HasRegister, WaitFlag
<1>2. PICK at \in Places : GoesTo(w, at)
  <2>1. {"construct", "setflag", "waitflag", "lockname"} \subseteq Places
    BY DEF Places, HasMemory, Constructs, HasTable
  <2> QED
    BY <2>1 DEF StartRegister, HasRegister, Construct, SetFlag, WaitFlag
<1>3. /\ work' \in [Workers -> [pc : Places, index : 0 .. Slots]]
      /\ work'[w].pc = at /\ work'[w].index = work[w].index
      /\ \A v \in Workers : v # w => work'[v] = work[v]
  BY <1>2, GoesToEffect
<1>4. /\ once' \in [Processes -> [cache : Phases, register : Phases]]
      /\ \A p \in Processes : once'[p].cache = once[p].cache
  <2>1. CASE UNCHANGED once
    BY <2>1 DEF SharedTypes
  <2>2. CASE \E s \in Phases : Becomes(w, "register", s)
    BY <2>2, BecomesEffect
  <2> QED
    BY <2>1, <2>2 DEF StartRegister, HasRegister, Construct, SetFlag, WaitFlag, Phases
<1>5. SharedTypes'
  BY <1>1, <1>3, <1>4, <1>t DEF SharedTypes, B, N
<1>6. /\ at \in Constructs \cup {"waitflag", "lockname"}
      /\ work[w].pc \in Constructs \cup {"register", "waitflag"}
  <2>1. work'[w].pc = at
    BY <1>3
  <2>2. \A q : GoesTo(w, q) => work'[w].pc = q
    BY DEF GoesTo, SharedTypes
  <2> QED
    BY <2>1, <2>2 DEF StartRegister, HasRegister, Construct, SetFlag, WaitFlag, Constructs, Is
<1>7. MakerInv'
  <2>1. at \notin Makes /\ work[w].pc \in HasMemory
    BY <1>6 DEF Makes, Constructs, HasMemory
  <2> QED
    BY <1>3, <1>4, <1>t, <2>1 DEF MakerInv, StandsIn
<1>8. NamesOnce'
  <2>1. CASE Construct(w)
    <3>1. table'.available = 0 /\ \A i \in 1 .. Slots : table'.name[i] = Nobody
      BY <2>1 DEF Construct, SharedTypes
    <3> QED
      BY <3>1 DEF NamesOnce, Full
  <2>2. CASE ~Construct(w)
    <3>1. table'.available = table.available /\ table'.name = table.name /\ table'.lock = table.lock
      BY <2>2 DEF StartRegister, HasRegister, SetFlag, WaitFlag, SharedTypes
    <3> QED
      BY <3>1 DEF NamesOnce, Full
  <2> QED
    BY <2>1, <2>2
<1>9. \A v \in Workers : WorkerSound(v)'
  <2> SUFFICES ASSUME NEW v \in Workers PROVE WorkerSound(v)'
    OBVIOUS
  <2>1. CASE v = w
    BY <1>3, <1>6, <2>1 DEF WorkerSound, StandsIn, Constructs, Holds, Named
  <2>2. CASE v # w /\ Construct(w)
    <3>1. ~StandsIn(v, HasTable)
      BY <2>2 DEF Construct, ConstructorInv, StandsIn, Constructs, Is
    <3> QED
      BY <1>3, <2>2, <3>1 DEF WorkerSound, StandsIn, HasTable, Holds, Named
  <2>3. CASE v # w /\ ~Construct(w)
    <3>1. table'.available = table.available /\ table'.name = table.name /\ table'.lock = table.lock
      BY <2>3 DEF StartRegister, HasRegister, SetFlag, WaitFlag, SharedTypes
    <3> QED
      BY <1>3, <2>3, <3>1, <1>t DEF WorkerSound, StandsIn, Full, NoName
  <2> QED
    BY <2>1, <2>2, <2>3
<1>10. ConstructorInv'
  <2> USE DEF ConstructorInv, StandsIn
  <2>1. CASE StartRegister(w)
    <3>1. /\ table'.made /\ table'.flag = table.flag /\ (at = "construct" => ~table.made)
          /\ at \in {"construct", "waitflag"}
      BY <1>3, <2>1 DEF StartRegister, SharedTypes, GoesTo
    <3>2. \A p \in Processes : once'[p].register = "avail" => once[p].register = "avail"
      <4>1. Becomes(w, "register", "init")
        BY <2>1 DEF StartRegister
      <4> QED
        BY <4>1, BecomesEffect DEF Phases
    <3>3. "construct" \notin HasTable /\ "waitflag" \notin HasTable \cup Constructs
      BY DEF Constructs, HasTable, Holds
    <3>4. \A v \in Workers : work'[v].pc \in Constructs =>
            \/ v = w /\ ~table.made
            \/ v # w /\ work[v].pc \in Constructs
      BY <1>3, <3>1, <3>3
    <3>5. ~table.made => table.flag = 0
      BY DEF SharedTypes
    <3> QED
      BY <1>3, <3>1, <3>2, <3>3, <3>4, <3>5
  <2>2. CASE HasRegister(w)
    <3>1. once[HomeOf(w)].register = "avail" /\ HomeOf(w) \in Processes
      BY <2>2 DEF HasRegister, State, Workers, HomeOf
    <3>2. table' = table /\ once' = once /\ at = "lockname"
      BY <1>3, <2>2 DEF HasRegister, GoesTo, SharedTypes
    <3> QED
      BY <1>3, <3>1, <3>2 DEF Constructs
  <2>3. CASE Construct(w)
    <3>1. /\ table'.made = table.made /\ table'.flag = table.flag /\ once' = once
          /\ at \in Constructs /\ at \notin HasTable /\ work[w].pc \in Constructs
      BY <1>3, <2>3 DEF Construct, SharedTypes, GoesTo, Constructs, Is, HasTable, Holds
    <3> QED
      BY <1>3, <3>1
  <2>4. CASE SetFlag(w)
    <3>1. table'.flag = 1 /\ table'.made = table.made /\ at \notin Constructs /\ work[w].pc \in Constructs
      BY <1>3, <2>4 DEF SetFlag, SharedTypes, GoesTo, Constructs, Is
    <3> QED
      BY <1>3, <3>1
  <2>5. CASE WaitFlag(w)
    <3>1. table' = table /\ table.flag = 1 /\ at \notin Constructs
      BY <1>3, <2>5 DEF WaitFlag, SharedTypes, GoesTo, Constructs
    <3> QED
      BY <1>3, <3>1
  <2> QED
    BY <2>1, <2>2, <2>3, <2>4, <2>5
<1> QED
  BY <1>5, <1>7, <1>8, <1>9, <1>10

(* There is room for a name that is not in the table.                      *)
LEMMA RoomForName ==
  ASSUME SharedTypes, NamesOnce, Full, NEW w \in Workers, NoName(w)
  PROVE  table.available < Slots
<1> USE SharedMemoryConstants
<1> DEFINE S == 1 .. table.available
<1> DEFINE T == Names \ {NameOf(w)}
<1> DEFINE f == [i \in S |-> table.name[i]]
<1>1. table.available \in Nat /\ NameOf(w) \in Names
  BY DEF SharedTypes, Workers, NameOf
<1>2. IsFiniteSet(T) /\ Cardinality(T) = Cardinality(Names) - 1
  BY <1>1, FS_RemoveElement
<1>3. \A i \in S : i \in 1 .. Slots /\ table.name[i] \in T
  BY <1>1 DEF Full, NoName, SharedTypes
<1>4. f \in Injection(S, T)
  <2>1. f \in [S -> T]
    BY <1>3
  <2>2. \A i, j \in S : f[i] = f[j] => i = j
    BY <1>3 DEF NamesOnce, Full
  <2> HIDE DEF S, T, f
  <2> QED
    BY <2>1, <2>2 DEF Injection, IsInjective
<1>5. Cardinality(S) <= Cardinality(T)
  <2> HIDE DEF S, T, f
  <2> QED
    BY <1>2, <1>4, FS_Injection
<1>6. Cardinality(S) = table.available
  BY <1>1, FS_Interval
<1>7. Cardinality(Names) \in Nat
  BY FS_CardinalityType
<1> HIDE DEF S, T, f
<1> QED
  BY <1>1, <1>2, <1>5, <1>6, <1>7

(* A thread that is past the flag goes on to another such place: the makers*)
(* are not concerned.                                                      *)
LEMMA NobodyMakes ==
  ASSUME SharedTypes, MakerInv, ConstructorInv, NEW w \in Workers, UNCHANGED once,
         work[w].pc \in HasTable, work'[w].pc \in HasTable,
         \A v \in Workers : v # w => work'[v] = work[v],
         table'.made = table.made, table'.flag = table.flag,
         memory'.made = memory.made, memory'.ready = memory.ready
  PROVE  MakerInv' /\ ConstructorInv'
<1>1. work'[w].pc \notin Makes \cup Constructs /\ HasTable \subseteq HasMemory
  BY DEF HasTable, HasMemory, Holds, Makes, Constructs
<1>2. MakerInv'
  BY <1>1 DEF MakerInv, StandsIn
<1> QED
  BY <1>1, <1>2 DEF ConstructorInv, StandsIn

LEMMA NameSteps ==
  ASSUME SharedInv, NEW w \in Workers,
         \/ LockTable(w) \/ Search(w) \/ Take(w) \/ WriteName(w) \/ UnlockTable(w) \/ UseMemory(w)
  PROVE  SharedInv'
<1> USE SharedMemoryConstants DEF SharedInv
<1> DEFINE B == BOOLEAN
<1> DEFINE N == [1 .. Slots -> Names \cup {Nobody}]
<1>m. table \in [made : B, flag : {0, 1}, available : Nat, name : N, lock : Workers \cup {Nobody}]
  BY DEF SharedTypes
<1>k. memory \in [made : B, ready : B, lock : Workers \cup {Nobody}, used : SUBSET Nat]
  BY DEF SharedTypes
<1>n. NameOf(w) \in Names /\ w # Nobody
  BY DEF Workers, NameOf
<1>i. work[w].index \in 0 .. Slots
  BY DEF SharedTypes
<1> HIDE DEF B, N
<1>o. once' = once
  BY DEF LockTable, Search, Take, WriteName, UnlockTable, UseMemory
<1>p. /\ {"search", "take", "write", "unlockname", "use", "done", "lockname"} \subseteq HasTable
      /\ HasTable \subseteq Places
  BY DEF HasTable, Holds, Places, HasMemory
<1>u. \A v \in Workers : StandsIn(v, Holds) => table.lock = v
  BY DEF WorkerSound
(* A step that leaves the table's names alone, for whoever is not w.       *)
<1>q. ASSUME NEW v \in Workers, v # w, work'[v] = work[v],
             table'.name = table.name, table'.available = table.available,
             StandsIn(v, Holds) => table'.lock = v, memory.used \subseteq memory'.used
      PROVE  WorkerSound(v)'
  BY <1>q DEF WorkerSound, StandsIn, Full, NoName
<1>1. CASE LockTable(w)
  <2>1. GoesTo(w, "search") /\ work[w].pc = "lockname" /\ table.lock = Nobody /\ memory' = memory
    BY <1>1 DEF LockTable, Is
  <2>2.
        /\ table' \in [made : B, flag : {0, 1}, available : Nat, name : N, lock : Workers \cup {Nobody}]
        /\ table'.name = table.name /\ table'.available = table.available /\ table'.lock = w
        /\ table'.made = table.made /\ table'.flag = table.flag
    BY <1>1, <1>m DEF LockTable
  <2>3. /\ work' \in [Workers -> [pc : Places, index : 0 .. Slots]] /\ work'[w].pc = "search"
        /\ \A v \in Workers : v # w => work'[v] = work[v]
    BY <2>1, <1>p, GoesToEffect
  <2>4. SharedTypes'
    BY <1>o, <2>1, <2>2, <2>3 DEF SharedTypes, B, N
  <2>5. MakerInv' /\ ConstructorInv'
    BY <1>o, <1>p, <2>1, <2>2, <2>3, NobodyMakes
  <2>6. NamesOnce' /\ Full'
    BY <1>n, <2>1, <2>2 DEF NamesOnce, Full
  <2>7. WorkerSound(w)'
    BY <2>2, <2>3, <2>6 DEF WorkerSound, StandsIn, Named
  <2>8. ASSUME NEW v \in Workers, v # w PROVE WorkerSound(v)'
    <3>1. ~StandsIn(v, Holds)
      BY <1>u, <2>1 DEF Workers
    <3> QED
      BY <1>q, <2>1, <2>2, <2>3, <2>8, <3>1
  <2> QED
    BY <2>4, <2>5, <2>6, <2>7, <2>8
<1>2. CASE Search(w)
  <2>1. work[w].pc = "search" /\ UNCHANGED <<memory, table>>
    BY <1>2 DEF Search, Is
  <2>2. WorkerSound(w) /\ Full /\ table.lock = w
    BY <2>1 DEF WorkerSound, StandsIn, Holds
  <2>3. /\ work' \in [Workers -> [pc : Places, index : 0 .. Slots]]
        /\ \A v \in Workers : v # w => work'[v] = work[v]
        /\ \/ work'[w].pc = "take" /\ NoName(w)
           \/ /\ work'[w].pc = "unlockname"
              /\ work'[w].index \in 1 .. Slots /\ table.name[work'[w].index] = NameOf(w)
    <3>1. CASE Known(w) = {}
      <4>1. work' = [work EXCEPT ![w].pc = "take"]
        BY <1>2, <3>1 DEF Search
      <4>2. NoName(w)
        <5>1. ASSUME NEW i \in 1 .. Slots, table.name[i] = NameOf(w) PROVE FALSE
          <6>1. i \in 1 .. table.available
            BY <1>n, <5>1 DEF NamesOnce, SharedTypes
          <6> QED
            BY <3>1, <5>1, <6>1 DEF Known
        <5> QED
          BY <5>1 DEF NoName
      <4> QED
        BY <1>p, <4>1, <4>2 DEF SharedTypes
    <3>2. CASE Known(w) # {}
      <4> DEFINE i == CHOOSE j \in Known(w) : TRUE
      <4>1. i \in Known(w)
        BY <3>2
      <4>2. i \in 1 .. Slots /\ table.name[i] = NameOf(w)
        BY <4>1 DEF Known, SharedTypes
      <4>3. work' = [work EXCEPT ![w] = [pc |-> "unlockname", index |-> i]]
        BY <1>2, <3>2 DEF Search
      <4> HIDE DEF i
      <4> QED
        BY <1>p, <4>2, <4>3 DEF SharedTypes
    <3> QED
      BY <3>1, <3>2
  <2>4. SharedTypes'
    BY <1>o, <2>1, <2>3 DEF SharedTypes
  <2>5. MakerInv' /\ ConstructorInv'
    BY <1>o, <1>p, <2>1, <2>3, NobodyMakes
  <2>6. NamesOnce' /\ Full'
    BY <2>1, <2>2 DEF NamesOnce, Full
  <2>7. WorkerSound(w)'
    BY <2>1, <2>2, <2>3, <2>6 DEF WorkerSound, StandsIn, Named, Holds, NoName
  <2>8. ASSUME NEW v \in Workers, v # w PROVE WorkerSound(v)'
    BY <1>q, <1>u, <2>1, <2>3, <2>8
  <2> QED
    BY <2>4, <2>5, <2>6, <2>7, <2>8
<1>3. CASE Take(w)
  <2>1. work[w].pc = "take" /\ UNCHANGED memory
    BY <1>3 DEF Take, Is
  <2>2. WorkerSound(w) /\ Full /\ table.lock = w /\ NoName(w) /\ table.available \in Nat
    BY <2>1 DEF WorkerSound, StandsIn, Holds, SharedTypes
  <2>3. table.available < Slots
    BY <2>2, RoomForName
  <2>4. /\ work' \in [Workers -> [pc : Places, index : 0 .. Slots]]
        /\ \A v \in Workers : v # w => work'[v] = work[v]
        /\ work'[w].pc = "write" /\ work'[w].index = table.available + 1
    <3>1. work' = [work EXCEPT ![w] = [pc |-> "write", index |-> table.available + 1]]
      BY <1>3, <2>3 DEF Take
    <3> QED
      BY <1>p, <2>2, <2>3, <3>1 DEF SharedTypes
  <2>5.
        /\ table' \in [made : B, flag : {0, 1}, available : Nat, name : N, lock : Workers \cup {Nobody}]
        /\ table'.name = table.name /\ table'.available = table.available + 1 /\ table'.lock = w
        /\ table'.made = table.made /\ table'.flag = table.flag
    BY <1>3, <1>m, <2>2 DEF Take
  <2>6. SharedTypes'
    BY <1>o, <2>1, <2>4, <2>5 DEF SharedTypes, B, N
  <2>7. MakerInv' /\ ConstructorInv'
    BY <1>o, <1>p, <2>1, <2>4, <2>5, NobodyMakes
  <2>8. NamesOnce'
    BY <1>n, <2>2, <2>5 DEF NamesOnce
  <2>9. WorkerSound(w)'
    <3>1. table.name[table.available + 1] = Nobody
      BY <2>2, <2>3 DEF NamesOnce
    <3>2. \A i \in 1 .. table.available : table.name[i] # Nobody
      BY <2>2 DEF Full
    <3>3. NoName(w)'
      BY <2>2, <2>5 DEF NoName
    <3>4. work'[w].index - 1 = table.available /\ work'[w].index \in 1 .. Slots
      BY <2>2, <2>3, <2>4
    <3> QED
      BY <2>4, <2>5, <3>1, <3>2, <3>3, <3>4 DEF WorkerSound, StandsIn, Named, Holds
  <2>10. ASSUME NEW v \in Workers, v # w PROVE WorkerSound(v)'
    <3>1. ~StandsIn(v, Holds)
      BY <1>u, <2>2, <2>10
    <3> QED
      BY <2>1, <2>4, <2>5, <2>10, <3>1 DEF WorkerSound, StandsIn, Holds, Named
  <2> QED
    BY <2>6, <2>7, <2>8, <2>9, <2>10
<1>4. CASE WriteName(w)
  <2>1. work[w].pc = "write" /\ GoesTo(w, "unlockname") /\ UNCHANGED memory
    BY <1>4 DEF WriteName, Is
  <2>2. /\ table.lock = w /\ NoName(w) /\ table.available \in Nat
        /\ work[w].index \in 1 .. Slots /\ work[w].index = table.available
        /\ \A i \in 1 .. table.available - 1 : table.name[i] # Nobody
    BY <2>1 DEF WorkerSound, StandsIn, Holds, SharedTypes
  <2>3. /\ work' \in [Workers -> [pc : Places, index : 0 .. Slots]] /\ work'[w].pc = "unlockname"
        /\ work'[w].index = work[w].index
        /\ \A v \in Workers : v # w => work'[v] = work[v]
    BY <2>1, <1>p, GoesToEffect
  <2>4. /\ table'.available = table.available /\ table'.lock = w
        /\ table'.made = table.made /\ table'.flag = table.flag
        /\ table'.name = [table.name EXCEPT ![table.available] = NameOf(w)]
       
        /\ table' \in [made : B, flag : {0, 1}, available : Nat, name : N, lock : Workers \cup {Nobody}]
    <3> DEFINE new == [table.name EXCEPT ![table.available] = NameOf(w)]
    <3>1. table' = [table EXCEPT !.name = new]
      BY <1>4, <2>2 DEF WriteName
    <3>2. new \in N
      BY <1>m, <1>n, <2>2 DEF N
    <3> HIDE DEF new
    <3>3. table' \in [made : B, flag : {0, 1}, available : Nat, name : N, lock : Workers \cup {Nobody}]
          /\ table'.available = table.available /\ table'.lock = w
          /\ table'.made = table.made /\ table'.flag = table.flag /\ table'.name = new
      BY <1>m, <2>2, <3>1, <3>2
    <3> QED
      BY <3>3 DEF new
  <2>5. /\ table'.name[table.available] = NameOf(w)
        /\ \A i \in 1 .. Slots : i # table.available => table'.name[i] = table.name[i]
    BY <1>m, <2>2, <2>4 DEF N
  <2>6. SharedTypes'
    BY <1>o, <2>1, <2>3, <2>4 DEF SharedTypes, B, N
  <2>7. MakerInv' /\ ConstructorInv'
    BY <1>o, <1>p, <2>1, <2>3, <2>4, NobodyMakes
  <2>8. NamesOnce' /\ Full'
    BY <1>n, <2>2, <2>4, <2>5 DEF NamesOnce, Full, NoName
  <2>9. WorkerSound(w)'
    BY <2>2, <2>3, <2>4, <2>5, <2>8 DEF WorkerSound, StandsIn, Named, Holds
  <2>10. ASSUME NEW v \in Workers, v # w PROVE WorkerSound(v)'
    <3>1. ~StandsIn(v, Holds)
      BY <1>u, <2>2, <2>10
    <3>2. StandsIn(v, Named) => table'.name[work[v].index] = table.name[work[v].index]
      <4>1. ASSUME StandsIn(v, Named), work[v].index = table.available PROVE FALSE
        <5>1. table.name[table.available] = NameOf(v) /\ NameOf(v) \in Names
          BY <4>1 DEF WorkerSound, Workers, NameOf
        <5> QED
          BY <2>1, <5>1 DEF WorkerSound, StandsIn
      <4> QED
        BY <2>5, <4>1 DEF WorkerSound
    <3> QED
      BY <2>1, <2>3, <2>4, <2>10, <3>1, <3>2 DEF WorkerSound, StandsIn, Holds, Named
  <2> QED
    BY <2>6, <2>7, <2>8, <2>9, <2>10
<1>5. CASE UnlockTable(w)
  <2>1. GoesTo(w, "use") /\ work[w].pc = "unlockname" /\ memory' = memory
    BY <1>5 DEF UnlockTable, Is
  <2>2.
        /\ table' \in [made : B, flag : {0, 1}, available : Nat, name : N, lock : Workers \cup {Nobody}]
        /\ table'.name = table.name /\ table'.available = table.available /\ table'.lock = Nobody
        /\ table'.made = table.made /\ table'.flag = table.flag
    BY <1>5, <1>m DEF UnlockTable
  <2>3. /\ work' \in [Workers -> [pc : Places, index : 0 .. Slots]] /\ work'[w].pc = "use"
        /\ work'[w].index = work[w].index
        /\ \A v \in Workers : v # w => work'[v] = work[v]
    BY <2>1, <1>p, GoesToEffect
  <2>4. SharedTypes'
    BY <1>o, <2>1, <2>2, <2>3 DEF SharedTypes, B, N
  <2>5. MakerInv' /\ ConstructorInv'
    BY <1>o, <1>p, <2>1, <2>2, <2>3, NobodyMakes
  <2>6. Full /\ table.lock = w /\ work[w].index \in 1 .. Slots /\ table.name[work[w].index] = NameOf(w)
    BY <2>1 DEF WorkerSound, StandsIn, Holds, Named
  <2>7. NamesOnce'
    BY <2>2, <2>6 DEF NamesOnce, Full
  <2>8. WorkerSound(w)'
    BY <2>2, <2>3, <2>6 DEF WorkerSound, StandsIn, Named, Holds
  <2>9. ASSUME NEW v \in Workers, v # w PROVE WorkerSound(v)'
    <3>1. ~StandsIn(v, Holds)
      BY <1>u, <2>6, <2>9
    <3> QED
      BY <1>q, <2>1, <2>2, <2>3, <2>9, <3>1
  <2> QED
    BY <2>4, <2>5, <2>7, <2>8, <2>9
<1>6. CASE UseMemory(w)
  <2>1. GoesTo(w, "done") /\ work[w].pc = "use" /\ table' = table
    BY <1>6 DEF UseMemory, Is
  <2>2. /\ memory' \in [made : B, ready : B, lock : Workers \cup {Nobody}, used : SUBSET Nat]
        /\ memory'.made = memory.made /\ memory'.ready = memory.ready
        /\ memory'.used = memory.used \cup {work[w].index}
    <3> DEFINE new == memory.used \cup {work[w].index}
    <3>1. new \in SUBSET Nat
      BY <1>k, <1>i
    <3>2. memory' = [memory EXCEPT !.used = new]
      BY <1>6 DEF UseMemory
    <3> HIDE DEF new
    <3>3. /\ memory' \in [made : B, ready : B, lock : Workers \cup {Nobody}, used : SUBSET Nat]
          /\ memory'.made = memory.made /\ memory'.ready = memory.ready /\ memory'.used = new
      BY <1>k, <3>1, <3>2
    <3> QED
      BY <3>3 DEF new
  <2>3. /\ work' \in [Workers -> [pc : Places, index : 0 .. Slots]] /\ work'[w].pc = "done"
        /\ work'[w].index = work[w].index
        /\ \A v \in Workers : v # w => work'[v] = work[v]
    BY <2>1, <1>p, GoesToEffect
  <2>4. SharedTypes'
    BY <1>o, <2>1, <2>2, <2>3 DEF SharedTypes, B
  <2>5. MakerInv' /\ ConstructorInv'
    BY <1>o, <1>p, <2>1, <2>2, <2>3, NobodyMakes
  <2>6. NamesOnce'
    BY <2>1 DEF NamesOnce, Full
  <2>7. WorkerSound(w)'
    BY <2>1, <2>2, <2>3 DEF WorkerSound, StandsIn, Named, Holds
  <2>8. ASSUME NEW v \in Workers, v # w PROVE WorkerSound(v)'
    BY <1>q, <1>u, <2>1, <2>2, <2>3, <2>8
  <2> QED
    BY <2>4, <2>5, <2>6, <2>7, <2>8
<1> QED
  BY <1>1, <1>2, <1>3, <1>4, <1>5, <1>6

LEMMA KillSound ==
  ASSUME SharedInv, NEW p \in Processes, Kill(p)
  PROVE  SharedInv'
<1> USE DEF SharedInv
<1>1. UNCHANGED <<memory, table>>
  BY DEF Kill
<1>2. \A w \in Workers : work'[w] = work[w] \/ work'[w].pc = "cache"
  BY DEF Kill, Fresh
<1>3. \A q \in Processes : \/ once'[q] = once[q]
                           \/ once'[q].cache = "empty" /\ once'[q].register = "empty"
  BY DEF Kill, Unused, SharedTypes
<1>4. SharedTypes'
  <2>1. Unused \in [cache : Phases, register : Phases]
    BY DEF Unused, Phases
  <2>2. Fresh \in [pc : Places, index : 0 .. Slots]
    BY SharedMemoryConstants DEF Fresh, Places
  <2>3. once' \in [Processes -> [cache : Phases, register : Phases]]
    BY <2>1 DEF Kill, SharedTypes
  <2>4. work' \in [Workers -> [pc : Places, index : 0 .. Slots]]
    BY <2>2 DEF Kill, SharedTypes
  <2> QED
    BY <1>1, <2>3, <2>4 DEF SharedTypes
<1>5. "cache" \notin Makes \cup Constructs \cup HasTable \cup HasMemory \cup Holds \cup Named
  BY DEF Makes, Constructs, HasTable, HasMemory, Holds, Named
<1>6. MakerInv' /\ ConstructorInv'
  BY <1>1, <1>2, <1>3, <1>5 DEF MakerInv, ConstructorInv, StandsIn
<1>7. NamesOnce'
  BY <1>1 DEF NamesOnce, Full
<1>8. ASSUME NEW w \in Workers PROVE WorkerSound(w)'
  BY <1>1, <1>2, <1>5 DEF WorkerSound, StandsIn, Full, NoName
<1> QED
  BY <1>4, <1>6, <1>7, <1>8

(* For any processes and names, and any that are killed: the cache and the *)
(* register are initialised once, before the first thread has its index,   *)
(* and every file has one index, under which its blocks are kept.          *)
THEOREM MemoryIsKept == SharedSpec => []SharedMemoryKept
<1>1. SharedInit => SharedInv
  BY SharedInitSound
<1>2. SharedInv /\ [SharedNext]_sharedVars => SharedInv'
  <2> SUFFICES ASSUME SharedInv, [SharedNext]_sharedVars PROVE SharedInv'
    OBVIOUS
  <2>1. ASSUME NEW w \in Workers, SharedStep(w) PROVE SharedInv'
    BY <2>1, MakerSteps, ConstructorSteps, NameSteps DEF SharedStep
  <2>2. ASSUME NEW p \in Processes, Kill(p) PROVE SharedInv'
    BY <2>2, KillSound
  <2>3. CASE UNCHANGED sharedVars
    BY <2>3
       DEF sharedVars, SharedInv, SharedTypes, MakerInv, ConstructorInv, NamesOnce, WorkerSound,
                StandsIn, Full, NoName
  <2> QED
    BY <2>1, <2>2, <2>3 DEF SharedNext
<1>3. SharedInv => SharedMemoryKept
  <2> SUFFICES ASSUME SharedInv PROVE SharedMemoryKept
    OBVIOUS
  <2>1. ASSUME NEW w \in Workers, Is(w, "use") \/ Is(w, "done")
        PROVE  /\ work[w].index \in 1 .. Slots /\ table.name[work[w].index] = NameOf(w)
               /\ NameOf(w) # Nobody /\ (Is(w, "done") => work[w].index \in memory.used)
    BY <2>1, SharedMemoryConstants DEF SharedInv, WorkerSound, StandsIn, Named, Is, Workers, NameOf
  <2>2. ASSUME NEW w \in Workers, NEW v \in Workers,
               Is(w, "use") \/ Is(w, "done"), Is(v, "use") \/ Is(v, "done")
        PROVE  work[w].index = work[v].index <=> NameOf(w) = NameOf(v)
    BY <2>1, <2>2 DEF SharedInv, NamesOnce
  <2> QED
    BY <2>1, <2>2 DEF SharedMemoryKept
<1> QED
  BY <1>1, <1>2, <1>3, PTL DEF SharedSpec

-------------------------------------------------------------------------------
(* UrlFiles: whoever makes or destroys the handles has the flag and saw no *)
(* readers, and nobody becomes one before the flag is free again; and a    *)
(* download has every byte of its block that came so far.                  *)

UrlPlaces ==
  {"out", "try", "decide", "make", "enter", "ready", "header", "count", "block", "leave",
   "tryend", "decideend", "destroy", "ended"}
Downloads ==
  [pc : UrlPlaces, for : {"size", "blocks"}, size : 0 .. UrlSize, handle : Handles \cup {NoHandle},
   start : Nat, end : Int, current : 0 .. UrlSize, got : Seq(Int), answer : {"none", "data", "next"}]

CurlTypes ==
  [started : BOOLEAN, free : SUBSET Handles, flag : UrlUsers \cup {NoUser}, readers : SUBSET UrlUsers]

UrlTypes ==
  /\ onStart \in BOOLEAN /\ curl \in CurlTypes
  /\ user \in [UrlUsers -> Downloads]

StandsAt(u, S) == user[u].pc \in S

UserSound(u) ==
  /\ Busy(u) => StandsAt(u, {"header", "count", "block"})
  /\ StandsAt(u, {"decide", "make", "decideend", "destroy"}) => curl.flag = u
  /\ StandsAt(u, {"make", "destroy"}) => curl.readers = {}
  /\ StandsAt(u, {"ready", "header", "count", "block", "leave"}) /\ ~onStart => u \in curl.readers
  /\ StandsAt(u, {"tryend", "decideend", "destroy", "ended"}) => ~onStart

HandlesInv ==
  /\ \A u, v \in UrlUsers : Busy(u) /\ user[u].handle = user[v].handle => u = v
  /\ \A u \in UrlUsers : Busy(u) => user[u].handle \notin curl.free /\ curl.started
  /\ \A h \in Handles : curl.started => h \in curl.free \/ \E u \in UrlUsers : user[u].handle = h
  /\ ~curl.started => curl.free = {}

(* The bytes of the block among the first that came.                       *)
Arrived(current, from, to) ==
  IF current <= from THEN 0 ELSE IF current <= to THEN current - from ELSE to + 1 - from

DownloadInv(u) ==
  /\ user[u].for = "blocks" => user[u].size > 0
  /\ StandsAt(u, {"header", "count"}) => user[u].for = "size"
  /\ StandsAt(u, {"block"}) \/ user[u].answer # "none" => user[u].for = "blocks"
  /\ user[u].answer = "data" => user[u].current = UrlSize
  /\ StandsAt(u, {"block"}) \/ user[u].answer = "data" =>
       /\ user[u].start < user[u].size /\ user[u].end = LastByte(u, user[u].start)
       /\ Len(user[u].got) = Arrived(user[u].current, user[u].start, user[u].end)
       /\ \A i \in 1 .. Len(user[u].got) : user[u].got[i] = user[u].start + i - 1

UrlInv ==
  /\ UrlTypes /\ HandlesInv
  /\ \A u \in UrlUsers : UserSound(u) /\ DownloadInv(u)

LEMMA UrlInitSound == UrlInit => UrlInv
<1> SUFFICES ASSUME UrlInit PROVE UrlInv
  OBVIOUS
<1> USE UrlConstants
<1>1. Away \in Downloads
  BY DEF Away, Downloads, UrlPlaces
<1>2. UrlTypes
  BY <1>1 DEF UrlInit, UrlTypes, CurlTypes
<1>3. \A u \in UrlUsers : user[u] = Away /\ ~Busy(u)
  BY DEF UrlInit, Busy, Away
<1>4. HandlesInv
  BY <1>3 DEF UrlInit, HandlesInv
<1>5. ASSUME NEW u \in UrlUsers PROVE UserSound(u) /\ DownloadInv(u)
  BY <1>3 DEF UserSound, DownloadInv, StandsAt, Away
<1> QED
  BY <1>2, <1>4, <1>5 DEF UrlInv

LEMMA MovesEffect ==
  ASSUME UrlTypes, NEW u \in UrlUsers, NEW at \in UrlPlaces, Moves(u, at)
  PROVE  /\ user' \in [UrlUsers -> Downloads] /\ user'[u] = [user[u] EXCEPT !.pc = at]
         /\ \A v \in UrlUsers : v # u => user'[v] = user[v]
<1>1. user[u] \in Downloads
  BY DEF UrlTypes
<1>2. [user[u] EXCEPT !.pc = at] \in Downloads
  BY <1>1 DEF Downloads
<1> QED
  BY <1>2 DEF Moves, UrlTypes

(* A step of u, for another one.                                           *)
LEMMA OtherUsers ==
  ASSUME UrlInv, NEW u \in UrlUsers, NEW v \in UrlUsers, user'[v] = user[v], UNCHANGED onStart,
         curl.flag = v => curl'.flag = v /\ (curl.readers = {} => curl'.readers = {}),
         v \in curl.readers => v \in curl'.readers
  PROVE  UserSound(v)' /\ DownloadInv(v)'
<1>1. UserSound(v)'
  BY DEF UrlInv, UserSound, StandsAt, Busy
<1>2. DownloadInv(v)'
  BY DEF UrlInv, DownloadInv, StandsAt, LastByte, BlkSizeOf, FileSizeOf
<1> QED
  BY <1>1, <1>2

(* Only its place changes, and not to where it downloads.                  *)
LEMMA SameDownload ==
  ASSUME UrlInv, NEW u \in UrlUsers, NEW at \in UrlPlaces,
         at \notin {"header", "count", "block"}, user'[u] = [user[u] EXCEPT !.pc = at]
  PROVE  DownloadInv(u)' /\ Busy(u)' = Busy(u) /\ user'[u].pc = at /\ user'[u].handle = user[u].handle
<1>1. user[u] \in Downloads /\ DownloadInv(u)
  BY DEF UrlInv, UrlTypes
<1>2. /\ user'[u].pc = at /\ user'[u].for = user[u].for /\ user'[u].size = user[u].size
      /\ user'[u].handle = user[u].handle /\ user'[u].start = user[u].start
      /\ user'[u].end = user[u].end /\ user'[u].current = user[u].current
      /\ user'[u].got = user[u].got /\ user'[u].answer = user[u].answer
  BY <1>1 DEF Downloads
<1> QED
  BY <1>1, <1>2 DEF DownloadInv, StandsAt, LastByte, BlkSizeOf, FileSizeOf, Arrived, Busy

(* A user that neither had nor has a handle.                               *)
LEMMA SameHandles ==
  ASSUME UrlInv, NEW u \in UrlUsers, ~Busy(u), ~Busy(u)',
         \A v \in UrlUsers : v # u => user'[v] = user[v],
         curl'.free = curl.free, curl'.started = curl.started
  PROVE  HandlesInv'
BY UrlConstants DEF UrlInv, HandlesInv, Busy

(* The flag of _initLock, its readers, and the handles.                    *)
SetFlagTo(g) == [curl EXCEPT !.flag = g]
SetReaders(r) == [curl EXCEPT !.readers = r]
SetFree(f) == [curl EXCEPT !.free = f]
SetAll(s, g, f) == [curl EXCEPT !.started = s, !.flag = g, !.free = f]

LEMMA FlagEffect ==
  ASSUME UrlTypes, NEW g \in UrlUsers \cup {NoUser}
  PROVE  /\ SetFlagTo(g) \in CurlTypes
         /\ SetFlagTo(g).started = curl.started
         /\ SetFlagTo(g).free = curl.free
         /\ SetFlagTo(g).flag = g
         /\ SetFlagTo(g).readers = curl.readers
<1> DEFINE B == BOOLEAN
<1>1. curl \in [started : B, free : SUBSET Handles, flag : UrlUsers \cup {NoUser},
                readers : SUBSET UrlUsers]
  BY DEF UrlTypes, CurlTypes
<1> HIDE DEF B
<1>3. /\ SetFlagTo(g) \in [started : B, free : SUBSET Handles, flag : UrlUsers \cup {NoUser},
                readers : SUBSET UrlUsers]
         /\ SetFlagTo(g).started = curl.started
         /\ SetFlagTo(g).free = curl.free
         /\ SetFlagTo(g).flag = g
         /\ SetFlagTo(g).readers = curl.readers
  BY <1>1 DEF SetFlagTo
<1> QED
  BY <1>3 DEF B, CurlTypes

LEMMA ReadersEffect ==
  ASSUME UrlTypes, NEW r \in SUBSET UrlUsers
  PROVE  /\ SetReaders(r) \in CurlTypes
         /\ SetReaders(r).started = curl.started
         /\ SetReaders(r).free = curl.free
         /\ SetReaders(r).flag = curl.flag
         /\ SetReaders(r).readers = r
<1> DEFINE B == BOOLEAN
<1>1. curl \in [started : B, free : SUBSET Handles, flag : UrlUsers \cup {NoUser},
                readers : SUBSET UrlUsers]
  BY DEF UrlTypes, CurlTypes
<1> HIDE DEF B
<1>3. /\ SetReaders(r) \in [started : B, free : SUBSET Handles, flag : UrlUsers \cup {NoUser},
                readers : SUBSET UrlUsers]
         /\ SetReaders(r).started = curl.started
         /\ SetReaders(r).free = curl.free
         /\ SetReaders(r).flag = curl.flag
         /\ SetReaders(r).readers = r
  BY <1>1 DEF SetReaders
<1> QED
  BY <1>3 DEF B, CurlTypes

LEMMA FreeEffect ==
  ASSUME UrlTypes, NEW f \in SUBSET Handles
  PROVE  /\ SetFree(f) \in CurlTypes
         /\ SetFree(f).started = curl.started
         /\ SetFree(f).free = f
         /\ SetFree(f).flag = curl.flag
         /\ SetFree(f).readers = curl.readers
<1> DEFINE B == BOOLEAN
<1>1. curl \in [started : B, free : SUBSET Handles, flag : UrlUsers \cup {NoUser},
                readers : SUBSET UrlUsers]
  BY DEF UrlTypes, CurlTypes
<1> HIDE DEF B
<1>3. /\ SetFree(f) \in [started : B, free : SUBSET Handles, flag : UrlUsers \cup {NoUser},
                readers : SUBSET UrlUsers]
         /\ SetFree(f).started = curl.started
         /\ SetFree(f).free = f
         /\ SetFree(f).flag = curl.flag
         /\ SetFree(f).readers = curl.readers
  BY <1>1 DEF SetFree
<1> QED
  BY <1>3 DEF B, CurlTypes

LEMMA AllEffect ==
  ASSUME UrlTypes, NEW s \in BOOLEAN, NEW f \in SUBSET Handles
  PROVE  /\ SetAll(s, NoUser, f) \in CurlTypes
         /\ SetAll(s, NoUser, f).started = s
         /\ SetAll(s, NoUser, f).free = f
         /\ SetAll(s, NoUser, f).flag = NoUser
         /\ SetAll(s, NoUser, f).readers = curl.readers
<1> DEFINE B == BOOLEAN
<1>1. curl \in [started : B, free : SUBSET Handles, flag : UrlUsers \cup {NoUser},
                readers : SUBSET UrlUsers]
  BY DEF UrlTypes, CurlTypes
<1>2. s \in B
  OBVIOUS
<1> HIDE DEF B
<1>3.
      /\ SetAll(s, NoUser, f) \in [started : B, free : SUBSET Handles, flag : UrlUsers \cup {NoUser},
                readers : SUBSET UrlUsers]
         /\ SetAll(s, NoUser, f).started = s
         /\ SetAll(s, NoUser, f).free = f
         /\ SetAll(s, NoUser, f).flag = NoUser
         /\ SetAll(s, NoUser, f).readers = curl.readers
  BY <1>1, <1>2 DEF SetAll
<1> QED
  BY <1>3 DEF B, CurlTypes

(* A user without a handle goes on to another place, or ends.              *)
LEMMA StepKeeps ==
  ASSUME UrlInv, NEW u \in UrlUsers, UNCHANGED onStart, curl' \in CurlTypes,
         ~Busy(u), ~Busy(u)', user' \in [UrlUsers -> Downloads], DownloadInv(u)', UserSound(u)',
         \A v \in UrlUsers : v # u => user'[v] = user[v],
         HandlesInv',
         curl.flag \in UrlUsers \ {u} => /\ curl'.flag = curl.flag
                                         /\ (curl.readers = {} => curl'.readers = {}),
         curl.readers \ {u} \subseteq curl'.readers
  PROVE  UrlInv'
<1>1. UrlTypes'
  BY DEF UrlInv, UrlTypes
<1>2. ASSUME NEW v \in UrlUsers, v # u PROVE UserSound(v)' /\ DownloadInv(v)'
  BY <1>2, OtherUsers
<1> QED
  BY <1>1, <1>2 DEF UrlInv

LEMMA MoveKeeps ==
  ASSUME UrlInv, NEW u \in UrlUsers, NEW at \in UrlPlaces \ {"header", "count", "block"},
         Moves(u, at), UNCHANGED onStart, ~Busy(u), curl' \in CurlTypes,
         curl'.free = curl.free, curl'.started = curl.started,
         curl.flag \in UrlUsers \ {u} => /\ curl'.flag = curl.flag
                                         /\ (curl.readers = {} => curl'.readers = {}),
         curl.readers \ {u} \subseteq curl'.readers,
         at \in {"decide", "make", "decideend", "destroy"} => curl'.flag = u,
         at \in {"make", "destroy"} => curl'.readers = {},
         at \in {"ready", "leave"} /\ ~onStart => u \in curl'.readers,
         at \in {"tryend", "decideend", "destroy", "ended"} => ~onStart
  PROVE  UrlInv'
<1>1. /\ user' \in [UrlUsers -> Downloads] /\ user'[u] = [user[u] EXCEPT !.pc = at]
      /\ \A v \in UrlUsers : v # u => user'[v] = user[v]
  BY MovesEffect DEF UrlInv
<1>2. DownloadInv(u)' /\ ~Busy(u)' /\ user'[u].pc = at
  BY <1>1, SameDownload DEF Busy
<1>3. HandlesInv'
  BY <1>1, <1>2, SameHandles
<1>4. UserSound(u)'
  BY <1>2 DEF UserSound, StandsAt
<1> QED
  BY <1>1, <1>2, <1>3, <1>4, StepKeeps

(* Where nobody has a handle.                                              *)
LEMMA NotBusy ==
  ASSUME UrlInv, NEW u \in UrlUsers, ~StandsAt(u, {"header", "count", "block"})
  PROVE  ~Busy(u)
BY DEF UrlInv, UserSound

LEMMA ReadersFree ==
  ASSUME UrlInv, ~onStart, curl.readers = {}, NEW u \in UrlUsers
  PROVE  ~Busy(u)
BY DEF UrlInv, UserSound, StandsAt

(* Nobody makes the handles anew while they are used.                      *)
LEMMA LockSteps ==
  ASSUME UrlInv, NEW u \in UrlUsers,
         NewDownload(u) \/ TryFails(u, "try", Started) \/ TrySets(u, "try", "decide")
         \/ Decide(u, "decide", "make", Started) \/ EnterReader(u) \/ CloseUrl(u)
         \/ TrySets(u, "tryend", "decideend") \/ TryFails(u, "tryend", "ended")
         \/ Decide(u, "decideend", "destroy", "ended")
  PROVE  UrlInv'
<1> USE UrlConstants
<1>t. UrlTypes /\ curl \in CurlTypes /\ curl.flag \in UrlUsers \cup {NoUser} /\ curl.readers \in SUBSET UrlUsers
  BY DEF UrlInv, UrlTypes, CurlTypes
<1>s. UserSound(u) /\ DownloadInv(u)
  BY DEF UrlInv
<1>p. \A at \in {"try", "ready", "enter", "decide", "make", "leave", "decideend", "ended", "destroy"} :
        at \in UrlPlaces \ {"header", "count", "block"}
  BY DEF UrlPlaces
<1>1. Started \in {"ready", "enter"} /\ (Started = "ready" => onStart)
  BY DEF Started
<1>b. ~Busy(u)
  BY NotBusy DEF NewDownload, TryFails, TrySets, Decide, EnterReader, CloseUrl, Stands, StandsAt
<1>f. /\ SetFlagTo(u) \in CurlTypes /\ SetFlagTo(u).flag = u /\ SetFlagTo(u).readers = curl.readers
      /\ SetFlagTo(u).free = curl.free /\ SetFlagTo(u).started = curl.started
  BY <1>t, FlagEffect
<1>g. /\ SetFlagTo(NoUser) \in CurlTypes /\ SetFlagTo(NoUser).readers = curl.readers
      /\ SetFlagTo(NoUser).free = curl.free /\ SetFlagTo(NoUser).started = curl.started
  BY <1>t, FlagEffect
<1>2. CASE NewDownload(u)
  BY <1>2, <1>b, <1>p, <1>t, MoveKeeps DEF NewDownload
<1>3. CASE TryFails(u, "try", Started)
  BY <1>1, <1>3, <1>b, <1>p, <1>t, MoveKeeps DEF TryFails
<1>4. CASE TrySets(u, "try", "decide")
  BY <1>4, <1>b, <1>f, <1>p, <1>t, MoveKeeps DEF TrySets, SetFlagTo
<1>5. CASE Decide(u, "decide", "make", Started)
  <2>1. curl.flag = u
    BY <1>5, <1>s DEF Decide, Stands, UserSound, StandsAt
  <2>2. CASE curl.readers = {} /\ Moves(u, "make") /\ UNCHANGED curl
    BY <1>5, <1>b, <1>p, <1>t, <2>1, <2>2, MoveKeeps DEF Decide
  <2>3. CASE Moves(u, Started) /\ curl' = SetFlagTo(NoUser)
    BY <1>1, <1>5, <1>b, <1>g, <1>p, <1>t, <2>1, <2>3, MoveKeeps DEF Decide
  <2> QED
    BY <1>5, <2>2, <2>3 DEF Decide, SetFlagTo
<1>6. CASE EnterReader(u)
  <2>1. curl.flag = NoUser /\ curl' = SetReaders(curl.readers \cup {u}) /\ UNCHANGED onStart
        /\ Moves(u, "ready")
    BY <1>6 DEF EnterReader, SetReaders
  <2>2. /\ curl' \in CurlTypes /\ curl'.free = curl.free /\ curl'.started = curl.started
        /\ curl'.flag = NoUser /\ curl'.readers = curl.readers \cup {u}
    <3>1. curl.readers \cup {u} \in SUBSET UrlUsers
      BY <1>t
    <3> QED
      BY <1>t, <2>1, <3>1, ReadersEffect
  <2> QED
    BY <1>b, <1>p, <2>1, <2>2, MoveKeeps
<1>7. CASE CloseUrl(u)
  <2>1. ~onStart => u \in curl.readers
    BY <1>7, <1>s DEF CloseUrl, Stands, UserSound, StandsAt
  <2> QED
    BY <1>7, <1>b, <1>p, <1>t, <2>1, MoveKeeps DEF CloseUrl
<1>8. CASE TrySets(u, "tryend", "decideend")
  <2>1. ~onStart
    BY <1>8, <1>s DEF TrySets, Stands, UserSound, StandsAt
  <2> QED
    BY <1>8, <1>b, <1>f, <1>p, <1>t, <2>1, MoveKeeps DEF TrySets, SetFlagTo
<1>9. CASE TryFails(u, "tryend", "ended")
  <2>1. ~onStart
    BY <1>9, <1>s DEF TryFails, Stands, UserSound, StandsAt
  <2> QED
    BY <1>9, <1>b, <1>p, <1>t, <2>1, MoveKeeps DEF TryFails
<1>10. CASE Decide(u, "decideend", "destroy", "ended")
  <2>1. curl.flag = u /\ ~onStart
    BY <1>10, <1>s DEF Decide, Stands, UserSound, StandsAt
  <2>2. CASE curl.readers = {} /\ Moves(u, "destroy") /\ UNCHANGED curl
    BY <1>10, <1>b, <1>p, <1>t, <2>1, <2>2, MoveKeeps DEF Decide
  <2>3. CASE Moves(u, "ended") /\ curl' = SetFlagTo(NoUser)
    BY <1>10, <1>b, <1>g, <1>p, <1>t, <2>1, <2>3, MoveKeeps DEF Decide
  <2> QED
    BY <1>10, <2>2, <2>3 DEF Decide, SetFlagTo
<1> QED
  BY <1>2, <1>3, <1>4, <1>5, <1>6, <1>7, <1>8, <1>9, <1>10

(* MakeHandles: with the flag and without readers nobody has a handle, and *)
(* there are none if they are not made yet.                                *)
LEMMA MakeKeeps ==
  ASSUME UrlInv, NEW u \in UrlUsers, MakeHandles(u)
  PROVE  UrlInv'
<1> USE UrlConstants
<1>t. UrlTypes /\ curl \in CurlTypes /\ curl.free \in SUBSET Handles /\ HandlesInv
      /\ UNCHANGED onStart
  BY DEF UrlInv, UrlTypes, CurlTypes, MakeHandles
<1>1. UserSound(u) /\ ~Busy(u) /\ curl.flag = u /\ curl.readers = {}
  BY NotBusy DEF UrlInv, MakeHandles, Stands, UserSound, StandsAt
<1> DEFINE f == IF curl.started \/ curl.free # {} THEN curl.free ELSE Handles
<1>2. curl' = SetAll(TRUE, NoUser, f) /\ f \in SUBSET Handles
  BY <1>t DEF MakeHandles, SetAll
<1>3. /\ curl' \in CurlTypes /\ curl'.started /\ curl'.free = f /\ curl'.flag = NoUser
      /\ curl'.readers = {}
  <2> HIDE DEF f
  <2> QED
    BY <1>1, <1>2, <1>t, AllEffect
<1>4. Moves(u, Started) /\ Started \in UrlPlaces \ {"header", "count", "block"}
      /\ (Started = "ready" => onStart) /\ Started \in {"ready", "enter"}
  BY DEF MakeHandles, Started, UrlPlaces
<1>5. /\ user' \in [UrlUsers -> Downloads] /\ user'[u] = [user[u] EXCEPT !.pc = Started]
      /\ \A v \in UrlUsers : v # u => user'[v] = user[v]
  <2> HIDE DEF f
  <2> QED
    BY <1>4, <1>t, MovesEffect
<1>6. DownloadInv(u)' /\ ~Busy(u)' /\ user'[u].pc = Started
  BY <1>1, <1>4, <1>5, SameDownload DEF Busy
<1>7. HandlesInv'
  <2>1. \A v \in UrlUsers : Busy(v)' <=> Busy(v)
    BY <1>1, <1>5, <1>6 DEF Busy
  <2>2. CASE curl.started
    BY <1>1, <1>3, <1>5, <1>6, <1>t, <2>1, <2>2 DEF HandlesInv, Busy
  <2>3. CASE ~curl.started
    <3>1. f = Handles /\ \A v \in UrlUsers : ~Busy(v)
      BY <1>t, <2>3 DEF HandlesInv
    <3> QED
      BY <1>3, <2>1, <3>1 DEF HandlesInv
  <2> QED
    BY <2>2, <2>3
<1>8. UserSound(u)'
  BY <1>4, <1>6, <1>t DEF UserSound, StandsAt
<1> HIDE DEF f
<1> QED
  BY <1>1, <1>3, <1>5, <1>6, <1>7, <1>8, <1>t, StepKeeps

(* ~UrlDownload: the object is gone, or the one for the blocks begins.     *)
LEMMA EndsEffect ==
  ASSUME UrlInv, NEW u \in UrlUsers, Ends(u), curl' \in CurlTypes
  PROVE  /\ user' \in [UrlUsers -> Downloads] /\ ~Busy(u)' /\ DownloadInv(u)' /\ UserSound(u)'
         /\ \A v \in UrlUsers : v # u => user'[v] = user[v]
<1> USE UrlConstants
<1>1. user[u] \in Downloads /\ user[u].size \in 0 .. UrlSize
  BY DEF UrlInv, UrlTypes, Downloads
<1>2. /\ Ended(u) \in Downloads /\ Ended(u).pc \in {"out", "try"} /\ Ended(u).handle = NoHandle
      /\ Ended(u).answer = "none" /\ (Ended(u).for = "blocks" => Ended(u).size > 0)
  <2>1. /\ Away \in Downloads /\ Away.pc = "out" /\ Away.for = "size" /\ Away.handle = NoHandle
        /\ Away.answer = "none"
    BY DEF Away, Downloads, UrlPlaces
  <2>2. CASE user[u].for = "size" /\ user[u].size > 0
    BY <1>1, <2>1, <2>2 DEF Ended, Downloads, UrlPlaces
  <2>3. CASE ~(user[u].for = "size" /\ user[u].size > 0)
    BY <2>1, <2>3 DEF Ended
  <2> QED
    BY <2>2, <2>3
<1>3. user' \in [UrlUsers -> Downloads] /\ user'[u] = Ended(u)
      /\ \A v \in UrlUsers : v # u => user'[v] = user[v]
  BY <1>2 DEF Ends, UrlInv, UrlTypes
<1> QED
  BY <1>2, <1>3 DEF Busy, DownloadInv, UserSound, StandsAt

LEMMA EndSteps ==
  ASSUME UrlInv, NEW u \in UrlUsers,
         \/ Stands(u, "leave") /\ onStart /\ Ends(u) /\ UNCHANGED <<onStart, curl>>
         \/ /\ Stands(u, "leave") /\ ~onStart /\ Moves(u, "tryend") /\ UNCHANGED onStart
            /\ curl' = [curl EXCEPT !.readers = @ \ {u}]
         \/ Stands(u, "ended") /\ Ends(u) /\ UNCHANGED <<onStart, curl>>
         \/ DestroyHandles(u)
  PROVE  UrlInv'
<1> USE UrlConstants
<1>t. /\ UrlTypes /\ curl \in CurlTypes /\ curl.flag \in UrlUsers \cup {NoUser}
      /\ curl.free \in SUBSET Handles /\ curl.readers \in SUBSET UrlUsers
      /\ UserSound(u) /\ HandlesInv
  BY DEF UrlInv, UrlTypes, CurlTypes
<1>b. ~Busy(u)
  BY NotBusy DEF DestroyHandles, Stands, StandsAt
<1>1. CASE Ends(u) /\ UNCHANGED <<onStart, curl>>
  <2>1. HandlesInv'
    BY <1>1, <1>b, <1>t, EndsEffect, SameHandles
  <2> QED
    BY <1>1, <1>b, <1>t, <2>1, EndsEffect, StepKeeps
<1>2. CASE ~onStart /\ Moves(u, "tryend") /\ UNCHANGED onStart /\ curl' = SetReaders(curl.readers \ {u})
  <2>1. curl.readers \ {u} \in SUBSET UrlUsers
    BY <1>t
  <2>2. /\ curl' \in CurlTypes /\ curl'.free = curl.free /\ curl'.started = curl.started
        /\ curl'.flag = curl.flag /\ curl'.readers = curl.readers \ {u}
    BY <1>2, <1>t, <2>1, ReadersEffect
  <2>3. "tryend" \in UrlPlaces \ {"header", "count", "block"}
    BY DEF UrlPlaces
  <2> QED
    BY <1>2, <1>b, <2>2, <2>3, MoveKeeps
<1>3. CASE DestroyHandles(u)
  <2>1. curl.flag = u /\ curl.readers = {} /\ ~onStart
    BY <1>3, <1>t DEF DestroyHandles, Stands, UserSound, StandsAt
  <2>2. \A v \in UrlUsers : ~Busy(v)
    BY <2>1, ReadersFree
  <2> DEFINE f == IF curl.started THEN {} ELSE curl.free
  <2>3. curl' = SetAll(FALSE, NoUser, f) /\ f \in SUBSET Handles /\ f = {}
    <3>1. curl' = SetAll(FALSE, NoUser, f)
      BY <1>3, <1>t DEF DestroyHandles, SetAll, CurlTypes
    <3> QED
      BY <1>t, <3>1 DEF HandlesInv
  <2>4. /\ curl' \in CurlTypes /\ ~curl'.started /\ curl'.free = {} /\ curl'.flag = NoUser
        /\ curl'.readers = curl.readers
    <3> HIDE DEF f
    <3> QED
      BY <1>t, <2>3, AllEffect
  <2>5. Ends(u) /\ UNCHANGED onStart
    BY <1>3 DEF DestroyHandles
  <2>6. /\ user' \in [UrlUsers -> Downloads] /\ ~Busy(u)' /\ DownloadInv(u)' /\ UserSound(u)'
        /\ \A v \in UrlUsers : v # u => user'[v] = user[v]
    BY <2>4, <2>5, EndsEffect
  <2>7. HandlesInv'
    BY <2>2, <2>4, <2>6 DEF HandlesInv, Busy
  <2> HIDE DEF f
  <2> QED
    BY <1>b, <2>1, <2>4, <2>5, <2>6, <2>7, StepKeeps
<1> QED
  BY <1>1, <1>2, <1>3 DEF SetReaders

-------------------------------------------------------------------------------
(* A download, while it has its handle.                                    *)

(* The user's own record changes, and the handles do not.                  *)
LEMMA OwnRecord ==
  ASSUME UrlInv, NEW u \in UrlUsers, user' \in [UrlUsers -> Downloads], UNCHANGED <<onStart, curl>>,
         \A v \in UrlUsers : v # u => user'[v] = user[v],
         user'[u].handle = user[u].handle, UserSound(u)', DownloadInv(u)'
  PROVE  UrlInv'
<1>1. UrlTypes'
  BY DEF UrlInv, UrlTypes
<1>2. ASSUME NEW v \in UrlUsers, v # u PROVE UserSound(v)' /\ DownloadInv(v)'
  BY <1>2, OtherUsers
<1>3. \A v \in UrlUsers : user'[v].handle = user[v].handle /\ (Busy(v)' <=> Busy(v))
  BY DEF Busy
<1>4. HandlesInv'
  BY <1>3 DEF UrlInv, HandlesInv
<1> QED
  BY <1>1, <1>2, <1>4 DEF UrlInv

LEMMA AskKeeps ==
  ASSUME UrlInv, NEW u \in UrlUsers, Ask(u)
  PROVE  UrlInv'
<1> USE UrlConstants
<1>1. /\ user[u] \in Downloads /\ UserSound(u) /\ DownloadInv(u) /\ user[u].pc = "ready"
      /\ UNCHANGED <<onStart, curl>>
  BY DEF UrlInv, UrlTypes, Ask, Stands
<1>b. ~Busy(u)
  BY <1>1, NotBusy DEF StandsAt
<1>2. CASE user[u].for = "size"
  <2>1. user' = [user EXCEPT ![u] = [user[u] EXCEPT !.pc = "header"]]
    BY <1>2 DEF Ask, UrlInv, UrlTypes
  <2>2. [user[u] EXCEPT !.pc = "header"] \in Downloads
    BY <1>1 DEF Downloads, UrlPlaces
  <2>3. /\ user' \in [UrlUsers -> Downloads] /\ user'[u] = [user[u] EXCEPT !.pc = "header"]
        /\ \A v \in UrlUsers : v # u => user'[v] = user[v]
    BY <2>1, <2>2 DEF UrlInv, UrlTypes
  <2>4. /\ user'[u].pc = "header" /\ user'[u].for = "size" /\ user'[u].handle = NoHandle
        /\ user'[u].answer = user[u].answer
    BY <1>1, <1>2, <1>b, <2>3 DEF Downloads, Busy
  <2>5. user[u].answer = "none"
    BY <1>1, <1>2 DEF DownloadInv
  <2> QED
    BY <1>1, <1>b, <2>3, <2>4, <2>5, OwnRecord DEF UserSound, DownloadInv, StandsAt, Busy
<1>3. CASE user[u].for # "size"
  <2>1. user[u].for = "blocks" /\ user[u].size \in 1 .. UrlSize
    BY <1>1, <1>3 DEF Downloads, DownloadInv
  <2>2. PICK start \in {b * BlkSizeOf(u) : b \in 0 .. UrlSize} :
          /\ start < user[u].size
          /\ user' = [user EXCEPT ![u] =
               [@ EXCEPT !.pc = "block", !.start = start, !.end = LastByte(u, start),
                         !.current = 0, !.got = <<>>, !.answer = "none"]]
    BY <1>3 DEF Ask, FileSizeOf
  <2>3. BlkSizeOf(u) \in Nat /\ BlkSizeOf(u) > 0
    BY <2>1 DEF BlkSizeOf, FileSizeOf
  <2>4. start \in Nat
    <3>1. PICK b \in 0 .. UrlSize : start = b * BlkSizeOf(u)
      BY <2>2
    <3> HIDE DEF BlkSizeOf
    <3> QED
      BY <2>3, <3>1
  <2>5. LastByte(u, start) \in Int
    BY <2>1, <2>3, <2>4 DEF LastByte, FileSizeOf
  <2> DEFINE last == LastByte(u, start)
  <2> DEFINE new == [user[u] EXCEPT !.pc = "block", !.start = start, !.end = last,
                                    !.current = 0, !.got = <<>>, !.answer = "none"]
  <2>6. /\ new \in Downloads /\ new.pc = "block" /\ new.start = start /\ new.end = last
        /\ new.current = 0 /\ new.got = <<>> /\ new.answer = "none" /\ new.for = "blocks"
        /\ new.size = user[u].size /\ new.handle = user[u].handle
    <3>1. last \in Int
      BY <2>5
    <3> DEFINE none == <<>>
    <3>2. none \in Seq(Int)
      OBVIOUS
    <3>3. user[u].got \in Seq(Int) /\ user[u].size \in 0 .. UrlSize /\ "block" \in UrlPlaces
      BY <1>1 DEF Downloads, UrlPlaces
    <3>4. new = [user[u] EXCEPT !.pc = "block", !.start = start, !.end = last,
                                !.current = 0, !.got = none, !.answer = "none"]
      OBVIOUS
    <3> DEFINE S == Seq(Int)
    <3>5. user[u] \in [pc : UrlPlaces, for : {"size", "blocks"}, size : 0 .. UrlSize,
                      handle : Handles \cup {NoHandle}, start : Nat, end : Int,
                      current : 0 .. UrlSize, got : S, answer : {"none", "data", "next"}]
      BY <1>1 DEF Downloads
    <3>6. none \in S
      BY <3>2
    <3> HIDE DEF last, none, new, S
    <3>7. /\ new \in [pc : UrlPlaces, for : {"size", "blocks"}, size : 0 .. UrlSize,
                      handle : Handles \cup {NoHandle}, start : Nat, end : Int,
                      current : 0 .. UrlSize, got : S, answer : {"none", "data", "next"}]
          /\ new.pc = "block" /\ new.start = start /\ new.end = last
          /\ new.current = 0 /\ new.got = none /\ new.answer = "none" /\ new.for = user[u].for
          /\ new.size = user[u].size /\ new.handle = user[u].handle
      <4>1. /\ new.pc = "block" /\ new.start = start /\ new.end = last
            /\ new.current = 0 /\ new.got = none /\ new.answer = "none"
        BY <3>4, <3>5
      <4>2. /\ new.for = user[u].for /\ new.size = user[u].size /\ new.handle = user[u].handle
        BY <3>4, <3>5
      <4>3. 0 \in 0 .. UrlSize
        OBVIOUS
      <4>4. new \in [pc : UrlPlaces, for : {"size", "blocks"}, size : 0 .. UrlSize,
                      handle : Handles \cup {NoHandle}, start : Nat, end : Int,
                      current : 0 .. UrlSize, got : S, answer : {"none", "data", "next"}]
        BY <2>4, <3>1, <3>3, <3>4, <3>5, <3>6, <4>3
      <4> QED
        BY <4>1, <4>2, <4>4
    <3> QED
      BY <2>1, <3>7 DEF Downloads, S, none
  <2>7. /\ user' \in [UrlUsers -> Downloads] /\ user'[u] = new
        /\ \A v \in UrlUsers : v # u => user'[v] = user[v]
    <3>1. user' = [user EXCEPT ![u] = new]
      BY <2>2
    <3> HIDE DEF new
    <3> QED
      BY <2>6, <3>1 DEF UrlInv, UrlTypes
  <2>8. user'[u].end = LastByte(u, user[u].start)'
    <3>1. user'[u].size = user[u].size /\ user'[u].start = start /\ user'[u].end = last
      BY <2>6, <2>7
    <3> QED
      BY <3>1 DEF LastByte, BlkSizeOf, FileSizeOf
  <2> HIDE DEF new, last
  <2>9. Arrived(user'[u].current, user'[u].start, user'[u].end) = 0
    BY <2>4, <2>6, <2>7 DEF Arrived
  <2>10. DownloadInv(u)'
    BY <2>1, <2>2, <2>6, <2>7, <2>8, <2>9 DEF DownloadInv, StandsAt
  <2>11. UserSound(u)'
    BY <1>1, <1>b, <2>6, <2>7 DEF UserSound, StandsAt, Busy
  <2> QED
    BY <1>1, <2>6, <2>7, <2>10, <2>11, OwnRecord
<1> QED
  BY <1>2, <1>3

LEMMA TakeKeeps ==
  ASSUME UrlInv, NEW u \in UrlUsers, TakeHandle(u)
  PROVE  UrlInv'
<1> USE UrlConstants
<1>1. /\ user[u] \in Downloads /\ UserSound(u) /\ DownloadInv(u) /\ ~Busy(u) /\ UrlTypes
      /\ StandsAt(u, {"header", "count", "block"}) /\ HandlesInv /\ UNCHANGED onStart
      /\ curl.free \in SUBSET Handles
  BY DEF UrlInv, UrlTypes, TakeHandle, StandsAt, CurlTypes
<1>2. PICK h \in curl.free : /\ user' = [user EXCEPT ![u].handle = h]
                             /\ curl' = SetFree(curl.free \ {h})
  BY DEF TakeHandle, SetFree
<1>3. /\ curl' \in CurlTypes /\ curl'.started = curl.started /\ curl'.flag = curl.flag
      /\ curl'.readers = curl.readers /\ curl'.free = curl.free \ {h}
  <2>1. curl.free \ {h} \in SUBSET Handles
    BY <1>1
  <2> QED
    BY <1>1, <1>2, <2>1, FreeEffect
<1>4. /\ user' \in [UrlUsers -> Downloads] /\ user'[u] = [user[u] EXCEPT !.handle = h]
      /\ \A v \in UrlUsers : v # u => user'[v] = user[v]
  <2>1. [user[u] EXCEPT !.handle = h] \in Downloads
    BY <1>1, <1>2 DEF Downloads
  <2> QED
    BY <1>2, <2>1 DEF UrlInv, UrlTypes
<1>5. /\ user'[u].pc = user[u].pc /\ user'[u].for = user[u].for /\ user'[u].size = user[u].size
      /\ user'[u].handle = h /\ user'[u].start = user[u].start
      /\ user'[u].end = user[u].end /\ user'[u].current = user[u].current
      /\ user'[u].got = user[u].got /\ user'[u].answer = user[u].answer
  BY <1>1, <1>4 DEF Downloads
<1>6. DownloadInv(u)'
  BY <1>1, <1>5 DEF DownloadInv, StandsAt, LastByte, BlkSizeOf, FileSizeOf, Arrived
<1>7. UserSound(u)'
  BY <1>1, <1>3, <1>5 DEF UserSound, StandsAt
<1>8. curl.started /\ h \in Handles /\ h # NoHandle
  BY <1>1, <1>2 DEF HandlesInv
<1>9. HandlesInv'
  <2>1. \A v \in UrlUsers : v # u => (Busy(v)' <=> Busy(v)) /\ user'[v].handle = user[v].handle
    BY <1>4 DEF Busy
  <2>2. \A v \in UrlUsers : Busy(v) => user[v].handle # h
    BY <1>1, <1>2 DEF HandlesInv
  <2>3. \A v \in UrlUsers : user[v].handle = h => Busy(v)
    BY <1>8 DEF Busy
  <2>4. user[u].handle = NoHandle
    BY <1>1 DEF Busy
  <2> QED
    BY <1>1, <1>3, <1>5, <1>8, <2>1, <2>2, <2>3, <2>4 DEF HandlesInv
<1>10. UrlTypes'
  BY <1>1, <1>3, <1>4 DEF UrlTypes
<1>11. ASSUME NEW v \in UrlUsers, v # u PROVE UserSound(v)' /\ DownloadInv(v)'
  BY <1>1, <1>3, <1>4, <1>11, OtherUsers
<1> QED
  BY <1>6, <1>7, <1>9, <1>10, <1>11 DEF UrlInv

(* A handle that is given back is free again, and nobody else had it.      *)
LEMMA GiveBackKeeps ==
  ASSUME UrlInv, NEW u \in UrlUsers, Busy(u), GivesBack(u), UNCHANGED onStart,
         user' \in [UrlUsers -> Downloads], user'[u].handle = NoHandle,
         \A v \in UrlUsers : v # u => user'[v] = user[v],
         user'[u].pc \in {"ready", "count", "leave"}, DownloadInv(u)'
  PROVE  UrlInv'
<1> USE UrlConstants
<1>1. /\ UserSound(u) /\ UrlTypes /\ HandlesInv /\ curl.free \in SUBSET Handles
      /\ user[u].handle \in Handles
  BY DEF UrlInv, UrlTypes, CurlTypes, Busy, Downloads
<1> DEFINE h == user[u].handle
<1>2. /\ curl' \in CurlTypes /\ curl'.started = curl.started /\ curl'.flag = curl.flag
      /\ curl'.readers = curl.readers /\ curl'.free = curl.free \cup {h}
  <2>1. curl.free \cup {h} \in SUBSET Handles /\ curl' = SetFree(curl.free \cup {h})
    BY <1>1 DEF GivesBack, SetFree
  <2> HIDE DEF h
  <2> QED
    BY <1>1, <2>1, FreeEffect
<1>3. ~Busy(u)'
  BY DEF Busy
<1>4. UserSound(u)'
  <2>1. ~onStart => u \in curl.readers
    BY <1>1 DEF UserSound, StandsAt
  <2> QED
    BY <1>2, <1>3, <2>1 DEF UserSound, StandsAt
<1>5. HandlesInv'
  <2>1. \A v \in UrlUsers : v # u => (Busy(v)' <=> Busy(v)) /\ user'[v].handle = user[v].handle
    BY DEF Busy
  <2>2. \A v \in UrlUsers : Busy(v) /\ v # u => user[v].handle # h
    BY <1>1 DEF HandlesInv
  <2>3. curl.started
    BY <1>1 DEF HandlesInv
  <2>4. \A v, w \in UrlUsers : Busy(v)' /\ user'[v].handle = user'[w].handle => v = w
    BY <1>1, <1>3, <2>1 DEF HandlesInv, Busy
  <2>5. \A v \in UrlUsers : Busy(v)' => user'[v].handle \notin curl'.free /\ curl'.started
    BY <1>1, <1>2, <1>3, <2>1, <2>2, <2>3 DEF HandlesInv
  <2>6. \A x \in Handles : x \in curl'.free \/ \E v \in UrlUsers : user'[v].handle = x
    <3> SUFFICES ASSUME NEW x \in Handles, x \notin curl'.free
                 PROVE  \E v \in UrlUsers : user'[v].handle = x
      OBVIOUS
    <3>1. PICK v \in UrlUsers : user[v].handle = x
      BY <1>1, <1>2, <2>3 DEF HandlesInv
    <3>2. v # u
      BY <1>2, <3>1
    <3> QED
      BY <2>1, <3>1, <3>2
  <2> QED
    BY <1>2, <2>3, <2>4, <2>5, <2>6 DEF HandlesInv
<1>6. UrlTypes'
  BY <1>1, <1>2 DEF UrlTypes
<1>7. ASSUME NEW v \in UrlUsers, v # u PROVE UserSound(v)' /\ DownloadInv(v)'
  BY <1>2, <1>7, OtherUsers
<1> QED
  BY <1>4, <1>5, <1>6, <1>7 DEF UrlInv

LEMMA SizeSteps ==
  ASSUME UrlInv, NEW u \in UrlUsers, Header(u) \/ Count(u)
  PROVE  UrlInv'
<1> USE UrlConstants
<1>1. /\ user[u] \in Downloads /\ DownloadInv(u) /\ Busy(u) /\ GivesBack(u) /\ UNCHANGED onStart
      /\ user[u].pc \in {"header", "count"} /\ user \in [UrlUsers -> Downloads]
  BY DEF UrlInv, UrlTypes, Header, Count, Stands
<1>2. user[u].for = "size" /\ user[u].answer = "none"
  BY <1>1 DEF DownloadInv, StandsAt
<1>3. CASE Header(u)
  <2>1. PICK at \in {"count", "leave"} : user' = [user EXCEPT ![u].pc = at, ![u].handle = NoHandle]
    BY <1>3 DEF Header
  <2>2. [user[u] EXCEPT !.pc = at, !.handle = NoHandle] \in Downloads
    BY <1>1 DEF Downloads, UrlPlaces
  <2>3. /\ user' \in [UrlUsers -> Downloads]
        /\ user'[u] = [user[u] EXCEPT !.pc = at, !.handle = NoHandle]
        /\ \A v \in UrlUsers : v # u => user'[v] = user[v]
    BY <1>1, <2>1, <2>2
  <2>4. /\ user'[u].pc = at /\ user'[u].handle = NoHandle /\ user'[u].for = "size"
        /\ user'[u].answer = "none"
    BY <1>1, <1>2, <2>3 DEF Downloads
  <2>5. DownloadInv(u)'
    BY <2>4 DEF DownloadInv, StandsAt
  <2> QED
    BY <1>1, <2>3, <2>4, <2>5, GiveBackKeeps
<1>4. CASE Count(u)
  <2>1. PICK n \in 1 .. UrlSize :
          user' = [user EXCEPT ![u].pc = "leave", ![u].handle = NoHandle, ![u].size = n]
    BY <1>4 DEF Count
  <2>2. [user[u] EXCEPT !.pc = "leave", !.handle = NoHandle, !.size = n] \in Downloads
    <3>1. n \in 0 .. UrlSize /\ "leave" \in UrlPlaces
      BY DEF UrlPlaces
    <3> QED
      BY <1>1, <3>1 DEF Downloads
  <2>3. /\ user' \in [UrlUsers -> Downloads]
        /\ user'[u] = [user[u] EXCEPT !.pc = "leave", !.handle = NoHandle, !.size = n]
        /\ \A v \in UrlUsers : v # u => user'[v] = user[v]
    BY <1>1, <2>1, <2>2
  <2>4. /\ user'[u].pc = "leave" /\ user'[u].handle = NoHandle /\ user'[u].for = "size"
        /\ user'[u].answer = "none"
    BY <1>1, <1>2, <2>3 DEF Downloads
  <2>5. DownloadInv(u)'
    BY <2>4 DEF DownloadInv, StandsAt
  <2> QED
    BY <1>1, <2>3, <2>4, <2>5, GiveBackKeeps
<1> QED
  BY <1>3, <1>4

LEMMA FinishKeeps ==
  ASSUME UrlInv, NEW u \in UrlUsers, Finish(u)
  PROVE  UrlInv'
<1> USE UrlConstants
<1>1. /\ user[u] \in Downloads /\ DownloadInv(u) /\ Busy(u) /\ GivesBack(u) /\ UNCHANGED onStart
      /\ user[u].pc = "block" /\ user \in [UrlUsers -> Downloads]
  BY DEF UrlInv, UrlTypes, Finish, Stands
<1>2. PICK answer \in {"data", "next"} :
        /\ answer = "data" => user[u].current = UrlSize
        /\ user' = [user EXCEPT ![u].pc = "ready", ![u].handle = NoHandle, ![u].answer = answer]
  BY DEF Finish
<1>3. [user[u] EXCEPT !.pc = "ready", !.handle = NoHandle, !.answer = answer] \in Downloads
  BY <1>1 DEF Downloads, UrlPlaces
<1>4. /\ user' \in [UrlUsers -> Downloads]
      /\ user'[u] = [user[u] EXCEPT !.pc = "ready", !.handle = NoHandle, !.answer = answer]
      /\ \A v \in UrlUsers : v # u => user'[v] = user[v]
  BY <1>1, <1>2, <1>3
<1>5. /\ user'[u].pc = "ready" /\ user'[u].for = user[u].for /\ user'[u].size = user[u].size
      /\ user'[u].handle = NoHandle /\ user'[u].start = user[u].start
      /\ user'[u].end = user[u].end /\ user'[u].current = user[u].current
      /\ user'[u].got = user[u].got /\ user'[u].answer = answer
  BY <1>1, <1>4 DEF Downloads
<1>6. DownloadInv(u)'
  BY <1>1, <1>2, <1>5 DEF DownloadInv, StandsAt, LastByte, BlkSizeOf, FileSizeOf, Arrived
<1> QED
  BY <1>1, <1>4, <1>5, <1>6, GiveBackKeeps

(* What the callback copies of a packet.                                   *)
FirstOf(c, from) == IF c < from THEN from ELSE c
PastOf(c, n, to) == IF to < c + n THEN to + 1 ELSE c + n
Overlap(c, n, from, to) ==
  IF FirstOf(c, from) < PastOf(c, n, to) THEN PastOf(c, n, to) - FirstOf(c, from) ELSE 0
BytesFrom(a, m) == [i \in 1 .. m |-> a + i - 1]

LEMMA CopyOfBytes ==
  ASSUME NEW c \in Nat, NEW n \in Nat \ {0}, NEW from \in Nat, NEW to \in Int, from <= to
  PROVE  CopyOf(c, n, from, to) = BytesFrom(FirstOf(c, from), Overlap(c, n, from, to))
<1> USE DEF FirstOf, PastOf, Overlap, BytesFrom
<1> DEFINE begin == FirstOf(c, from)
<1> DEFINE past == PastOf(c, n, to)
<1> DEFINE m == Overlap(c, n, from, to)
<1> DEFINE end == c + n - 1
<1> DEFINE copy(first, size) == [i \in 1 .. size |-> c + first + i - 1]
<1>0. CopyOf(c, n, from, to) =
        IF end < from \/ c > to THEN <<>>
        ELSE IF from <= c /\ end <= to THEN copy(0, n)
        ELSE IF c <= from /\ to <= end THEN copy(from - c, to - from + 1)
        ELSE IF c < from /\ end <= to THEN copy(from - c, n - (from - c))
        ELSE IF c <= to /\ to < end THEN copy(0, to - c + 1)
        ELSE <<>>
  BY DEF CopyOf
<1>1. CASE end < from \/ c > to
  <2>1. CopyOf(c, n, from, to) = <<>> /\ m = 0
    BY <1>0, <1>1
  <2> QED
    BY <2>1
<1>2. CASE from <= c /\ end <= to
  <2>1. begin = c /\ m = n
    BY <1>2
  <2>2. CopyOf(c, n, from, to) = copy(0, n)
    BY <1>0, <1>2
  <2> QED
    BY <2>1, <2>2
<1>3. CASE c < from /\ end <= to /\ ~(end < from)
  <2>1. begin = from /\ m = n - (from - c)
    BY <1>3
  <2>2. CopyOf(c, n, from, to) = copy(from - c, n - (from - c))
    BY <1>0, <1>3
  <2> QED
    BY <2>1, <2>2
<1>4. CASE c <= from /\ to < end
  <2>1. begin = from /\ m = to - from + 1
    BY <1>4
  <2>2. CopyOf(c, n, from, to) = copy(from - c, to - from + 1)
    BY <1>0, <1>4
  <2> QED
    BY <2>1, <2>2
<1>5. CASE from < c /\ c <= to /\ to < end
  <2>1. begin = c /\ m = to - c + 1
    BY <1>5
  <2>2. CopyOf(c, n, from, to) = copy(0, to - c + 1)
    BY <1>0, <1>5
  <2> QED
    BY <2>1, <2>2
<1> QED
  BY <1>1, <1>2, <1>3, <1>4, <1>5

(* A sequence that goes on where it was.                                   *)
LEMMA GoesOn ==
  ASSUME NEW s \in Seq(Int), NEW a \in Int, NEW m \in Nat,
         \A i \in 1 .. Len(s) : s[i] = a + i - 1
  PROVE  /\ s \o BytesFrom(a + Len(s), m) \in Seq(Int)
         /\ Len(s \o BytesFrom(a + Len(s), m)) = Len(s) + m
         /\ \A i \in 1 .. Len(s) + m : (s \o BytesFrom(a + Len(s), m))[i] = a + i - 1
<1> DEFINE r == BytesFrom(a + Len(s), m)
<1>0. Len(s) \in Nat
  OBVIOUS
<1>1. r \in Seq(Int) /\ Len(r) = m /\ \A i \in 1 .. m : r[i] = a + Len(s) + i - 1
  BY <1>0 DEF Seq, BytesFrom
<1> HIDE DEF r
<1>2. s \o r \in Seq(Int) /\ Len(s \o r) = Len(s) + m
      /\ \A i \in 1 .. Len(s) + m : (s \o r)[i] = IF i <= Len(s) THEN s[i] ELSE r[i - Len(s)]
  BY <1>1, ConcatProperties
<1>4. ASSUME NEW i \in 1 .. Len(s) + m PROVE (s \o r)[i] = a + i - 1
  <2>1. CASE i <= Len(s)
    BY <1>2, <2>1
  <2>2. CASE i > Len(s)
    <3>1. i - Len(s) \in 1 .. m /\ (s \o r)[i] = r[i - Len(s)]
      BY <1>0, <1>2, <2>2
    <3> QED
      BY <1>0, <1>1, <3>1
  <2>3. i <= Len(s) \/ i > Len(s)
    BY <1>0
  <2> QED
    BY <2>1, <2>2, <2>3
<1> QED
  BY <1>2, <1>4 DEF r

(* How many of them there are.                                             *)
MoreArrives(c, n, from, to) ==
  /\ Overlap(c, n, from, to) \in Nat /\ Arrived(c, from, to) \in Nat
  /\ Arrived(c + n, from, to) = Arrived(c, from, to) + Overlap(c, n, from, to)
  /\ Overlap(c, n, from, to) > 0 => FirstOf(c, from) = from + Arrived(c, from, to)

LEMMA ArrivedMore ==
  ASSUME NEW c \in Nat, NEW n \in Nat \ {0}, NEW from \in Nat, NEW to \in Int, from <= to
  PROVE  MoreArrives(c, n, from, to)
BY DEF MoreArrives, Overlap, Arrived, FirstOf, PastOf

LEMMA PacketKeeps ==
  ASSUME UrlInv, NEW u \in UrlUsers, Packet(u)
  PROVE  UrlInv'
<1> USE UrlConstants
<1> DEFINE d == user[u]
<1>1. /\ d \in Downloads /\ DownloadInv(u) /\ UserSound(u) /\ Busy(u)
      /\ UNCHANGED <<onStart, curl>>
      /\ d.pc = "block" /\ user \in [UrlUsers -> Downloads]
  BY DEF UrlInv, UrlTypes, Packet, Stands
<1>2. PICK n \in 1 .. UrlSize - d.current :
        user' = [user EXCEPT ![u].current = @ + n,
                   ![u].got = @ \o CopyOf(d.current, n, d.start, d.end)]
  BY DEF Packet
<1>3. /\ d.current \in 0 .. UrlSize /\ d.start \in Nat /\ d.end \in Int /\ d.got \in Seq(Int)
      /\ d.size \in 0 .. UrlSize /\ d.current + n \in 0 .. UrlSize /\ d.for \in {"size", "blocks"}
      /\ d.answer \in {"none", "data", "next"} /\ d.handle \in Handles \cup {NoHandle}
  BY <1>1 DEF Downloads
<1>4. /\ d.start < d.size /\ d.end = LastByte(u, d.start)
      /\ Len(d.got) = Arrived(d.current, d.start, d.end)
      /\ \A i \in 1 .. Len(d.got) : d.got[i] = d.start + i - 1
      /\ d.for = "blocks" /\ d.size > 0 /\ (d.answer = "data" => d.current = UrlSize)
  BY <1>1 DEF DownloadInv, StandsAt
<1>5. d.start <= d.end
  <2>1. BlkSizeOf(u) \in Nat /\ BlkSizeOf(u) > 0
    BY <1>3, <1>4 DEF BlkSizeOf, FileSizeOf
  <2> QED
    BY <1>3, <1>4, <2>1 DEF LastByte, FileSizeOf
<1> DEFINE L == Len(d.got)
<1> DEFINE m == Overlap(d.current, n, d.start, d.end)
<1> DEFINE new == d.got \o BytesFrom(d.start + L, m)
<1> HIDE DEF d
<1>6. CopyOf(d.current, n, d.start, d.end) = BytesFrom(FirstOf(d.current, d.start), m)
  <2>1. d.current \in Nat /\ n \in Nat \ {0}
    BY <1>3
  <2> QED
    BY <1>3, <1>5, <2>1, CopyOfBytes
<1>7. /\ m \in Nat /\ L \in Nat /\ Arrived(d.current + n, d.start, d.end) = L + m
      /\ m > 0 => FirstOf(d.current, d.start) = d.start + L
  <2>1. d.current \in Nat /\ n \in Nat \ {0}
    BY <1>3
  <2>2. d.start \in Nat /\ d.end \in Int
    BY <1>3
  <2>3. /\ m \in Nat /\ Arrived(d.current, d.start, d.end) \in Nat
        /\ Arrived(d.current + n, d.start, d.end) = Arrived(d.current, d.start, d.end) + m
        /\ m > 0 => FirstOf(d.current, d.start) = d.start + Arrived(d.current, d.start, d.end)
    <3>1. MoreArrives(d.current, n, d.start, d.end)
      BY <1>5, <2>1, <2>2, ArrivedMore
    <3> QED
      BY <3>1 DEF MoreArrives
  <2>4. L = Arrived(d.current, d.start, d.end)
    BY <1>4
  <2> HIDE DEF m, L
  <2> QED
    BY <2>3, <2>4
<1>9. CopyOf(d.current, n, d.start, d.end) = BytesFrom(d.start + L, m)
  <2>1. CASE m > 0
    BY <1>6, <1>7, <2>1
  <2>2. CASE m = 0
    <3>1. BytesFrom(FirstOf(d.current, d.start), 0) = BytesFrom(d.start + L, 0)
      BY DEF BytesFrom
    <3> QED
      BY <1>6, <2>2, <3>1
  <2> QED
    BY <1>7, <2>1, <2>2
<1>n. /\ new \in Seq(Int) /\ Len(new) = L + m
      /\ \A i \in 1 .. L + m : new[i] = d.start + i - 1
  <2>1. d.start \in Int
    BY <1>3
  <2>2. d.got \in Seq(Int) /\ \A i \in 1 .. Len(d.got) : d.got[i] = d.start + i - 1
    BY <1>3, <1>4
  <2> HIDE DEF m
  <2>3. /\ d.got \o BytesFrom(d.start + Len(d.got), m) \in Seq(Int)
        /\ Len(d.got \o BytesFrom(d.start + Len(d.got), m)) = Len(d.got) + m
        /\ \A i \in 1 .. Len(d.got) + m :
             (d.got \o BytesFrom(d.start + Len(d.got), m))[i] = d.start + i - 1
    BY <1>7, <2>1, <2>2, GoesOn
  <2> QED
    BY <2>3
<1>11. user' = [user EXCEPT ![u] = [d EXCEPT !.current = d.current + n, !.got = new]]
  BY <1>1, <1>2, <1>9 DEF d
<1> HIDE DEF L, m, new
<1>12. [d EXCEPT !.current = d.current + n, !.got = new] \in Downloads
  BY <1>1, <1>3, <1>n DEF Downloads
<1>13. /\ user' \in [UrlUsers -> Downloads]
       /\ user'[u] = [d EXCEPT !.current = d.current + n, !.got = new]
       /\ \A v \in UrlUsers : v # u => user'[v] = user[v]
  BY <1>1, <1>11, <1>12
<1>14. /\ user'[u].pc = "block" /\ user'[u].for = d.for /\ user'[u].size = d.size
       /\ user'[u].handle = d.handle /\ user'[u].start = d.start
       /\ user'[u].end = d.end /\ user'[u].current = d.current + n
       /\ user'[u].got = new /\ user'[u].answer = d.answer
  BY <1>1, <1>13 DEF Downloads
<1>15. DownloadInv(u)'
  <2>1. user'[u].end = LastByte(u, user[u].start)'
    BY <1>4, <1>14 DEF LastByte, BlkSizeOf, FileSizeOf, d
  <2>2. Len(user'[u].got) = Arrived(user'[u].current, user'[u].start, user'[u].end)
    BY <1>7, <1>14, <1>n
  <2>3. d.answer # "data"
    BY <1>3, <1>4
  <2> QED
    BY <1>4, <1>14, <1>n, <2>1, <2>2, <2>3 DEF DownloadInv, StandsAt
<1>16. UserSound(u)'
  BY <1>1, <1>14 DEF UserSound, StandsAt, Busy, d
<1> QED
  BY <1>1, <1>13, <1>14, <1>15, <1>16, OwnRecord DEF d

(* For any threads, handles, file and block: a handle is never destroyed   *)
(* while somebody downloads with it, and however a file is cut into        *)
(* packets, a block gets its own bytes, and all of them.                   *)
THEOREM DownloadsAreSound == UrlSpec => []DownloadsSound
<1>1. UrlInit => UrlInv
  BY UrlInitSound
<1>2. UrlInv /\ [UrlNext]_urlVars => UrlInv'
  <2> SUFFICES ASSUME UrlInv, [UrlNext]_urlVars PROVE UrlInv'
    OBVIOUS
  <2>1. ASSUME NEW u \in UrlUsers, UrlStep(u) PROVE UrlInv'
    BY <2>1, LockSteps, MakeKeeps, EndSteps, AskKeeps, TakeKeeps, SizeSteps, PacketKeeps, FinishKeeps
       DEF UrlStep, StartCurl, EndCurl
  <2>2. CASE UNCHANGED urlVars
    BY <2>2 DEF urlVars, UrlInv, UrlTypes, HandlesInv, UserSound, DownloadInv, StandsAt, Busy,
                LastByte, BlkSizeOf, FileSizeOf
  <2> QED
    BY <2>1, <2>2 DEF UrlNext
<1>3. UrlInv => HandlesKept
  <2> SUFFICES ASSUME UrlInv PROVE HandlesKept
    OBVIOUS
  <2> DEFINE busy == {u \in UrlUsers : Busy(u)}
  <2> DEFINE taken == {user[u].handle : u \in busy}
  <2> DEFINE f == [u \in busy |-> user[u].handle]
  <2>1. IsFiniteSet(busy)
    <3>1. busy \subseteq UrlUsers
      OBVIOUS
    <3> HIDE DEF busy
    <3> QED
      BY <3>1, UrlConstants, FS_Subset
  <2>2. f \in Surjection(busy, taken) /\ f \in Injection(busy, taken)
    <3>1. f \in [busy -> taken] /\ \A h \in taken : \E u \in busy : f[u] = h
      OBVIOUS
    <3>2. \A u, v \in busy : f[u] = f[v] => u = v
      BY DEF UrlInv, HandlesInv
    <3> HIDE DEF busy, taken, f
    <3> QED
      BY <3>1, <3>2 DEF Surjection, Injection, IsInjective
  <2>3. Cardinality(taken) = Cardinality(busy)
    <3> HIDE DEF busy, taken, f
    <3> QED
      BY <2>1, <2>2, FS_Surjection
  <2>4. taken \cap curl.free = {}
    BY DEF UrlInv, HandlesInv
  <2>5. taken \cup curl.free = IF curl.started THEN Handles ELSE {}
    <3>1. taken \subseteq Handles /\ curl.free \subseteq Handles
      BY DEF UrlInv, UrlTypes, CurlTypes, Downloads, Busy
    <3>2. CASE curl.started
      <4>1. \A h \in Handles : h \in curl.free \/ h \in taken
        BY <3>2, UrlConstants DEF UrlInv, HandlesInv, Busy
      <4> QED
        BY <3>1, <3>2, <4>1
    <3>3. CASE ~curl.started
      BY <3>3 DEF UrlInv, HandlesInv
    <3> QED
      BY <3>2, <3>3
  <2> QED
    BY <2>3, <2>4, <2>5 DEF HandlesKept
<1>4. UrlInv => BlocksWhole
  <2> SUFFICES ASSUME UrlInv, NEW u \in UrlUsers, user[u].answer = "data"
               PROVE  LET n == Len(user[u].got)
                          rest == user[u].size - user[u].start
                      IN  /\ n <= BlkSizeOf(u) /\ (n >= BlkSizeOf(u) \/ n >= rest)
                          /\ \A i \in 1 .. n : user[u].got[i] = user[u].start + i - 1
    BY DEF BlocksWhole
  <2>1. DownloadInv(u) /\ user[u] \in Downloads
    BY DEF UrlInv, UrlTypes
  <2>2. /\ user[u].start < user[u].size /\ user[u].end = LastByte(u, user[u].start)
        /\ Len(user[u].got) = Arrived(user[u].current, user[u].start, user[u].end)
        /\ user[u].current = UrlSize
        /\ \A i \in 1 .. Len(user[u].got) : user[u].got[i] = user[u].start + i - 1
    BY <2>1 DEF DownloadInv
  <2>3. user[u].start \in Nat /\ user[u].size \in 0 .. UrlSize
    BY <2>1 DEF Downloads
  <2>5. BlkSizeOf(u) \in Nat /\ BlkSizeOf(u) > 0
    BY <2>2, <2>3, UrlConstants DEF BlkSizeOf, FileSizeOf
  <2>6. Arrived(UrlSize, user[u].start, user[u].end) =
          IF UrlSize <= user[u].end THEN UrlSize - user[u].start ELSE user[u].end + 1 - user[u].start
    BY <2>3, <2>2, UrlConstants DEF Arrived
  <2>7. LastByte(u, user[u].start) =
          IF user[u].start + BlkSizeOf(u) - 1 > user[u].size THEN user[u].size - 1
          ELSE user[u].start + BlkSizeOf(u) - 1
    BY DEF LastByte, FileSizeOf
  <2>4. /\ Len(user[u].got) <= BlkSizeOf(u)
        /\ Len(user[u].got) >= BlkSizeOf(u) \/ Len(user[u].got) >= user[u].size - user[u].start
    <3> DEFINE size == user[u].size
    <3> DEFINE start == user[u].start
    <3> DEFINE B == BlkSizeOf(u)
    <3> DEFINE end == user[u].end
    <3> DEFINE n == Len(user[u].got)
    <3>1. /\ B \in Nat /\ B > 0 /\ start \in Nat /\ size \in Nat /\ size <= UrlSize
          /\ UrlSize \in Nat
          /\ start < size
      BY <2>2, <2>3, <2>5, UrlConstants
    <3>2. end = IF start + B - 1 > size THEN size - 1 ELSE start + B - 1
      BY <2>2, <2>7
    <3>3. n = IF UrlSize <= end THEN UrlSize - start ELSE end + 1 - start
      BY <2>2, <2>6
    <3> HIDE DEF size, start, B, end, n
    <3>4. n <= B /\ (n >= B \/ n >= size - start)
      BY <3>1, <3>2, <3>3
    <3> QED
      BY <3>4 DEF size, start, B, n
  <2> QED
    BY <2>2, <2>4
<1>5. UrlInv => DownloadsSound
  BY <1>3, <1>4 DEF DownloadsSound
<1> QED
  BY <1>1, <1>2, <1>5, PTL DEF UrlSpec
===============================================================================
