------------------------------ MODULE FileCacheProofs ------------------------------
(***************************************************************************)
(* The lock of a bin in files and what the bin serves, for any sets of     *)
(* processes, nodes, requests and blocks, any number of entries and any    *)
(* number of processes that die.                                           *)
(*                                                                         *)
(* Mutual exclusion is not inductive: a step says who locks the file, and  *)
(* not who is in the bin.  What is inductive is that the file is locked in *)
(* the name of whoever is in the bin, and the flag set in the name of      *)
(* whoever is past it, which the end of a process must not disturb for the *)
(* requests of the others.                                                 *)
(***************************************************************************)
EXTENDS FileCache, FiniteSetTheorems, TLAPS

Section == {"scan", "put", "update", "store", "hit", "unlock"}

(* Who is in the bin, or about to leave it, has the file.                  *)
FileOwned == \A r \in Reqs : req[r].pc \in Section => fileLock = r

(* Who wants the file, or has it, has set the flag.                        *)
FlagOwned ==
  \A r \in Reqs : req[r].pc \in Section \cup {"filelock"} => flag[at[proc[r]]] = r

(* Where an unlock leads, and who knows its entry.                         *)
ThenKnown ==
  \A r \in Reqs :
    /\ req[r].pc = "unlock" => req[r].then \in {"net", "done", "got", "poll"}
    /\ req[r].pc = "store" => req[r].then \in {"net", "done", "hit", "poll", "exit"}

WayKnown ==
  \A r \in Reqs :
    \/ req[r].pc \in {"put", "update", "store", "hit", "poll", "fetch"}
    \/ req[r].pc = "unlock" /\ req[r].then = "poll"
    => req[r].way \in Ways

LockInv == TypeOK /\ FileOwned /\ FlagOwned /\ ThenKnown /\ WayKnown

-------------------------------------------------------------------------------
LEMMA Initially == Init => LockInv
  BY FileCacheConstants DEF Init, LockInv, TypeOK, FileOwned, FlagOwned, ThenKnown, WayKnown, Section,
         NewReq, Request, Bin, Empty, Ways

LEMMA Known == \A r \in Reqs : proc[r] \in Procs /\ block[r] \in Blocks
  BY FileCacheConstants

LEMMA AtMemory == ASSUME TypeOK, NEW r \in Reqs PROVE at[proc[r]] \in Memories
  BY FileCacheConstants DEF TypeOK, at, Memories

(* The constructors leave the lock and the requests alone.                 *)
LEMMA Starts ==
  ASSUME LockInv, NEW p \in Procs, MakeDirectory(p) \/ Start(p)
  PROVE  LockInv'
<1>1. start' \in [Procs -> {"off", "create", "createdata", "await", "open", "init",
                            "up", "gone"}]
  BY DEF LockInv, TypeOK, MakeDirectory, Start, CreateEntries, CreateData, FilesAppear,
         FilesDoNotAppear, MakeFlags, FlagsReady, AwaitFlags, MakeLinkFiles, Starting
<1>2. dir' \subseteq {"init", "lock", "entries", "data"}
  BY DEF LockInv, TypeOK, MakeDirectory, Start, CreateEntries, CreateData, FilesAppear,
         FilesDoNotAppear, MakeFlags, FlagsReady, AwaitFlags, MakeLinkFiles
<1>3. shm' \in [Nodes -> {"none", "made", "ready", "stuck"}]
  BY DEF LockInv, TypeOK, MakeDirectory, Start, CreateEntries, CreateData, FilesAppear,
         FilesDoNotAppear, MakeFlags, FlagsReady, AwaitFlags, MakeLinkFiles
<1>4. UNCHANGED <<lockKind, lockVars, disk, data, copy, req, crashes, lost>>
  BY DEF MakeDirectory, Start, CreateEntries, CreateData, FilesAppear,
         FilesDoNotAppear, MakeFlags, FlagsReady, AwaitFlags, MakeLinkFiles, OnlyStarting
<1> QED
  BY <1>1, <1>2, <1>3, <1>4
  DEF LockInv, TypeOK, FileOwned, FlagOwned, ThenKnown, WayKnown, lockVars, at

(* The end of a process takes its requests out of the bin, and the file    *)
(* from nobody but them.                                                   *)
LEMMA ProcessEnds ==
  ASSUME LockInv, NEW p \in Procs, Gone(p),
         UNCHANGED <<lockKind, flag>>
  PROVE  /\ FileOwned' /\ FlagOwned' /\ ThenKnown' /\ WayKnown'
         /\ req' \in [Reqs -> Request] /\ fileLock' \in Reqs \cup {None}
         /\ start' \in [Procs -> {"off", "create", "createdata", "await", "open", "init",
                                  "up", "gone"}]
<1>1. /\ req' \in [Reqs -> Request]
      /\ \A r \in Reqs : IF r \in Of(p) THEN req'[r].pc = "gone" ELSE req'[r] = req[r]
  BY DEF LockInv, TypeOK, Gone, NewReq, Request
<1>2. \A r \in Reqs : r \notin Of(p) /\ fileLock = r => fileLock' = r
  BY DEF Gone
<1>3. FileOwned' BY <1>1, <1>2 DEF LockInv, FileOwned, Section
<1>4. FlagOwned' BY <1>1 DEF LockInv, FlagOwned, Section, at
<1>5. ThenKnown' /\ WayKnown' BY <1>1 DEF LockInv, ThenKnown, WayKnown
<1>6. fileLock' \in Reqs \cup {None} BY DEF LockInv, TypeOK, Gone
<1>7. start' \in [Procs -> {"off", "create", "createdata", "await", "open", "init",
                            "up", "gone"}]
  BY DEF LockInv, TypeOK, Gone
<1> QED BY <1>1, <1>3, <1>4, <1>5, <1>6, <1>7

LEMMA Crashes == ASSUME LockInv, NEW p \in Procs, Crash(p) PROVE LockInv'
<1>1. Gone(p) /\ UNCHANGED <<lockKind, dir, flag, disk, data, copy, lost>> BY DEF Crash
<1>2. shm' \in [Nodes -> {"none", "made", "ready", "stuck"}] /\ crashes' \in Nat
  BY DEF LockInv, TypeOK, Crash
<1> QED BY <1>1, <1>2, ProcessEnds DEF LockInv, TypeOK

-------------------------------------------------------------------------------
(* The types that a request's step may change.                             *)
RequestTypes ==
  /\ flag \in [Memories -> Reqs \cup {None}] /\ fileLock \in Reqs \cup {None}
  /\ disk \in Bin /\ data \in [Ways -> Blocks \cup {None}] /\ copy \in [Procs -> Bin]
  /\ req \in [Reqs -> Request] /\ lost \in [Ways -> Nat]

(* A request that goes on disturbs no other one, if it takes neither file  *)
(* nor flag from it; its own part of the invariant remains to be shown.    *)
LEMMA OneMoves ==
  ASSUME LockInv, NEW r \in Reqs, UNCHANGED <<startVars, crashes>>, RequestTypes',
         \A s \in Reqs \ {r} :
           /\ req'[s] = req[s]
           /\ req[s].pc \in Section => fileLock' = fileLock
           /\ req[s].pc \in Section \cup {"filelock"}
                => flag'[at[proc[s]]] = flag[at[proc[s]]],
         req'[r].pc \in Section => fileLock' = r,
         req'[r].pc \in Section \cup {"filelock"} => flag'[at[proc[r]]] = r,
         req'[r].pc = "unlock" => req'[r].then \in {"net", "done", "got", "poll"},
         req'[r].pc = "store" => req'[r].then \in {"net", "done", "hit", "poll", "exit"},
         \/ req'[r].pc \in {"put", "update", "store", "hit", "poll", "fetch"}
         \/ req'[r].pc = "unlock" /\ req'[r].then = "poll"
         => req'[r].way \in Ways
  PROVE  LockInv'
<1>1. TypeOK' BY DEF LockInv, TypeOK, RequestTypes, startVars
<1>2. at' = at BY DEF at, startVars
<1>3. FileOwned' BY DEF LockInv, FileOwned
<1>4. FlagOwned' BY <1>2 DEF LockInv, FlagOwned
<1>5. ThenKnown' BY DEF LockInv, ThenKnown
<1>6. WayKnown' BY DEF LockInv, WayKnown
<1> QED BY <1>1, <1>3, <1>4, <1>5, <1>6 DEF LockInv

LEMMA GoesTo ==
  ASSUME TypeOK, NEW r \in Reqs,
         NEW pc \in {"lock", "filelock", "scan", "update", "hit", "unlock", "poll", "fetch",
                     "net", "done", "got"},
         req' = [req EXCEPT ![r].pc = pc]
  PROVE  /\ req' \in [Reqs -> Request] /\ req'[r].pc = pc
         /\ req'[r].then = req[r].then /\ req'[r].way = req[r].way
         /\ \A s \in Reqs \ {r} : req'[s] = req[s]
  BY DEF TypeOK, Request

(* The same for the actions that change more fields of a request.          *)
LEMMA Becomes ==
  ASSUME TypeOK, NEW r \in Reqs, NEW q \in Request, req' = [req EXCEPT ![r] = q]
  PROVE  req' \in [Reqs -> Request] /\ req'[r] = q /\ \A s \in Reqs \ {r} : req'[s] = req[s]
  BY DEF TypeOK

LEMMA TakesFlag == ASSUME LockInv, NEW r \in Reqs, LockFlag(r) PROVE LockInv'
<1> DEFINE m == at[proc[r]]
<1>1. m \in Memories BY AtMemory DEF LockInv
<1>2. /\ flag[m] = None /\ flag' = [flag EXCEPT ![m] = r]
      /\ req' = [req EXCEPT ![r].pc = "filelock"]
      /\ UNCHANGED <<startVars, fileLock, disk, data, copy, crashes, lost>>
  BY DEF LockFlag, Goto
<1>3. RequestTypes' BY <1>1, <1>2 DEF LockInv, TypeOK, RequestTypes, Request
<1>4. \A s \in Reqs \ {r} :
        /\ req'[s] = req[s]
        /\ req[s].pc \in Section \cup {"filelock"} => flag'[at[proc[s]]] = flag[at[proc[s]]]
  <2> SUFFICES ASSUME NEW s \in Reqs \ {r} PROVE
        /\ req'[s] = req[s]
        /\ req[s].pc \in Section \cup {"filelock"} => flag'[at[proc[s]]] = flag[at[proc[s]]]
    OBVIOUS
  <2>1. at[proc[s]] \in Memories BY AtMemory DEF LockInv
  <2>2. req[s].pc \in Section \cup {"filelock"} => flag[at[proc[s]]] = s
    BY DEF LockInv, FlagOwned
  <2> QED BY <1>1, <1>2, <2>1, <2>2, FileCacheConstants DEF LockInv, TypeOK
<1>5. req'[r].pc = "filelock" /\ flag'[m] = r BY <1>1, <1>2 DEF LockInv, TypeOK, Request
<1> QED BY <1>2, <1>3, <1>4, <1>5, OneMoves DEF Section

LEMMA TakesFile == ASSUME LockInv, NEW r \in Reqs, LockFile(r) PROVE LockInv'
<1>1. /\ req[r].pc = "filelock" /\ fileLock = None /\ fileLock' = r
      /\ req' = [req EXCEPT ![r].pc = "scan"]
      /\ UNCHANGED <<startVars, flag, disk, data, copy, crashes, lost>>
  BY DEF LockFile, Goto, At
<1>2. RequestTypes'
  <2>1. req' \in [Reqs -> Request] BY <1>1, GoesTo DEF LockInv
  <2> QED BY <1>1, <2>1 DEF LockInv, TypeOK, RequestTypes
<1>3. \A s \in Reqs : req[s].pc \notin Section
  BY <1>1, FileCacheConstants DEF LockInv, FileOwned
<1>4. flag[at[proc[r]]] = r BY <1>1 DEF LockInv, FlagOwned
<1>5. req'[r].pc = "scan" /\ \A s \in Reqs \ {r} : req'[s] = req[s]
  BY <1>1 DEF LockInv, TypeOK, Request
<1> QED BY <1>1, <1>2, <1>3, <1>4, <1>5, OneMoves DEF Section

LEMMA Leaves == ASSUME LockInv, NEW r \in Reqs, Unlock(r) PROVE LockInv'
<1> DEFINE m == at[proc[r]]
<1>1. m \in Memories BY AtMemory DEF LockInv
<1>2. /\ req[r].pc = "unlock" /\ fileLock' = None /\ flag' = [flag EXCEPT ![m] = None]
      /\ req' = [req EXCEPT ![r].pc = req[r].then]
      /\ UNCHANGED <<startVars, disk, data, copy, crashes, lost>>
  BY DEF Unlock, Goto, At
<1>3. req[r].then \in {"net", "done", "got", "poll"} BY <1>2 DEF LockInv, ThenKnown
<1>4. RequestTypes'
  <2>1. req' \in [Reqs -> Request] BY <1>2, <1>3 DEF LockInv, TypeOK, Request
  <2> QED BY <1>1, <1>2, <2>1 DEF LockInv, TypeOK, RequestTypes
<1>5. fileLock = r /\ flag[m] = r BY <1>2 DEF LockInv, FileOwned, FlagOwned, Section
<1>6. \A s \in Reqs \ {r} :
        /\ req'[s] = req[s] /\ req[s].pc \notin Section
        /\ req[s].pc = "filelock" => flag'[at[proc[s]]] = flag[at[proc[s]]]
  <2> SUFFICES ASSUME NEW s \in Reqs \ {r} PROVE
        /\ req'[s] = req[s] /\ req[s].pc \notin Section
        /\ req[s].pc = "filelock" => flag'[at[proc[s]]] = flag[at[proc[s]]]
    OBVIOUS
  <2>1. at[proc[s]] \in Memories BY AtMemory DEF LockInv
  <2>2. req[s].pc = "filelock" => flag[at[proc[s]]] = s BY DEF LockInv, FlagOwned
  <2>3. req[s].pc \notin Section BY <1>5 DEF LockInv, FileOwned
  <2> QED BY <1>1, <1>2, <1>5, <2>1, <2>2, <2>3 DEF LockInv, TypeOK
<1>7. /\ req'[r].pc = req[r].then /\ req'[r].then = req[r].then
      /\ req'[r].way = req[r].way
  BY <1>2 DEF LockInv, TypeOK, Request
<1>8. req[r].then = "poll" => req[r].way \in Ways BY <1>2 DEF LockInv, WayKnown
<1> QED BY <1>2, <1>3, <1>4, <1>6, <1>7, <1>8, OneMoves DEF Section

(* What polls read over is added up, whichever step is taken.              *)
LEMMA LostGrows ==
  ASSUME TypeOK, NEW r \in Reqs, Scan(r) \/ (Refreshed(r) /\ req[r].way \in Ways)
  PROVE  lost' \in [Ways -> Nat] /\ \A i \in Ways : lost'[i] >= lost[i]
<1>1. lost \in [Ways -> Nat] BY DEF TypeOK
<1>2. \E i \in Ways : lost' = [lost EXCEPT ![i] = lost[i] + 1] \/ lost' = lost
  <2>1. CASE Scan(r)
    <3>1. PICK i \in Found(r) :
            lost' = [lost EXCEPT ![i] = IF req[r].reserved = 1 /\ req[r].way # i
                                        THEN lost[i] + 1 ELSE lost[i]]
      BY <2>1 DEF Scan
    <3>2. i \in Ways BY DEF Found, GetBlock, OldestBlock
    <3> QED BY <1>1, <3>1, <3>2
  <2>2. CASE Refreshed(r) /\ req[r].way \in Ways
    <3>1. lost' = [lost EXCEPT ![req[r].way] = IF Overwrites(r) THEN lost[req[r].way] + 1
                                               ELSE lost[req[r].way]]
      BY <2>2 DEF Refreshed
    <3> HIDE DEF Overwrites
    <3> QED BY <1>1, <2>2, <3>1
  <2> QED BY <2>1, <2>2
<1>3. PICK i \in Ways : lost' = [lost EXCEPT ![i] = lost[i] + 1] \/ lost' = lost BY <1>2
<1>4. lost[i] \in Nat /\ lost[i] + 1 \in Nat BY <1>1
<1>5. lost' \in [Ways -> Nat] BY <1>1, <1>3, <1>4
<1>6. \A j \in Ways : lost'[j] = lost[j] \/ lost'[j] = lost[j] + 1 BY <1>1, <1>3
<1> QED BY <1>1, <1>5, <1>6

LEMMA Scans == ASSUME LockInv, NEW r \in Reqs, Scan(r) PROVE LockInv'
<1>1. PICK i \in Found(r) :
        LET evict == disk[i].status = "AVAIL" /\ disk[i].blk # block[r]
        IN  /\ copy' = [copy EXCEPT ![proc[r]] =
                  IF evict THEN [disk EXCEPT ![i].status = "EVICT"] ELSE disk]
            /\ req' = [req EXCEPT ![r].way = i,
                 ![r].pc = IF /\ req[r].task = "write"
                              /\ copy'[proc[r]][i].status # "AVAIL"
                           THEN "put" ELSE "update"]
  BY DEF Scan
<1>2. /\ req[r].pc = "scan"
      /\ UNCHANGED <<startVars, lockVars, disk, data, crashes>>
  BY DEF Scan, At
<1>3. i \in Ways BY DEF Found, GetBlock, OldestBlock
<1>4. [disk EXCEPT ![i].status = "EVICT"] \in Bin
  <2>1. [disk[i] EXCEPT !.status = "EVICT"] \in
          [blk : Blocks \cup {None}, active : Int, status : {"EMPTY", "RES", "AVAIL", "EVICT"}]
    BY <1>3 DEF LockInv, TypeOK, Bin
  <2> QED BY <1>3, <2>1 DEF LockInv, TypeOK, Bin
<1>5. copy' \in [Procs -> Bin] BY <1>1, <1>4, Known DEF LockInv, TypeOK
<1>6. /\ req' \in [Reqs -> Request] /\ req'[r].pc \in {"put", "update"}
      /\ req'[r].way = i /\ \A s \in Reqs \ {r} : req'[s] = req[s]
  <2>1. PICK to \in {"put", "update"} : req' = [req EXCEPT ![r].way = i, ![r].pc = to]
    BY <1>1
  <2> DEFINE q == [req[r] EXCEPT !.way = i, !.pc = to]
  <2>2. req[r] \in Request /\ req' = [req EXCEPT ![r] = q] BY <2>1 DEF LockInv, TypeOK
  <2>3. q \in Request BY <1>3, <2>2 DEF Request
  <2>4. q.pc = to /\ q.way = i BY <2>2 DEF Request
  <2> HIDE DEF q
  <2> QED BY <2>2, <2>3, <2>4, Becomes DEF LockInv
<1>9. lost' \in [Ways -> Nat] BY LostGrows DEF LockInv
<1>7. RequestTypes' BY <1>2, <1>5, <1>6, <1>9 DEF LockInv, TypeOK, RequestTypes, lockVars
<1>8. fileLock = r /\ flag[at[proc[r]]] = r
  BY <1>2 DEF LockInv, FileOwned, FlagOwned, Section
<1> QED BY <1>2, <1>3, <1>6, <1>7, <1>8, OneMoves DEF Section, lockVars

LEMMA ScansNothing == ASSUME LockInv, NEW r \in Reqs, ScanNothing(r) PROVE LockInv'
<1>1. /\ req[r].pc = "scan" /\ copy' = [copy EXCEPT ![proc[r]] = disk]
      /\ UNCHANGED <<lockKind, dir, shm, flag, disk, data, crashes, lost>>
  BY DEF ScanNothing, At
<1>2. copy' \in [Procs -> Bin] BY <1>1, Known DEF LockInv, TypeOK
<1>3. CASE Releasing(r)
  <2>1. Gone(proc[r]) BY <1>3 DEF ScanNothing
  <2> QED BY <1>1, <1>2, <2>1, Known, ProcessEnds DEF LockInv, TypeOK
<1>4. CASE ~Releasing(r)
  <2>1. /\ req' = [req EXCEPT ![r].pc = "unlock",
                     ![r].then = IF req[r].task = "read" THEN "net" ELSE "done"]
        /\ UNCHANGED <<start, fileLock>>
    BY <1>4 DEF ScanNothing
  <2>2. /\ req' \in [Reqs -> Request] /\ req'[r].pc = "unlock"
        /\ req'[r].then \in {"net", "done"} /\ \A s \in Reqs \ {r} : req'[s] = req[s]
    <3>1. PICK to \in {"net", "done"} : req' = [req EXCEPT ![r].pc = "unlock", ![r].then = to]
      BY <2>1
    <3> DEFINE q == [req[r] EXCEPT !.pc = "unlock", !.then = to]
    <3>2. req[r] \in Request /\ req' = [req EXCEPT ![r] = q] BY <3>1 DEF LockInv, TypeOK
    <3>3. q \in Request BY <3>2 DEF Request
    <3>4. q.pc = "unlock" /\ q.then = to BY <3>2 DEF Request
    <3> HIDE DEF q
    <3> QED BY <3>2, <3>3, <3>4, Becomes DEF LockInv
  <2>3. RequestTypes' BY <1>1, <1>2, <2>1, <2>2 DEF LockInv, TypeOK, RequestTypes
  <2>4. fileLock = r /\ flag[at[proc[r]]] = r
    BY <1>1 DEF LockInv, FileOwned, FlagOwned, Section
  <2> QED BY <1>1, <2>1, <2>2, <2>3, <2>4, OneMoves DEF Section, startVars
<1> QED BY <1>3, <1>4

LEMMA Puts == ASSUME LockInv, NEW r \in Reqs, PutData(r) PROVE LockInv'
<1>1. /\ req[r].pc = "put" /\ req' = [req EXCEPT ![r].pc = "update"]
      /\ data' = [data EXCEPT ![req[r].way] = block[r]]
      /\ UNCHANGED <<startVars, lockVars, disk, copy, crashes, lost>>
  BY DEF PutData, At, Goto
<1>2. req[r].way \in Ways BY <1>1 DEF LockInv, WayKnown
<1>3. data' \in [Ways -> Blocks \cup {None}] BY <1>1, <1>2, Known DEF LockInv, TypeOK
<1>4. req' \in [Reqs -> Request] /\ req'[r].pc = "update" /\ req'[r].way = req[r].way
  BY <1>1, GoesTo DEF LockInv
<1>5. \A s \in Reqs \ {r} : req'[s] = req[s] BY <1>1 DEF LockInv, TypeOK
<1>6. RequestTypes' BY <1>1, <1>3, <1>4 DEF LockInv, TypeOK, RequestTypes, lockVars
<1>7. fileLock = r /\ flag[at[proc[r]]] = r
  BY <1>1 DEF LockInv, FileOwned, FlagOwned, Section
<1> QED BY <1>1, <1>2, <1>4, <1>5, <1>6, <1>7, OneMoves DEF Section, lockVars

LEMMA Updates == ASSUME LockInv, NEW r \in Reqs, Update(r) PROVE LockInv'
<1> DEFINE e == copy[proc[r]][req[r].way]
<1>1. /\ req[r].pc = "update"
      /\ copy' = [copy EXCEPT ![proc[r]][req[r].way] = Updated(r, e)]
      /\ req' = [req EXCEPT ![r].pc = "store", ![r].then = Follows(r, e),
                            ![r].reserved = IF req[r].task = "read" THEN 1 ELSE @]
      /\ UNCHANGED <<startVars, lockVars, disk, data, crashes, lost>>
  BY DEF Update, At
<1>2. req[r].way \in Ways BY <1>1 DEF LockInv, WayKnown
<1> DEFINE E == [blk : Blocks \cup {None}, active : Int,
                 status : {"EMPTY", "RES", "AVAIL", "EVICT"}]
<1>3. e \in E BY <1>2, Known DEF LockInv, TypeOK, Bin
<1>4. req[r].reserved \in Int BY DEF LockInv, TypeOK, Request
<1>5. Updated(r, e) \in E
  <2>1. [e EXCEPT !.active = @ - 1] \in E /\ [e EXCEPT !.active = @ + 1] \in E BY <1>3
  <2>2. block[r] \in Blocks /\ e.active + 1 \in Int /\ e.active + req[r].reserved \in Int
    BY <1>3, <1>4, Known
  <2>3. \A n \in Int, st \in {"RES", "AVAIL"} :
          [blk |-> block[r], status |-> st, active |-> n] \in E
    BY <2>2
  <2> QED BY <1>3, <2>1, <2>2, <2>3 DEF Updated
<1>6. copy' \in [Procs -> Bin] BY <1>1, <1>2, <1>5, Known DEF LockInv, TypeOK, Bin
<1>7. Follows(r, e) \in {"net", "done", "hit", "poll", "exit"} BY DEF Follows
<1>8. PICK to \in {"net", "done", "hit", "poll", "exit"}, n \in {0, 1} :
        req' = [req EXCEPT ![r].pc = "store", ![r].then = to, ![r].reserved = n]
  <2>1. (IF req[r].task = "read" THEN 1 ELSE req[r].reserved) \in {0, 1}
    BY DEF LockInv, TypeOK, Request
  <2> QED BY <1>1, <1>7, <2>1
<1>9. /\ req' \in [Reqs -> Request] /\ req'[r].pc = "store" /\ req'[r].then = to
      /\ req'[r].way = req[r].way /\ \A s \in Reqs \ {r} : req'[s] = req[s]
  <2> DEFINE q == [req[r] EXCEPT !.pc = "store", !.then = to, !.reserved = n]
  <2>1. req[r] \in Request /\ req' = [req EXCEPT ![r] = q] BY <1>8 DEF LockInv, TypeOK
  <2>2. q \in Request BY <2>1 DEF Request
  <2>3. q.pc = "store" /\ q.then = to /\ q.way = req[r].way BY <2>1 DEF Request
  <2> HIDE DEF q
  <2> QED BY <2>1, <2>2, <2>3, Becomes DEF LockInv
<1>10. RequestTypes' BY <1>1, <1>6, <1>9 DEF LockInv, TypeOK, RequestTypes, lockVars
<1>11. fileLock = r /\ flag[at[proc[r]]] = r
  BY <1>1 DEF LockInv, FileOwned, FlagOwned, Section
<1> HIDE DEF e, E
<1> QED BY <1>1, <1>2, <1>9, <1>10, <1>11, OneMoves DEF Section, lockVars

LEMMA Stores == ASSUME LockInv, NEW r \in Reqs, Store(r) PROVE LockInv'
<1>1. /\ req[r].pc = "store"
      /\ disk' = [disk EXCEPT ![req[r].way] = copy[proc[r]][req[r].way]]
      /\ UNCHANGED <<lockKind, dir, shm, flag, data, copy, crashes, lost>>
  BY DEF Store, At
<1>2. req[r].way \in Ways BY <1>1 DEF LockInv, WayKnown
<1>3. disk' \in Bin BY <1>1, <1>2, Known DEF LockInv, TypeOK, Bin
<1>4. CASE req[r].then = "exit"
  <2>1. Gone(proc[r]) BY <1>4 DEF Store
  <2> QED BY <1>1, <1>3, <2>1, Known, ProcessEnds DEF LockInv, TypeOK
<1>5. CASE req[r].then # "exit"
  <2>1. PICK to \in {"hit", "unlock"} :
          /\ to = "unlock" => req[r].then \in {"net", "done", "poll"}
          /\ req' = [req EXCEPT ![r].pc = to]
          /\ UNCHANGED <<start, fileLock>>
    BY <1>1, <1>5 DEF Store, Goto, LockInv, ThenKnown
  <2>2. /\ req' \in [Reqs -> Request] /\ req'[r].pc = to
        /\ req'[r].then = req[r].then /\ req'[r].way = req[r].way
    BY <2>1, GoesTo DEF LockInv
  <2>3. \A s \in Reqs \ {r} : req'[s] = req[s] BY <2>1 DEF LockInv, TypeOK
  <2>4. RequestTypes' BY <1>1, <1>3, <2>1, <2>2 DEF LockInv, TypeOK, RequestTypes
  <2>5. fileLock = r /\ flag[at[proc[r]]] = r
    BY <1>1 DEF LockInv, FileOwned, FlagOwned, Section
  <2> QED BY <1>1, <1>2, <2>1, <2>2, <2>3, <2>4, <2>5, OneMoves DEF Section, startVars
<1> QED BY <1>4, <1>5

LEMMA Hits == ASSUME LockInv, NEW r \in Reqs, ReadHit(r) PROVE LockInv'
<1> DEFINE q == [req[r] EXCEPT !.pc = "unlock", !.then = "got", !.origin = "cache",
                               !.data = data[req[r].way]]
<1>1. req[r].pc = "hit" /\ UNCHANGED <<startVars, lockVars, disk, data, copy, crashes, lost>>
  BY DEF ReadHit, At, OnlyReq
<1>2. req[r] \in Request /\ req' = [req EXCEPT ![r] = q] BY DEF ReadHit, LockInv, TypeOK
<1>3. req[r].way \in Ways BY <1>1 DEF LockInv, WayKnown
<1>4. data[req[r].way] \in Blocks \cup {None} BY <1>3 DEF LockInv, TypeOK
<1>5. q \in Request BY <1>2, <1>4 DEF Request
<1>6. q.pc = "unlock" /\ q.then = "got" BY <1>2 DEF Request
<1> HIDE DEF q
<1>7. /\ req' \in [Reqs -> Request] /\ req'[r] = q
      /\ \A s \in Reqs \ {r} : req'[s] = req[s]
  BY <1>2, <1>5, Becomes DEF LockInv
<1>8. RequestTypes' BY <1>1, <1>7 DEF LockInv, TypeOK, RequestTypes, lockVars
<1>9. fileLock = r /\ flag[at[proc[r]]] = r
  BY <1>1 DEF LockInv, FileOwned, FlagOwned, Section
<1> QED BY <1>1, <1>6, <1>7, <1>8, <1>9, OneMoves DEF Section, lockVars

(* Waiting for somebody else, and reading what was waited for.             *)
LEMMA Waits == ASSUME LockInv, NEW r \in Reqs, Poll(r) \/ Fetch(r) PROVE LockInv'
<1>1. /\ req[r].pc \in {"poll", "fetch"} /\ Refreshed(r)
      /\ UNCHANGED <<startVars, lockVars, disk, data, crashes>>
  BY DEF Poll, Fetch, At
<1>2. req[r].way \in Ways BY <1>1 DEF LockInv, WayKnown
<1>3. copy' \in [Procs -> Bin]
  BY <1>1, <1>2, Known DEF Refreshed, LockInv, TypeOK, Bin
<1>4. /\ req' \in [Reqs -> Request] /\ req'[r].pc \in {"poll", "fetch", "got"}
      /\ req'[r].way = req[r].way /\ \A s \in Reqs \ {r} : req'[s] = req[s]
  <2>1. CASE req' = [req EXCEPT ![r].pc = "fetch"]
    BY <2>1, GoesTo DEF LockInv, TypeOK
  <2>2. CASE req' = req BY <1>1, <2>2 DEF LockInv, TypeOK
  <2>3. CASE Fetch(r)
    <3> DEFINE q == [req[r] EXCEPT !.pc = "got", !.origin = "cache",
                                   !.data = data[req[r].way]]
    <3>1. req[r] \in Request /\ req' = [req EXCEPT ![r] = q]
      BY <2>3 DEF Fetch, LockInv, TypeOK
    <3>2. data[req[r].way] \in Blocks \cup {None} BY <1>2 DEF LockInv, TypeOK
    <3>3. q \in Request BY <3>1, <3>2 DEF Request
    <3>4. q.pc = "got" /\ q.way = req[r].way BY <3>1 DEF Request
    <3> HIDE DEF q
    <3> QED BY <3>1, <3>3, <3>4, Becomes DEF LockInv
  <2> QED BY <2>1, <2>2, <2>3 DEF Poll, Goto
<1>6. lost' \in [Ways -> Nat] BY <1>1, <1>2, LostGrows DEF LockInv
<1>5. RequestTypes' BY <1>1, <1>3, <1>4, <1>6 DEF LockInv, TypeOK, RequestTypes, lockVars
<1> QED BY <1>1, <1>2, <1>4, <1>5, OneMoves DEF Section, lockVars

(* What a request does outside of the cache.                               *)
LEMMA GoesOn ==
  ASSUME LockInv, NEW r \in Reqs,
         ReadBlock(r) \/ PollTimeout(r) \/ NetAnswer(r) \/ WriteBlock(r)
  PROVE  LockInv'
<1>1. UNCHANGED <<startVars, lockVars, disk, data, copy, crashes, lost>>
  BY DEF ReadBlock, PollTimeout, NetAnswer, WriteBlock, OnlyReq
<1>2. /\ req' \in [Reqs -> Request] /\ req'[r].pc \in {"lock", "net", "got"}
      /\ \A s \in Reqs \ {r} : req'[s] = req[s]
  <2>1. CASE ReadBlock(r) \/ PollTimeout(r)
    <3>1. PICK to \in {"lock", "net"} : req' = [req EXCEPT ![r].pc = to]
      BY <2>1 DEF ReadBlock, PollTimeout, Goto
    <3> QED BY <3>1, GoesTo DEF LockInv, TypeOK
  <2>2. CASE NetAnswer(r)
    <3> DEFINE q == [req[r] EXCEPT !.pc = "got", !.origin = "net", !.data = block[r]]
    <3>1. req[r] \in Request /\ req' = [req EXCEPT ![r] = q]
      BY <2>2 DEF NetAnswer, LockInv, TypeOK
    <3>2. q \in Request BY <3>1, Known DEF Request
    <3>3. q.pc = "got" BY <3>1 DEF Request
    <3> HIDE DEF q
    <3> QED BY <3>1, <3>2, <3>3, Becomes DEF LockInv
  <2>3. CASE WriteBlock(r)
    <3> DEFINE q == [req[r] EXCEPT !.pc = "lock", !.task = "write"]
    <3>1. req[r] \in Request /\ req' = [req EXCEPT ![r] = q]
      BY <2>3 DEF WriteBlock, LockInv, TypeOK
    <3>2. q \in Request BY <3>1 DEF Request
    <3>3. q.pc = "lock" BY <3>1 DEF Request
    <3> HIDE DEF q
    <3> QED BY <3>1, <3>2, <3>3, Becomes DEF LockInv
  <2> QED BY <2>1, <2>2, <2>3
<1>3. RequestTypes' BY <1>1, <1>2 DEF LockInv, TypeOK, RequestTypes, lockVars
<1> QED BY <1>1, <1>2, <1>3, OneMoves DEF Section, lockVars

-------------------------------------------------------------------------------
LEMMA LockStep == LockInv /\ [Next]_vars => LockInv'
<1> SUFFICES ASSUME LockInv, [Next]_vars PROVE LockInv' OBVIOUS
<1>1. ASSUME NEW p \in Procs, MakeDirectory(p) \/ Start(p) PROVE LockInv'
  BY <1>1, Starts
<1>2. ASSUME NEW p \in Procs, Crash(p) PROVE LockInv' BY <1>2, Crashes
<1>3. ASSUME NEW r \in Reqs, LockFlag(r) PROVE LockInv' BY <1>3, TakesFlag
<1>4. ASSUME NEW r \in Reqs, LockFile(r) PROVE LockInv' BY <1>4, TakesFile
<1>5. ASSUME NEW r \in Reqs, Poll(r) PROVE LockInv' BY <1>5, Waits
<1>6. ASSUME NEW r \in Reqs, ReadBlock(r) \/ PollTimeout(r) PROVE LockInv'
  BY <1>6, GoesOn
<1>7. ASSUME NEW r \in Reqs, Step(r) PROVE LockInv'
  BY <1>7, Leaves, Scans, ScansNothing, Puts, Updates, Stores, Hits, Waits, GoesOn
  DEF Step
<1>8. CASE UNCHANGED vars
  BY <1>8 DEF LockInv, TypeOK, FileOwned, FlagOwned, ThenKnown, WayKnown, vars,
              startVars, lockVars, at
<1> QED BY <1>1, <1>2, <1>3, <1>4, <1>5, <1>6, <1>7, <1>8 DEF Next

(* The invariant of the lock is kept by every step, a process that ends in *)
(* the middle of lock or unlock included: fileLock and _writers name the   *)
(* request that is in the bin, with either kind of lock.                   *)
THEOREM LockInvariant == Spec => []LockInv
  BY Initially, LockStep, PTL DEF Spec

(* Every variable keeps its type: an update never leaves an entry without  *)
(* a status, and a request knows its entry when it changes or reads it.    *)
THEOREM TypeCorrect == Spec => []TypeOK
<1>1. LockInv => TypeOK BY DEF LockInv
<1> QED BY <1>1, LockInvariant, PTL

(* Two requests are never in the bin together, whichever processes they    *)
(* belong to and whichever processes were killed (writerLock, writerUnlock *)
(* of both kinds of lock).                                                 *)
THEOREM Exclusion == Spec => []OneInBin
<1>1. LockInv => OneInBin BY DEF LockInv, FileOwned, OneInBin, InBin, Section
<1> QED BY <1>1, LockInvariant, PTL

-------------------------------------------------------------------------------
(* What a bin serves.  The requests of a process share its copy of a bin,  *)
(* and those that wait read over it without a lock.  A poll that reads     *)
(* over a change before it is on disk undoes it, and from then on an entry *)
(* may be given up while it is used.  What follows is what holds until     *)
(* then, in every behaviour, however many requests of a process ask for a  *)
(* block: before the first change is lost, no poll touched what a request  *)
(* in the bin works on, although it is the same memory, and an entry in    *)
(* use was never given to another block.                                   *)

(* Who counts in an entry: a read from the time that its reservation is on *)
(* disk, until what was written back is on disk.                           *)
Counted(r) ==
  /\ req[r].reserved = 1 /\ req[r].pc # "done"
  /\ IF req[r].task = "read" THEN req[r].pc # "store" ELSE req[r].pc # "unlock"
Users(i) == {r \in Reqs : Counted(r) /\ req[r].way = i}

(* Who will take itself off again: what the network answered stays.        *)
Returning(r) ==
  \/ req[r].origin = "cache" \/ req[r].pc \in {"hit", "poll", "fetch"}
  \/ req[r].pc = "unlock" /\ req[r].then = "poll"
Returns(i) == {r \in Users(i) : Returning(r)}

(* What a request is at, and what it has reserved by then.                 *)
Phase(q) ==
  /\ q.pc \in {"put", "done"} => q.task = "write"
  /\ q.pc \in {"idle", "hit", "poll", "fetch", "net", "got"} => q.task = "read"
  /\ q.pc \in {"unlock", "store"} => (q.then = "done" <=> q.task = "write")
  /\ q.pc = "store" => q.then # "exit"
  /\ q.pc = "unlock" /\ q.then = "got" => q.origin = "cache"
  /\ q.task = "read" /\ q.pc \in {"idle", "lock", "filelock", "scan", "update"}
       => q.reserved = 0 /\ q.origin = "net"
  /\ \/ q.pc \in {"hit", "poll", "fetch"} \/ q.origin = "cache"
     \/ q.task = "read" /\ q.pc = "store"
     \/ q.pc = "unlock" /\ q.then = "poll"
     => q.reserved = 1
  /\ \/ q.pc \in {"hit", "poll", "fetch", "net"}
     \/ q.task = "read" /\ q.pc = "store"
     \/ q.pc = "unlock" /\ q.then \in {"net", "poll"}
     => q.origin = "net"
  /\ q.pc = "gone" => q.reserved = 0
  /\ \/ q.pc \in {"idle", "lock", "filelock", "scan", "net", "got"}
     \/ q.pc = "unlock" /\ q.then = "net"
     => q.reserved = 1 \/ q.way = None
PhaseKnown == \A r \in Reqs : Phase(req[r])

(* An entry that was taken is never given up, since a count never comes    *)
(* back to nothing; the entries are taken in their order.                  *)
EntryOK(i) ==
  /\ disk[i].status \in {"EMPTY", "RES", "AVAIL"}
  /\ disk[i].status = "EMPTY" <=> disk[i].blk = None
  /\ disk[i].status = "EMPTY" => disk[i].active = 0
  /\ disk[i].status = "AVAIL" => data[i] = disk[i].blk
EntriesOK ==
  /\ \A i \in Ways : EntryOK(i)
  /\ \A i, j \in Ways : disk[i].blk = disk[j].blk /\ disk[i].blk # None => i = j
  /\ \A i, j \in Ways : i < j /\ disk[i].status = "EMPTY" => disk[j].status = "EMPTY"

CountsOK ==
  \A i \in Ways :
    /\ IsFiniteSet(Users(i)) /\ Cardinality(Users(i)) <= disk[i].active
    /\ disk[i].status # "EMPTY" => Cardinality(Returns(i)) < disk[i].active

(* Who counts in an entry finds its block there, and has its data when it  *)
(* was told so.                                                            *)
FindsBlock(r) ==
  /\ Counted(r) => req[r].way \in Ways /\ disk[req[r].way].blk = block[r]
  /\ Counted(r) /\ (req[r].origin = "cache" \/ req[r].pc \in {"hit", "fetch"})
       => disk[req[r].way].status = "AVAIL"
  /\ req[r].data \in {None, block[r]}
UsersFindBlock == \A r \in Reqs : FindsBlock(r)

(* Who writes without a reservation found the bin full.                    *)
Unreserved(q) ==
  q.reserved = 0 /\ \/ q.task = "write" \/ q.pc \in {"net", "got"}
                    \/ q.pc = "unlock" /\ q.then = "net"
BinWasFull ==
  \A r \in Reqs, i \in Ways : Unreserved(req[r]) => disk[i].status # "EMPTY"

(* What a request in the bin changes is what it found on disk, and no      *)
(* other request of its process wrote over its copy.                       *)
Takes(r) ==
  LET d == disk[req[r].way]
  IN  /\ \/ d.blk = block[r]
         \/ /\ d.status = "EMPTY"
            /\ \A j \in Ways : /\ disk[j].blk # block[r]
                               /\ disk[j].status = "EMPTY" => req[r].way <= j
      /\ Releasing(r) => d.status = "AVAIL"
      /\ req[r].task = "write" /\ req[r].pc # "put" => data[req[r].way] = block[r]
Changed(r, d, e) ==
  /\ e.blk = block[r]
  /\ IF req[r].task = "read"
     THEN /\ e.active = d.active + 1
          /\ e.status = IF d.status = "AVAIL" THEN "AVAIL" ELSE "RES"
          /\ req[r].then = CASE d.status = "AVAIL" -> "hit" [] d.status = "RES" -> "poll"
                             [] OTHER -> "net"
     ELSE /\ e.active = IF Releasing(r) THEN d.active - 1 ELSE d.active + req[r].reserved
          /\ e.status = "AVAIL"
HasCopy(r) ==
  LET i == req[r].way
  IN  /\ req[r].pc \in {"put", "update"} => Takes(r) /\ copy[proc[r]][i] = disk[i]
      /\ req[r].pc = "put" => disk[i].status # "AVAIL"
      /\ req[r].pc = "unlock" /\ req[r].task = "write" /\ i # None
           => disk[i].status = "AVAIL" /\ disk[i].blk = block[r]
      /\ req[r].pc = "store" => Takes(r) /\ Changed(r, disk[i], copy[proc[r]][i])
CopySound == \A r \in Reqs : HasCopy(r)

BinInv == /\ LockInv /\ PhaseKnown /\ EntriesOK /\ CountsOK /\ UsersFindBlock
          /\ BinWasFull /\ CopySound

LEMMA BinInitially == Init => BinInv
<1> SUFFICES ASSUME Init PROVE BinInv OBVIOUS
<1>1. /\ \A r \in Reqs : req[r] = NewReq
      /\ \A i \in Ways : disk[i] = Empty
  BY DEF Init
<1>2. LockInv BY Initially
<1>3. PhaseKnown BY <1>1 DEF PhaseKnown, Phase, NewReq
<1>4. EntriesOK BY <1>1, FileCacheConstants DEF EntriesOK, EntryOK, Empty
<1>5. \A r \in Reqs : ~Counted(r) BY <1>1 DEF Counted, NewReq
<1>6. CountsOK
  <2>1. \A i \in Ways : Users(i) = {} /\ Returns(i) = {} BY <1>5 DEF Users, Returns
  <2> QED BY <1>1, <2>1, FS_EmptySet DEF CountsOK, Empty
<1>7. UsersFindBlock BY <1>1, <1>5 DEF UsersFindBlock, FindsBlock, NewReq
<1>8. BinWasFull BY <1>1 DEF BinWasFull, Unreserved, NewReq
<1>9. CopySound BY <1>1 DEF CopySound, HasCopy, NewReq
<1> QED BY <1>2, <1>3, <1>4, <1>6, <1>7, <1>8, <1>9 DEF BinInv

(* A set of numbers that is not empty has a least one.                     *)
LEMMA LeastExists ==
  ASSUME NEW S, S \subseteq Nat, S # {}
  PROVE  \E j \in S : \A k \in S : j <= k
<1> DEFINE R == OpToRel(<, Nat)
<1>1. IsWellFoundedOn(R, Nat)
  BY NatLessThanWellFounded
<1>2. PICK j \in S : \A k \in S : <<k, j>> \notin R
  <2> HIDE DEF R
  <2> QED
    BY <1>1, WFMin
<1>3. \A k \in S : ~(k < j)
  BY <1>2 DEF OpToRel
<1> HIDE DEF R
<1> QED
  BY <1>2, <1>3

(* Parts of the type that the steps below need.                            *)
LEMMA Types ==
  ASSUME BinInv
  PROVE  /\ \A i \in Ways : /\ disk[i].active \in Int /\ i \in Int
                            /\ disk[i].blk \in Blocks \cup {None}
         /\ \A r \in Reqs : req[r] \in Request
  BY DEF BinInv, LockInv, TypeOK, Bin, Ways

LEMMA NumberOfUsers ==
  ASSUME BinInv, NEW i \in Ways
  PROVE  /\ IsFiniteSet(Users(i)) /\ IsFiniteSet(Returns(i))
         /\ Cardinality(Users(i)) \in Nat /\ Cardinality(Returns(i)) \in Nat
         /\ Cardinality(Returns(i)) <= Cardinality(Users(i))
         /\ Returns(i) \subseteq Users(i)
<1>1. IsFiniteSet(Users(i)) BY DEF BinInv, CountsOK
<1>2. Returns(i) \subseteq Users(i) BY DEF Returns
<1> QED BY <1>1, <1>2, FS_Subset, FS_CardinalityType

(* An entry that was taken is not given up again.                          *)
LEMMA NeverFree ==
  ASSUME BinInv, NEW i \in Ways, disk[i].status # "EMPTY"
  PROVE  disk[i].active > 0
  BY NumberOfUsers, Types DEF BinInv, CountsOK

(* A request takes the entry with its block, or the first one that is      *)
(* empty if no entry has the block.                                        *)
LEMMA FindsEntry ==
  ASSUME BinInv, NEW r \in Reqs, NEW i \in Found(r)
  PROVE  /\ i \in Ways
         /\ \/ disk[i].blk = block[r]
            \/ /\ disk[i].status = "EMPTY"
               /\ \A j \in Ways : /\ disk[j].blk # block[r]
                                  /\ disk[j].status = "EMPTY" => i <= j
         /\ Releasing(r) => disk[i].status = "AVAIL" /\ disk[i].blk = block[r]
<1>1. i \in Ways BY DEF Found, GetBlock, OldestBlock
<1>2. CASE Releasing(r) BY <1>1, <1>2 DEF Found, GetBlock
<1>3. CASE ~Releasing(r)
  <2> DEFINE stop == {j \in Ways : disk[j].blk = block[r] \/ disk[j].status = "EMPTY"}
  <2>1. CASE stop = {}
    <3>1. disk[i].status = "AVAIL" /\ disk[i].active = 0
      BY <1>3, <2>1 DEF Found, OldestBlock
    <3> QED BY <1>1, <3>1, NeverFree
  <2>2. CASE stop # {}
    <3>1. i \in stop /\ \A j \in stop : i <= j BY <1>3, <2>2 DEF Found, OldestBlock
    <3>2. ASSUME disk[i].blk # block[r], NEW j \in Ways, disk[j].blk = block[r] PROVE FALSE
      <4>1. disk[i].status = "EMPTY" /\ i <= j /\ i # j BY <3>1, <3>2
      <4>2. disk[j].status = "EMPTY" BY <1>1, <3>2, <4>1, Types DEF BinInv, EntriesOK
      <4> QED BY <3>2, <4>2, Known, FileCacheConstants DEF BinInv, EntriesOK, EntryOK
    <3> QED BY <1>1, <1>3, <3>1, <3>2
  <2> QED BY <2>1, <2>2
<1> QED BY <1>2, <1>3

(* A request that counts in an entry finds that one again.                 *)
LEMMA FindsItsEntry ==
  ASSUME BinInv, NEW r \in Reqs, At(r, "scan"), req[r].reserved = 1
  PROVE  Found(r) = {req[r].way}
<1> DEFINE w == req[r].way
<1>1. req[r].task = "write" BY Types DEF At, BinInv, PhaseKnown, Phase, Request
<1>2. Counted(r) BY <1>1 DEF Counted, At
<1>3. w \in Ways /\ disk[w].blk = block[r] BY <1>2 DEF BinInv, UsersFindBlock, FindsBlock
<1>4. \A i \in Found(r) : i = w
  BY <1>3, FindsEntry, Known, FileCacheConstants DEF BinInv, EntriesOK
<1>5. w \in Found(r)
  <2>1. CASE Releasing(r)
    <3>1. disk[w].status = "AVAIL"
      BY <1>2, <2>1 DEF Releasing, BinInv, UsersFindBlock, FindsBlock
    <3>2. \A j \in Ways : disk[j].blk = block[r] => j = w
      BY <1>3, Known, FileCacheConstants DEF BinInv, EntriesOK
    <3>3. w <= w BY <1>3, Types
    <3> QED BY <1>3, <2>1, <3>1, <3>2, <3>3 DEF Found, GetBlock
  <2>2. CASE ~Releasing(r)
    <3> DEFINE stop == {j \in Ways : disk[j].blk = block[r] \/ disk[j].status = "EMPTY"}
    <3>1. w \in stop BY <1>3
    <3>2. \A j \in stop : w <= j
      <4> SUFFICES ASSUME NEW j \in stop, ~(w <= j) PROVE FALSE OBVIOUS
      <4>1. j < w BY <1>3, Types
      <4>2. disk[j].blk # block[r]
        BY <1>3, <4>1, Types, Known, FileCacheConstants DEF BinInv, EntriesOK
      <4>3. disk[w].status = "EMPTY" BY <1>3, <4>1, <4>2 DEF BinInv, EntriesOK
      <4> QED BY <1>3, <4>3, Known, FileCacheConstants DEF BinInv, EntriesOK, EntryOK
    <3> QED BY <2>2, <3>1, <3>2 DEF Found, OldestBlock
  <2> QED BY <2>1, <2>2
<1> QED BY <1>4, <1>5

-------------------------------------------------------------------------------
(* The counts of a step that does not write an entry to disk: nobody gets  *)
(* to be counted, and nobody who stays will leave after all.               *)
LEMMA CountsStay ==
  ASSUME BinInv, disk' = disk,
         \A s \in Reqs : Counted(s)' => /\ Counted(s) /\ req'[s].way = req[s].way
                                        /\ Returning(s)' => Returning(s)
  PROVE  CountsOK'
<1> SUFFICES ASSUME NEW i \in Ways
             PROVE  /\ IsFiniteSet(Users(i)') /\ Cardinality(Users(i)') <= disk[i].active
                    /\ disk[i].status # "EMPTY" => Cardinality(Returns(i)') < disk[i].active
  BY DEF CountsOK
<1>1. Users(i)' \subseteq Users(i) /\ Returns(i)' \subseteq Returns(i)
  BY DEF Users, Returns
<1>2. /\ IsFiniteSet(Users(i)') /\ Cardinality(Users(i)') <= Cardinality(Users(i))
      /\ IsFiniteSet(Returns(i)') /\ Cardinality(Returns(i)') <= Cardinality(Returns(i))
  BY <1>1, NumberOfUsers, FS_Subset
<1>3. Cardinality(Users(i)') \in Nat /\ Cardinality(Returns(i)') \in Nat
  BY <1>2, FS_CardinalityType
<1> QED BY <1>2, <1>3, NumberOfUsers, Types DEF BinInv, CountsOK

(* A step of r that leaves the disk and the data alone, and what others in *)
(* the bin have in their copies.                                           *)
LEMMA OneGoesOn ==
  ASSUME BinInv, LockInv', NEW r \in Reqs, UNCHANGED <<disk, data>>,
         \A s \in Reqs \ {r} :
           /\ req'[s] = req[s]
           /\ req[s].pc \in {"put", "update", "store"}
                => copy'[proc[s]][req[s].way] = copy[proc[s]][req[s].way],
         Phase(req'[r]), FindsBlock(r)', HasCopy(r)',
         \A i \in Ways : Unreserved(req'[r]) => disk[i].status # "EMPTY",
         Counted(r)' => /\ Counted(r) /\ req'[r].way = req[r].way
                        /\ Returning(r)' => Returning(r)
  PROVE  BinInv'
<1>1. PhaseKnown' BY DEF BinInv, PhaseKnown
<1>2. EntriesOK' BY DEF BinInv, EntriesOK, EntryOK
<1>3. CountsOK'
  <2>1. \A s \in Reqs : Counted(s)' => /\ Counted(s) /\ req'[s].way = req[s].way
                                       /\ Returning(s)' => Returning(s)
    BY DEF Counted, Returning
  <2> QED BY <2>1, CountsStay
<1>4. UsersFindBlock' BY DEF BinInv, UsersFindBlock, FindsBlock, Counted
<1>5. BinWasFull' BY DEF BinInv, BinWasFull
<1>6. CopySound'
  <2> SUFFICES ASSUME NEW s \in Reqs \ {r} PROVE HasCopy(s)' BY DEF CopySound
  <2>1. HasCopy(s) /\ req'[s] = req[s] BY DEF BinInv, CopySound
  <2> QED BY <2>1 DEF HasCopy, Takes, Changed, Releasing
<1> QED BY <1>1, <1>2, <1>3, <1>4, <1>5, <1>6 DEF BinInv

(* The same outside of the bin, and without a change of copies.            *)
LEMMA OneGoesPast ==
  ASSUME BinInv, LockInv', NEW r \in Reqs, UNCHANGED <<disk, data, copy>>,
         \A s \in Reqs \ {r} : req'[s] = req[s],
         req'[r].pc \notin {"put", "update", "store", "unlock"},
         Phase(req'[r]), FindsBlock(r)',
         \A i \in Ways : Unreserved(req'[r]) => disk[i].status # "EMPTY",
         Counted(r)' => /\ Counted(r) /\ req'[r].way = req[r].way
                        /\ Returning(r)' => Returning(r)
  PROVE  BinInv'
<1>1. HasCopy(r)' BY DEF HasCopy
<1> QED BY <1>1, OneGoesOn

(* The constructors, and steps that change nothing, do not touch the bin.  *)
LEMMA BinIsLeft ==
  ASSUME BinInv, LockInv', UNCHANGED <<disk, data, copy, req>>
  PROVE  BinInv'
<1>1. PhaseKnown' /\ EntriesOK' BY DEF BinInv, PhaseKnown, EntriesOK, EntryOK
<1>2. CountsOK' BY CountsStay DEF Counted, Returning
<1>3. UsersFindBlock' /\ BinWasFull'
  BY DEF BinInv, UsersFindBlock, FindsBlock, Counted, BinWasFull
<1>4. CopySound' BY DEF BinInv, CopySound, HasCopy, Takes, Changed, Releasing
<1> QED BY <1>1, <1>2, <1>3, <1>4 DEF BinInv

(* The requests of a process that died are not counted any more; its copy  *)
(* is not used, and the disk is as it was between two of its steps.        *)
LEMMA BinAfterCrash ==
  ASSUME BinInv, LockInv', NEW p \in Procs, Crash(p)
  PROVE  BinInv'
<1>1. UNCHANGED <<disk, data, copy>> BY DEF Crash
<1>2. \A s \in Reqs : req'[s] = [NewReq EXCEPT !.pc = "gone"] \/ req'[s] = req[s]
  BY DEF Crash, Gone
<1>3. \A s \in Reqs : req'[s] # req[s]
        => /\ req'[s].pc = "gone" /\ req'[s].reserved = 0 /\ req'[s].task = "read"
           /\ req'[s].data = None /\ req'[s].origin = "net"
  BY <1>2 DEF NewReq
<1>4. PhaseKnown' BY <1>3 DEF BinInv, PhaseKnown, Phase
<1>5. EntriesOK' BY <1>1 DEF BinInv, EntriesOK, EntryOK
<1>6. CountsOK' BY <1>1, <1>3, CountsStay DEF Counted, Returning
<1>7. UsersFindBlock'
  BY <1>1, <1>3 DEF BinInv, UsersFindBlock, FindsBlock, Counted
<1>8. BinWasFull' BY <1>1, <1>3 DEF BinInv, BinWasFull, Unreserved
<1>9. CopySound'
  <2> SUFFICES ASSUME NEW s \in Reqs PROVE HasCopy(s)' BY DEF CopySound
  <2>1. CASE req'[s] # req[s] BY <1>3, <2>1 DEF HasCopy
  <2>2. CASE req'[s] = req[s]
    BY <1>1, <2>2 DEF BinInv, CopySound, HasCopy, Takes, Changed, Releasing
  <2> QED BY <2>1, <2>2
<1> QED BY <1>4, <1>5, <1>6, <1>7, <1>8, <1>9 DEF BinInv

-------------------------------------------------------------------------------
(* Nobody else is in the bin, or about to leave it.                        *)
LEMMA AloneInBin ==
  ASSUME BinInv, NEW r \in Reqs, req[r].pc \in Section
  PROVE  \A s \in Reqs \ {r} : req[s].pc \notin Section
  BY DEF BinInv, LockInv, FileOwned

(* What a request of a given place is known to be.                         *)
LEMMA IsKnown ==
  ASSUME BinInv, NEW r \in Reqs
  PROVE  /\ Phase(req[r]) /\ FindsBlock(r) /\ HasCopy(r) /\ req[r] \in Request
         /\ \A i \in Ways : Unreserved(req[r]) => disk[i].status # "EMPTY"
  BY Types DEF BinInv, PhaseKnown, UsersFindBlock, CopySound, BinWasFull

(* Steps that only move a request on.                                      *)
LEMMA BinPassed ==
  ASSUME BinInv, LockInv', NEW r \in Reqs,
         \/ ReadBlock(r) \/ LockFlag(r) \/ LockFile(r) \/ PollTimeout(r)
  PROVE  BinInv'
<1>1. PICK to \in {"lock", "filelock", "scan", "net"} :
        /\ req' = [req EXCEPT ![r].pc = to]
        /\ \/ req[r].pc = "idle" /\ to = "lock"
           \/ req[r].pc = "lock" /\ to = "filelock"
           \/ req[r].pc = "filelock" /\ to = "scan"
           \/ req[r].pc = "poll" /\ to = "net"
  BY DEF ReadBlock, LockFlag, LockFile, PollTimeout, Goto, At
<1>2. UNCHANGED <<disk, data, copy>>
  BY DEF ReadBlock, LockFlag, LockFile, PollTimeout, OnlyReq
<1> DEFINE q == req[r]
           n == req'[r]
<1>3. /\ n.pc = to /\ n.task = q.task /\ n.then = q.then /\ n.way = q.way
      /\ n.origin = q.origin /\ n.reserved = q.reserved /\ n.data = q.data
      /\ \A s \in Reqs \ {r} : req'[s] = req[s]
  BY <1>1, IsKnown DEF BinInv, LockInv, TypeOK, Request
<1>4. Phase(n) BY <1>1, <1>3, IsKnown DEF Phase, Request
<1>5. Counted(r)' => Counted(r) BY <1>1, <1>3, IsKnown DEF Counted, Phase
<1>6. FindsBlock(r)' BY <1>1, <1>2, <1>3, <1>5, IsKnown DEF FindsBlock
<1>7. Returning(r)' => Returning(r) BY <1>1, <1>3 DEF Returning
<1>8. Unreserved(n) => Unreserved(q) BY <1>1, <1>3, IsKnown DEF Unreserved, Phase
<1> QED BY <1>1, <1>2, <1>3, <1>4, <1>5, <1>6, <1>7, <1>8, IsKnown, OneGoesPast

LEMMA BinAnswered ==
  ASSUME BinInv, LockInv', NEW r \in Reqs, NetAnswer(r)
  PROVE  BinInv'
<1> DEFINE q == req[r]
           n == req'[r]
<1>1. UNCHANGED <<disk, data, copy>> /\ q.pc = "net" BY DEF NetAnswer, OnlyReq, At
<1>2. /\ n.pc = "got" /\ n.task = q.task /\ n.then = q.then /\ n.way = q.way
      /\ n.origin = "net" /\ n.reserved = q.reserved /\ n.data = block[r]
      /\ \A s \in Reqs \ {r} : req'[s] = req[s]
  BY IsKnown DEF NetAnswer, BinInv, LockInv, TypeOK, Request
<1>3. Phase(n) BY <1>1, <1>2, IsKnown DEF Phase
<1>4. Counted(r)' => Counted(r) BY <1>1, <1>2 DEF Counted
<1>5. FindsBlock(r)' BY <1>1, <1>2, <1>4, IsKnown DEF FindsBlock
<1>6. Returning(r)' => Returning(r) BY <1>2 DEF Returning
<1>7. Unreserved(n) => Unreserved(q) BY <1>1, <1>2 DEF Unreserved
<1> QED BY <1>1, <1>2, <1>3, <1>4, <1>5, <1>6, <1>7, IsKnown, OneGoesPast

LEMMA BinToWrite ==
  ASSUME BinInv, LockInv', NEW r \in Reqs, WriteBlock(r)
  PROVE  BinInv'
<1> DEFINE q == req[r]
           n == req'[r]
<1>1. UNCHANGED <<disk, data, copy>> /\ q.pc = "got" BY DEF WriteBlock, OnlyReq, At
<1>2. /\ n.pc = "lock" /\ n.task = "write" /\ n.then = q.then /\ n.way = q.way
      /\ n.origin = q.origin /\ n.reserved = q.reserved /\ n.data = q.data
      /\ \A s \in Reqs \ {r} : req'[s] = req[s]
  BY IsKnown DEF WriteBlock, BinInv, LockInv, TypeOK, Request
<1>3. Phase(n) BY <1>1, <1>2, IsKnown DEF Phase
<1>4. Counted(r)' => Counted(r) BY <1>1, <1>2 DEF Counted
<1>5. FindsBlock(r)' BY <1>1, <1>2, <1>4, IsKnown DEF FindsBlock
<1>6. Returning(r)' => Returning(r) BY <1>2 DEF Returning
<1>7. Unreserved(n) => Unreserved(q) BY <1>1, <1>2 DEF Unreserved
<1> QED BY <1>1, <1>2, <1>3, <1>4, <1>5, <1>6, <1>7, IsKnown, OneGoesPast

LEMMA BinUnlocked ==
  ASSUME BinInv, LockInv', NEW r \in Reqs, Unlock(r)
  PROVE  BinInv'
<1> DEFINE q == req[r]
           n == req'[r]
<1>1. UNCHANGED <<disk, data, copy>> /\ q.pc = "unlock" BY DEF Unlock, At
<1>2. /\ n.pc = q.then /\ n.task = q.task /\ n.then = q.then /\ n.way = q.way
      /\ n.origin = q.origin /\ n.reserved = q.reserved /\ n.data = q.data
      /\ \A s \in Reqs \ {r} : req'[s] = req[s]
  <2>1. q.then \in {"net", "done", "got", "poll"} BY <1>1 DEF BinInv, LockInv, ThenKnown
  <2>2. req' = [req EXCEPT ![r].pc = q.then] BY DEF Unlock, Goto
  <2> QED BY <2>1, <2>2, IsKnown DEF BinInv, LockInv, TypeOK, Request
<1>3. q.then \in {"net", "done", "got", "poll"} BY <1>1 DEF BinInv, LockInv, ThenKnown
<1>4. q.task \in {"read", "write"} /\ Phase(q) BY IsKnown DEF Request
<1>5. Phase(n) BY <1>1, <1>2, <1>3, <1>4 DEF Phase
<1>6. Counted(r)' => Counted(r) BY <1>1, <1>2, <1>3, <1>4 DEF Counted, Phase
<1>7. FindsBlock(r)' BY <1>1, <1>2, <1>3, <1>6, IsKnown DEF FindsBlock
<1>8. Returning(r)' => Returning(r)
  <2>1. n.pc \notin {"hit", "fetch", "unlock"} BY <1>2, <1>3
  <2>2. n.pc = "poll" => q.pc = "unlock" /\ q.then = "poll" BY <1>1, <1>2
  <2>3. n.origin = q.origin BY <1>2
  <2> HIDE DEF n
  <2> QED BY <2>1, <2>2, <2>3 DEF Returning, n
<1>9. Unreserved(n) => Unreserved(q) BY <1>1, <1>2, <1>3, <1>4 DEF Unreserved, Phase
<1> QED BY <1>1, <1>2, <1>3, <1>5, <1>6, <1>7, <1>8, <1>9, IsKnown, OneGoesPast

(* A hit reads the data of its entry, which is that of its block.          *)
LEMMA BinHit ==
  ASSUME BinInv, LockInv', NEW r \in Reqs, ReadHit(r)
  PROVE  BinInv'
<1> DEFINE q == req[r]
           n == req'[r]
<1>1. UNCHANGED <<disk, data, copy>> /\ q.pc = "hit" BY DEF ReadHit, OnlyReq, At
<1>2. /\ n.pc = "unlock" /\ n.task = q.task /\ n.then = "got" /\ n.way = q.way
      /\ n.origin = "cache" /\ n.reserved = q.reserved /\ n.data = data[q.way]
      /\ \A s \in Reqs \ {r} : req'[s] = req[s]
  BY IsKnown DEF ReadHit, BinInv, LockInv, TypeOK, Request
<1>3. q.task = "read" /\ q.reserved = 1 BY <1>1, IsKnown DEF Phase
<1>4. Phase(n) BY <1>2, <1>3 DEF Phase
<1>5. Counted(r) BY <1>1, <1>3 DEF Counted
<1>6. data[q.way] = block[r]
  BY <1>1, <1>5, IsKnown DEF FindsBlock, BinInv, EntriesOK, EntryOK
<1>7. FindsBlock(r)' BY <1>1, <1>2, <1>5, <1>6, IsKnown DEF FindsBlock
<1>8. Returning(r) BY <1>1 DEF Returning
<1>9. HasCopy(r)' BY <1>2, <1>3 DEF HasCopy
<1>10. ~Unreserved(n) BY <1>2, <1>3 DEF Unreserved
<1> QED BY <1>1, <1>2, <1>4, <1>5, <1>7, <1>8, <1>9, <1>10, OneGoesOn

(* Polling writes into a copy that somebody in the bin may use, but not    *)
(* into the entry that is used: that one has another block.                *)
LEMMA PollsElsewhere ==
  ASSUME BinInv, NothingLost', NEW r \in Reqs, Counted(r), Refreshed(r),
         NEW s \in Reqs \ {r}, req[s].pc \in {"put", "update", "store"}
  PROVE  copy'[proc[s]][req[s].way] = copy[proc[s]][req[s].way]
<1>1. /\ req[r].way \in Ways /\ disk[req[r].way].blk = block[r]
  BY IsKnown DEF FindsBlock
<1>2. Takes(s) BY IsKnown DEF HasCopy
<1>3. req[s].way \in Ways BY DEF BinInv, LockInv, WayKnown
<1>4. CASE proc[s] # proc[r]
  BY <1>4, Known DEF Refreshed, BinInv, LockInv, TypeOK
<1>5. CASE proc[s] = proc[r] /\ req[s].way = req[r].way
  <2>1. copy'[proc[s]][req[s].way] = disk[req[s].way]
    BY <1>3, <1>5, Known DEF Refreshed, BinInv, LockInv, TypeOK, Bin
  <2>2. CASE req[s].pc \in {"put", "update"} BY <2>1, <2>2, IsKnown DEF HasCopy
  <2>3. CASE req[s].pc = "store"
    <3>1. ~Overwrites(r)
      <4> SUFFICES ASSUME Overwrites(r) PROVE FALSE OBVIOUS
      <4>1. lost' = [lost EXCEPT ![req[r].way] = lost[req[r].way] + 1] BY DEF Refreshed
      <4>2. lost[req[r].way] \in Nat /\ lost'[req[r].way] = lost[req[r].way] + 1
        BY <1>1, <4>1 DEF BinInv, LockInv, TypeOK
      <4> QED BY <1>1, <4>2 DEF NothingLost
    <3> QED BY <1>5, <2>1, <2>3, <3>1 DEF Overwrites, At
  <2> QED BY <2>2, <2>3
<1>6. CASE proc[s] = proc[r] /\ req[s].way # req[r].way
  BY <1>1, <1>3, <1>6, Known DEF Refreshed, BinInv, LockInv, TypeOK, Bin
<1> QED BY <1>4, <1>5, <1>6

LEMMA BinPolled ==
  ASSUME BinInv, NothingLost', LockInv', NEW r \in Reqs, Poll(r)
  PROVE  BinInv'
<1> DEFINE q == req[r]
           n == req'[r]
<1>1. UNCHANGED <<disk, data>> /\ q.pc = "poll" /\ Refreshed(r) BY DEF Poll, At
<1>2. /\ n.pc = "poll" \/ (n.pc = "fetch" /\ disk[q.way].status = "AVAIL")
      /\ n.task = q.task /\ n.then = q.then /\ n.way = q.way
      /\ n.origin = q.origin /\ n.reserved = q.reserved /\ n.data = q.data
      /\ \A s \in Reqs \ {r} : req'[s] = req[s]
  <2>1. CASE disk[q.way].status = "AVAIL"
    <3>1. req' = [req EXCEPT ![r].pc = "fetch"] BY <2>1 DEF Poll, Goto
    <3> QED BY <2>1, <3>1, IsKnown DEF BinInv, LockInv, TypeOK, Request
  <2>2. CASE disk[q.way].status # "AVAIL"
    BY <1>1, <2>2 DEF Poll
  <2> QED BY <2>1, <2>2
<1>3. q.task = "read" /\ q.reserved = 1 /\ q.origin = "net" BY <1>1, IsKnown DEF Phase
<1>4. Counted(r) BY <1>1, <1>3 DEF Counted
<1>5. Phase(n) BY <1>2, <1>3 DEF Phase
<1>6. FindsBlock(r)' BY <1>1, <1>2, <1>3, <1>4, IsKnown DEF FindsBlock
<1>7. HasCopy(r)' BY <1>2 DEF HasCopy
<1>8. Returning(r) BY <1>1 DEF Returning
<1>9. ~Unreserved(n) BY <1>2, <1>3 DEF Unreserved
<1> QED BY <1>1, <1>2, <1>4, <1>5, <1>6, <1>7, <1>8, <1>9, PollsElsewhere, OneGoesOn

(* What was waited for is still there when it is read: the entry counts    *)
(* its user, and an available one stays so.                                *)
LEMMA BinFetched ==
  ASSUME BinInv, NothingLost', LockInv', NEW r \in Reqs, Fetch(r)
  PROVE  BinInv'
<1> DEFINE q == req[r]
           n == req'[r]
<1>1. UNCHANGED <<disk, data>> /\ q.pc = "fetch" /\ Refreshed(r) BY DEF Fetch, At
<1>2. /\ n.pc = "got" /\ n.task = q.task /\ n.then = q.then /\ n.way = q.way
      /\ n.origin = "cache" /\ n.reserved = q.reserved /\ n.data = data[q.way]
      /\ \A s \in Reqs \ {r} : req'[s] = req[s]
  BY IsKnown DEF Fetch, BinInv, LockInv, TypeOK, Request
<1>3. q.task = "read" /\ q.reserved = 1 BY <1>1, IsKnown DEF Phase
<1>4. Counted(r) BY <1>1, <1>3 DEF Counted
<1>5. Phase(n) BY <1>2, <1>3 DEF Phase
<1>6. data[q.way] = block[r]
  BY <1>1, <1>4, IsKnown DEF FindsBlock, BinInv, EntriesOK, EntryOK
<1>7. FindsBlock(r)' BY <1>1, <1>2, <1>4, <1>6, IsKnown DEF FindsBlock
<1>8. HasCopy(r)' BY <1>2 DEF HasCopy
<1>9. Returning(r) BY <1>1 DEF Returning
<1>10. ~Unreserved(n) BY <1>2, <1>3 DEF Unreserved
<1> QED
  BY <1>1, <1>2, <1>4, <1>5, <1>7, <1>8, <1>9, <1>10, PollsElsewhere, OneGoesOn

-------------------------------------------------------------------------------
(* The search gives no entry up, so that the copy is the disk.             *)
LEMMA BinScanned ==
  ASSUME BinInv, LockInv', NEW r \in Reqs, Scan(r)
  PROVE  BinInv'
<1> DEFINE q == req[r]
           n == req'[r]
<1>1. UNCHANGED <<disk, data>> /\ q.pc = "scan" /\ At(r, "scan") BY DEF Scan, At
<1>2. PICK i \in Found(r) :
        /\ copy' = [copy EXCEPT ![proc[r]] =
             IF disk[i].status = "AVAIL" /\ disk[i].blk # block[r]
             THEN [disk EXCEPT ![i].status = "EVICT"] ELSE disk]
        /\ req' = [req EXCEPT ![r].way = i,
             ![r].pc = IF /\ req[r].task = "write"
                          /\ copy'[proc[r]][i].status # "AVAIL"
                       THEN "put" ELSE "update"]
  BY DEF Scan
<1>3. /\ i \in Ways
      /\ \/ disk[i].blk = block[r]
         \/ /\ disk[i].status = "EMPTY"
            /\ \A j \in Ways : /\ disk[j].blk # block[r]
                               /\ disk[j].status = "EMPTY" => i <= j
      /\ Releasing(r) => disk[i].status = "AVAIL" /\ disk[i].blk = block[r]
  BY <1>2, FindsEntry
<1>4. copy'[proc[r]] = disk
  BY <1>2, <1>3, Known DEF BinInv, LockInv, TypeOK
<1>5. /\ n.pc = IF q.task = "write" /\ disk[i].status # "AVAIL" THEN "put" ELSE "update"
      /\ n.task = q.task /\ n.then = q.then /\ n.way = i
      /\ n.origin = q.origin /\ n.reserved = q.reserved /\ n.data = q.data
      /\ \A s \in Reqs \ {r} : req'[s] = req[s]
  <2>1. PICK to \in {"put", "update"} :
          /\ to = IF q.task = "write" /\ disk[i].status # "AVAIL" THEN "put" ELSE "update"
          /\ req' = [req EXCEPT ![r].way = i, ![r].pc = to]
    BY <1>2, <1>4
  <2> QED BY <1>3, <2>1, IsKnown DEF BinInv, LockInv, TypeOK, Request
<1>6. Phase(q) /\ q.task \in {"read", "write"} /\ q.reserved \in {0, 1}
  BY IsKnown DEF Request
<1>7. Phase(n) BY <1>1, <1>5, <1>6 DEF Phase
<1>8. Counted(r)' => Counted(r) /\ i = q.way
  <2>1. Counted(r)' => Counted(r) /\ q.reserved = 1 BY <1>1, <1>5, <1>6 DEF Counted
  <2> QED BY <1>1, <2>1, FindsItsEntry
<1>9. FindsBlock(r)' BY <1>1, <1>5, <1>8, IsKnown DEF FindsBlock
<1>10. Returning(r)' => Returning(r) BY <1>1, <1>5 DEF Returning
<1>11. Unreserved(n) => Unreserved(q) BY <1>1, <1>5, <1>6 DEF Unreserved
<1>12. HasCopy(r)'
  <2>1. Releasing(r)' <=> Releasing(r) BY <1>5 DEF Releasing
  <2>2. disk[i].status = "AVAIL" => disk[i].blk = block[r] /\ data[i] = disk[i].blk
    BY <1>3 DEF BinInv, EntriesOK, EntryOK
  <2>3. Takes(r)' BY <1>1, <1>3, <1>5, <2>1, <2>2 DEF Takes
  <2> QED BY <1>1, <1>4, <1>5, <2>3 DEF HasCopy
<1>13. \A s \in Reqs \ {r} : req[s].pc \notin {"put", "update", "store"}
  BY <1>1, AloneInBin DEF Section
<1> QED
  BY <1>1, <1>5, <1>7, <1>8, <1>9, <1>10, <1>11, <1>12, <1>13, IsKnown, OneGoesOn

(* No entry is found only by who has no reservation, when none is empty.   *)
LEMMA BinScannedInVain ==
  ASSUME BinInv, LockInv', NEW r \in Reqs, ScanNothing(r)
  PROVE  BinInv'
<1> DEFINE q == req[r]
           n == req'[r]
<1>1. /\ UNCHANGED <<disk, data>> /\ q.pc = "scan" /\ At(r, "scan") /\ Found(r) = {}
  BY DEF ScanNothing, At
<1>2. Phase(q) /\ q.task \in {"read", "write"} /\ q.reserved \in {0, 1}
  BY IsKnown DEF Request
<1>3. q.reserved = 0 BY <1>1, <1>2, FindsItsEntry
<1>4. ~Releasing(r) BY <1>2, <1>3 DEF Releasing, Phase
<1>5. \A i \in Ways : disk[i].status # "EMPTY"
  <2> DEFINE stop == {j \in Ways : disk[j].blk = block[r] \/ disk[j].status = "EMPTY"}
             least == {i \in stop : \A j \in stop : i <= j}
  <2> SUFFICES ASSUME stop # {} PROVE FALSE OBVIOUS
  <2>1. least = {} BY <1>1, <1>4 DEF Found, OldestBlock
  <2>2. PICK i \in stop : TRUE OBVIOUS
  <2>3. PICK m \in stop : \A j \in stop : m <= j
    <3>1. stop \subseteq Nat BY DEF Ways
    <3> HIDE DEF stop
    <3> QED BY <3>1, <2>2, LeastExists
  <2> QED BY <2>1, <2>3
<1>6. /\ n.pc = "unlock" /\ n.task = q.task /\ n.way = q.way
      /\ n.then = IF q.task = "read" THEN "net" ELSE "done"
      /\ n.origin = q.origin /\ n.reserved = q.reserved /\ n.data = q.data
      /\ \A s \in Reqs \ {r} : req'[s] = req[s]
  <2>1. req' = [req EXCEPT ![r].pc = "unlock",
                  ![r].then = IF req[r].task = "read" THEN "net" ELSE "done"]
    BY <1>4 DEF ScanNothing
  <2> QED BY <2>1, IsKnown DEF BinInv, LockInv, TypeOK, Request
<1>7. Phase(n) BY <1>1, <1>2, <1>3, <1>6 DEF Phase
<1>8. ~Counted(r)' BY <1>3, <1>6 DEF Counted
<1>9. FindsBlock(r)' BY <1>1, <1>6, <1>8, IsKnown DEF FindsBlock
<1>10. HasCopy(r)' BY <1>1, <1>2, <1>3, <1>6 DEF HasCopy, Phase
<1>11. \A s \in Reqs \ {r} : req[s].pc \notin {"put", "update", "store"}
  BY <1>1, AloneInBin DEF Section
<1> QED BY <1>1, <1>5, <1>6, <1>7, <1>8, <1>9, <1>10, <1>11, OneGoesOn

(* blockSet, incBlkCnt and decBlkCnt on the copy.                          *)
LEMMA BinUpdated ==
  ASSUME BinInv, LockInv', NEW r \in Reqs, Update(r)
  PROVE  BinInv'
<1> DEFINE q == req[r]
           n == req'[r]
           i == q.way
           e == copy[proc[r]][i]
<1>1. UNCHANGED <<disk, data>> /\ q.pc = "update" BY DEF Update, At
<1>2. i \in Ways BY <1>1 DEF BinInv, LockInv, WayKnown
<1>3. e = disk[i] /\ Takes(r) BY <1>1, IsKnown DEF HasCopy
<1>4. copy'[proc[r]][i] = Updated(r, disk[i])
  BY <1>2, <1>3, Known DEF Update, BinInv, LockInv, TypeOK, Bin
<1>5. Phase(q) /\ q.task \in {"read", "write"} /\ q.reserved \in {0, 1}
  BY IsKnown DEF Request
<1>6. /\ n.pc = "store" /\ n.task = q.task /\ n.way = i /\ n.then = Follows(r, disk[i])
      /\ n.origin = q.origin /\ n.reserved = (IF q.task = "read" THEN 1 ELSE q.reserved)
      /\ n.data = q.data
      /\ \A s \in Reqs \ {r} : req'[s] = req[s]
  BY <1>3, IsKnown DEF Update, BinInv, LockInv, TypeOK, Request
<1>7. /\ disk[i].status \in {"EMPTY", "RES", "AVAIL"}
      /\ disk[i].status # "EMPTY" => disk[i].blk = block[r]
      /\ disk[i].status = "AVAIL" => data[i] = block[r]
  BY <1>2, <1>3 DEF Takes, BinInv, EntriesOK, EntryOK
<1>8. Follows(r, disk[i]) = IF q.task = "write" THEN "done"
                            ELSE IF disk[i].status = "AVAIL" THEN "hit"
                            ELSE IF disk[i].status = "RES" THEN "poll" ELSE "net"
  <2>1. Releasing(r) => q.task = "write" /\ disk[i].active # 0
    BY <1>2, <1>3, NeverFree, Types DEF Releasing, Takes
  <2>2. CASE q.task = "write" BY <2>1, <2>2 DEF Follows
  <2>3. CASE q.task = "read" BY <1>7, <2>1, <2>3 DEF Follows
  <2> QED BY <1>5, <2>2, <2>3
<1>9. Phase(n)
  <2>1. n.then \in {"done", "hit", "poll", "net"} /\ (n.then = "done" <=> n.task = "write")
    BY <1>5, <1>6, <1>8
  <2> QED BY <1>1, <1>5, <1>6, <2>1 DEF Phase
<1>10. Counted(r)' => Counted(r) BY <1>1, <1>5, <1>6 DEF Counted
<1>11. FindsBlock(r)' BY <1>1, <1>6, <1>10, IsKnown DEF FindsBlock
<1>12. Returning(r)' => Returning(r) BY <1>6 DEF Returning
<1>13. Unreserved(n) => Unreserved(q) BY <1>5, <1>6 DEF Unreserved
<1>14. HasCopy(r)'
  <2>1. Releasing(r)' <=> Releasing(r) BY <1>6 DEF Releasing
  <2>2. Takes(r)' BY <1>1, <1>3, <1>6, <2>1 DEF Takes
  <2>3. Changed(r, disk[req[r].way], copy[proc[r]][req[r].way])'
    <3> DEFINE u == Updated(r, disk[i])
    <3>1. CASE Releasing(r)
      <4>1. u = [disk[i] EXCEPT !.active = @ - 1] BY <3>1 DEF Updated
      <4>2. disk[i].status = "AVAIL" /\ q.task = "write" BY <1>3, <3>1 DEF Takes, Releasing
      <4>3. u.blk = block[r] /\ u.status = "AVAIL" /\ u.active = disk[i].active - 1
        BY <1>2, <1>7, <4>1, <4>2 DEF BinInv, LockInv, TypeOK, Bin
      <4> QED BY <1>1, <1>4, <1>6, <2>1, <3>1, <4>2, <4>3 DEF Changed
    <3>2. CASE ~Releasing(r) /\ q.task = "write"
      <4>1. /\ u.blk = block[r] /\ u.status = "AVAIL"
            /\ u.active = disk[i].active + q.reserved
        BY <3>2 DEF Updated
      <4> QED BY <1>1, <1>4, <1>6, <2>1, <3>2, <4>1 DEF Changed
    <3>3. CASE q.task = "read"
      <4>1. ~Releasing(r) BY <3>3 DEF Releasing
      <4>2. /\ u.blk = block[r] /\ u.active = disk[i].active + 1
            /\ u.status = IF disk[i].status = "AVAIL" THEN "AVAIL" ELSE "RES"
        BY <1>2, <1>7, <3>3, <4>1 DEF Updated, BinInv, LockInv, TypeOK, Bin
      <4>3. n.then = CASE disk[i].status = "AVAIL" -> "hit" [] disk[i].status = "RES" -> "poll"
                       [] OTHER -> "net"
        BY <1>6, <1>7, <1>8, <3>3
      <4> QED BY <1>1, <1>4, <1>6, <3>3, <4>2, <4>3 DEF Changed
    <3> QED BY <1>5, <3>1, <3>2, <3>3
  <2> QED BY <1>6, <2>2, <2>3 DEF HasCopy
<1>15. \A s \in Reqs \ {r} : req[s].pc \notin {"put", "update", "store"}
  BY <1>1, AloneInBin DEF Section
<1> QED
  BY <1>1, <1>6, <1>9, <1>10, <1>11, <1>12, <1>13, <1>14, <1>15, IsKnown, OneGoesOn

(* setBlockData: nobody is told that the entry is available yet.           *)
LEMMA BinPut ==
  ASSUME BinInv, LockInv', NEW r \in Reqs, PutData(r)
  PROVE  BinInv'
<1> DEFINE q == req[r]
           n == req'[r]
           i == q.way
<1>1. /\ UNCHANGED <<disk, copy>> /\ q.pc = "put"
      /\ data' = [data EXCEPT ![i] = block[r]]
      /\ req' = [req EXCEPT ![r].pc = "update"]
  BY DEF PutData, At, Goto
<1>2. i \in Ways BY <1>1 DEF BinInv, LockInv, WayKnown
<1>3. /\ data'[i] = block[r]
      /\ \A j \in Ways \ {i} : data'[j] = data[j]
  BY <1>1, <1>2 DEF BinInv, LockInv, TypeOK
<1>4. /\ n.pc = "update" /\ n.task = q.task /\ n.then = q.then /\ n.way = i
      /\ n.origin = q.origin /\ n.reserved = q.reserved /\ n.data = q.data
      /\ \A s \in Reqs \ {r} : req'[s] = req[s]
  BY <1>1, IsKnown DEF BinInv, LockInv, TypeOK, Request
<1>5. Phase(q) /\ q.task = "write" BY <1>1, IsKnown DEF Phase
<1>6. Takes(r) /\ copy[proc[r]][i] = disk[i] /\ disk[i].status # "AVAIL"
  BY <1>1, IsKnown DEF HasCopy
<1>7. PhaseKnown'
  <2>1. Phase(n) BY <1>1, <1>4, <1>5 DEF Phase
  <2> QED BY <1>4, <2>1 DEF BinInv, PhaseKnown
<1>8. EntriesOK' BY <1>1, <1>3, <1>6 DEF BinInv, EntriesOK, EntryOK
<1>9. \A s \in Reqs : Counted(s)' => /\ Counted(s) /\ req'[s].way = req[s].way
                                     /\ Returning(s)' => Returning(s)
  BY <1>1, <1>4, <1>5 DEF Counted, Returning
<1>10. CountsOK' BY <1>1, <1>9, CountsStay
<1>11. UsersFindBlock'
  <2> SUFFICES ASSUME NEW s \in Reqs PROVE FindsBlock(s)' BY DEF UsersFindBlock
  <2>1. CASE s = r BY <1>1, <1>4, <1>9, <2>1, IsKnown DEF FindsBlock
  <2>2. CASE s # r BY <1>1, <1>4, <1>9, <2>2, IsKnown DEF FindsBlock
  <2> QED BY <2>1, <2>2
<1>12. BinWasFull'
  <2>1. Unreserved(n) => Unreserved(q) BY <1>4, <1>5 DEF Unreserved
  <2> QED BY <1>1, <1>4, <2>1 DEF BinInv, BinWasFull
<1>13. CopySound'
  <2> SUFFICES ASSUME NEW s \in Reqs PROVE HasCopy(s)' BY DEF CopySound
  <2>1. CASE s = r
    <3>1. Releasing(r)' <=> Releasing(r) BY <1>4 DEF Releasing
    <3>2. Takes(r)' BY <1>1, <1>3, <1>4, <1>6, <3>1 DEF Takes
    <3> QED BY <1>1, <1>4, <1>6, <2>1, <3>2 DEF HasCopy
  <2>2. CASE s # r
    <3>1. req'[s].pc \notin Section BY <1>1, <1>4, <2>2, AloneInBin DEF Section
    <3> QED BY <3>1 DEF HasCopy, Section
  <2> QED BY <2>1, <2>2
<1> QED BY <1>7, <1>8, <1>10, <1>11, <1>12, <1>13 DEF BinInv

-------------------------------------------------------------------------------
(* writeFileBlockEntry: the entry that goes to disk.                       *)
LEMMA StoredEntry ==
  ASSUME BinInv, NEW r \in Reqs, req[r].pc = "store",
         NEW i, i = req[r].way, NEW e, e = copy[proc[r]][i]
  PROVE  /\ i \in Ways /\ e.blk = block[r] /\ e.status \in {"RES", "AVAIL"}
         /\ disk[i].status = "AVAIL" => e.status = "AVAIL"
         /\ e.status = "AVAIL" => data[i] = block[r]
         /\ \/ disk[i].blk = block[r] /\ disk[i].status # "EMPTY"
            \/ /\ disk[i].status = "EMPTY"
               /\ \A j \in Ways : /\ disk[j].blk # block[r]
                                  /\ disk[j].status = "EMPTY" => i <= j
         /\ req[r].task = "read" =>
              /\ e.active = disk[i].active + 1
              /\ req[r].then = IF disk[i].status = "AVAIL" THEN "hit"
                               ELSE IF disk[i].status = "RES" THEN "poll" ELSE "net"
         /\ req[r].task = "write" => e.status = "AVAIL"
         /\ req[r].task = "write" /\ Releasing(r) => e.active = disk[i].active - 1
         /\ req[r].task = "write" /\ ~Releasing(r) =>
              e.active = disk[i].active + req[r].reserved
<1>1. i \in Ways BY DEF BinInv, LockInv, WayKnown
<1>2. Takes(r) /\ Changed(r, disk[i], e) BY IsKnown DEF HasCopy
<1>3. EntryOK(i) BY <1>1 DEF BinInv, EntriesOK
<1>4. \/ disk[i].blk = block[r] /\ disk[i].status # "EMPTY"
      \/ /\ disk[i].status = "EMPTY"
         /\ \A j \in Ways : /\ disk[j].blk # block[r]
                            /\ disk[j].status = "EMPTY" => i <= j
  BY <1>2, <1>3, Known, FileCacheConstants DEF Takes, EntryOK
<1>5. req[r].task \in {"read", "write"} BY IsKnown DEF Request
<1>6. CASE req[r].task = "read"
  <2>1. req[r].then = IF disk[i].status = "AVAIL" THEN "hit"
                      ELSE IF disk[i].status = "RES" THEN "poll" ELSE "net"
    BY <1>2, <1>3, <1>6 DEF Changed, EntryOK
  <2> QED BY <1>1, <1>2, <1>3, <1>4, <1>6, <2>1 DEF Changed, EntryOK
<1>7. CASE req[r].task = "write"
  <2>1. data[i] = block[r] BY <1>2, <1>7 DEF Takes
  <2> QED BY <1>1, <1>2, <1>4, <1>7, <2>1 DEF Changed
<1> QED BY <1>5, <1>6, <1>7

(* A set that changed by one member at most.                               *)
LEMMA OneMember ==
  ASSUME NEW U, NEW V, NEW r, IsFiniteSet(U), V \ {r} = U \ {r}
  PROVE  /\ IsFiniteSet(V) /\ Cardinality(V) \in Nat /\ Cardinality(U) \in Nat
         /\ r \in U /\ r \in V => Cardinality(V) = Cardinality(U)
         /\ r \notin U /\ r \notin V => Cardinality(V) = Cardinality(U)
         /\ r \notin U /\ r \in V => Cardinality(V) = Cardinality(U) + 1
         /\ r \in U /\ r \notin V => Cardinality(V) = Cardinality(U) - 1
<1>1. Cardinality(U) \in Nat BY FS_CardinalityType
<1>2. CASE r \in V
  <2>1. V = U \cup {r} BY <1>2
  <2>2. /\ IsFiniteSet(U \cup {r})
        /\ Cardinality(U \cup {r}) = IF r \in U THEN Cardinality(U) ELSE Cardinality(U) + 1
    BY FS_AddElement
  <2> QED BY <1>1, <1>2, <2>1, <2>2
<1>3. CASE r \notin V
  <2>1. V = U \ {r} BY <1>3
  <2>2. /\ IsFiniteSet(U \ {r})
        /\ Cardinality(U \ {r}) = IF r \in U THEN Cardinality(U) - 1 ELSE Cardinality(U)
    BY FS_RemoveElement
  <2>3. IsFiniteSet(V) /\ Cardinality(V) \in Nat BY <2>1, <2>2, FS_CardinalityType
  <2> QED BY <1>1, <1>3, <2>1, <2>2, <2>3
<1> QED BY <1>2, <1>3

(* The users of the entry with the one that is now counted, or without the *)
(* one that left.                                                          *)
LEMMA CountsAfterStore ==
  ASSUME BinInv, NEW r \in Reqs, req[r].pc = "store",
         NEW i, i = req[r].way, NEW e, e = copy[proc[r]][i],
         disk'[i] = e, \A j \in Ways \ {i} : disk'[j] = disk[j],
         \A s \in Reqs \ {r} : req'[s] = req[s],
         NEW pc \in {"hit", "unlock"}, (pc = "hit") <=> (req[r].then = "hit"),
         req'[r] = [req[r] EXCEPT !.pc = pc]
  PROVE  CountsOK'
<1> DEFINE q == req[r]
           n == req'[r]
<1>1. /\ n.pc = pc /\ n.task = q.task /\ n.then = q.then /\ n.way = i
      /\ n.origin = q.origin /\ n.reserved = q.reserved
  BY IsKnown DEF Request
<1>2. Phase(q) /\ q.task \in {"read", "write"} /\ q.reserved \in {0, 1}
  BY IsKnown DEF Request
<1>3. \A s \in Reqs \ {r} : /\ Counted(s)' <=> Counted(s)
                            /\ Returning(s)' <=> Returning(s)
  BY DEF Counted, Returning
<1>4. /\ i \in Ways
      /\ disk[i].status = "EMPTY" => disk[i].active = 0
      /\ disk[i].status \in {"EMPTY", "RES", "AVAIL"}
  BY StoredEntry DEF BinInv, EntriesOK, EntryOK
<1> SUFFICES ASSUME NEW j \in Ways
             PROVE  /\ IsFiniteSet(Users(j)') /\ Cardinality(Users(j)') <= disk'[j].active
                    /\ disk'[j].status # "EMPTY" => Cardinality(Returns(j)') < disk'[j].active
  BY DEF CountsOK
<1> DEFINE U == Users(j)
           V == Users(j)'
           R == Returns(j)
           W == Returns(j)'
<1>5. V \ {r} = U \ {r} /\ W \ {r} = R \ {r} /\ R \subseteq U /\ W \subseteq V
  BY <1>3 DEF Users, Returns
<1>6. /\ IsFiniteSet(U) /\ IsFiniteSet(R)
      /\ Cardinality(R) <= Cardinality(U) /\ Cardinality(U) <= disk[j].active
      /\ disk[j].status # "EMPTY" => Cardinality(R) < disk[j].active
      /\ disk[j].active \in Int
  BY NumberOfUsers, Types DEF BinInv, CountsOK
<1>7. /\ r \in U <=> Counted(r) /\ q.way = j
      /\ r \in V <=> Counted(r)' /\ n.way = j
      /\ r \in R <=> r \in U /\ Returning(r)
      /\ r \in W <=> r \in V /\ Returning(r)'
  BY DEF Users, Returns
<1> HIDE DEF U, V, R, W
<1>8. /\ IsFiniteSet(V) /\ Cardinality(V) \in Nat /\ Cardinality(U) \in Nat
      /\ r \in U /\ r \in V => Cardinality(V) = Cardinality(U)
      /\ r \notin U /\ r \notin V => Cardinality(V) = Cardinality(U)
      /\ r \notin U /\ r \in V => Cardinality(V) = Cardinality(U) + 1
      /\ r \in U /\ r \notin V => Cardinality(V) = Cardinality(U) - 1
  BY <1>5, <1>6, OneMember
<1>9. /\ Cardinality(W) \in Nat /\ Cardinality(R) \in Nat
      /\ r \in R /\ r \in W => Cardinality(W) = Cardinality(R)
      /\ r \notin R /\ r \notin W => Cardinality(W) = Cardinality(R)
      /\ r \notin R /\ r \in W => Cardinality(W) = Cardinality(R) + 1
      /\ r \in R /\ r \notin W => Cardinality(W) = Cardinality(R) - 1
  BY <1>5, <1>6, OneMember
<1>10. /\ Cardinality(V) <= disk'[j].active
       /\ disk'[j].status # "EMPTY" => Cardinality(W) < disk'[j].active
  <2>1. CASE j # i
    <3>1. r \notin U /\ r \notin V /\ r \notin R /\ r \notin W
      BY <1>1, <1>5, <1>7, <2>1
    <3>2. disk'[j] = disk[j] BY <2>1
    <3> QED BY <1>6, <1>8, <1>9, <3>1, <3>2
  <2>2. CASE j = i /\ q.task = "read"
    <3>1. r \notin U /\ r \notin R
      BY <1>5, <1>7, <2>2 DEF Counted
    <3>2. e.active = disk[i].active + 1 BY <2>2, StoredEntry
    <3>3. disk[i].status = "EMPTY" => r \notin W
      <4>1. disk[i].status = "EMPTY" => q.then = "net" /\ q.origin = "net"
        BY <1>2, <2>2, StoredEntry DEF Phase
      <4>2. disk[i].status = "EMPTY" => ~Returning(r)' BY <1>1, <4>1 DEF Returning
      <4> QED BY <1>7, <4>2
    <3>4. Cardinality(V) <= e.active BY <1>6, <1>8, <2>2, <3>1, <3>2
    <3>5. Cardinality(W) < e.active
      <4>1. CASE disk[i].status = "EMPTY"
        BY <1>4, <1>6, <1>8, <1>9, <2>2, <3>1, <3>2, <3>3, <4>1
      <4>2. CASE disk[i].status # "EMPTY"
        BY <1>6, <1>9, <2>2, <3>1, <3>2, <4>2
      <4> QED BY <4>1, <4>2
    <3> QED BY <2>2, <3>4, <3>5
  <2>3. CASE j = i /\ q.task = "write"
    <3>1. pc = "unlock" BY <1>2, <2>3 DEF Phase
    <3>2. r \notin V /\ r \notin W
      BY <1>1, <1>5, <1>7, <2>3, <3>1 DEF Counted
    <3>3. q.reserved = 1 => r \in U BY <1>7, <2>3 DEF Counted
    <3>4. disk[i].status # "EMPTY"
      <4>1. CASE q.reserved = 1
        <5>1. disk[i].blk = block[r] BY <1>7, <3>3, <4>1, IsKnown DEF FindsBlock
        <5> QED BY <1>4, <5>1, Known, FileCacheConstants DEF BinInv, EntriesOK, EntryOK
      <4>2. CASE q.reserved = 0
        <5>1. Unreserved(q) BY <2>3, <4>2 DEF Unreserved
        <5> QED BY <1>4, <5>1, IsKnown
      <4> QED BY <1>2, <4>1, <4>2
    <3>5. CASE Releasing(r)
      <4>1. r \in U /\ r \in R
        BY <1>2, <1>7, <3>3, <3>5 DEF Releasing, Phase, Returning
      <4>2. e.active = disk[i].active - 1 BY <2>3, <3>5, StoredEntry
      <4> QED BY <1>6, <1>8, <1>9, <2>3, <3>2, <3>4, <4>1, <4>2
    <3>6. CASE ~Releasing(r)
      <4>1. e.active = disk[i].active + q.reserved BY <2>3, <3>6, StoredEntry
      <4>2. Cardinality(V) <= Cardinality(U) /\ Cardinality(W) <= Cardinality(R)
        BY <1>8, <1>9, <3>2
      <4>3. e.active >= disk[i].active /\ e.active \in Int BY <1>2, <1>6, <2>3, <4>1
      <4> QED BY <1>6, <1>8, <1>9, <2>3, <3>4, <4>2, <4>3
    <3> QED BY <3>5, <3>6
  <2> QED BY <1>2, <2>1, <2>2, <2>3
<1> QED BY <1>8, <1>10 DEF V, W

LEMMA BinStored ==
  ASSUME BinInv, LockInv', NEW r \in Reqs, Store(r)
  PROVE  BinInv'
<1> DEFINE q == req[r]
           n == req'[r]
           i == q.way
           e == copy[proc[r]][i]
<1>1. /\ UNCHANGED <<data, copy>> /\ q.pc = "store" /\ disk' = [disk EXCEPT ![i] = e]
  BY DEF Store, At
<1>2. Phase(q) /\ q.task \in {"read", "write"} BY IsKnown DEF Request
<1>3. PICK pc \in {"hit", "unlock"} : /\ (pc = "hit") <=> (q.then = "hit")
                                      /\ req' = [req EXCEPT ![r].pc = pc]
  BY <1>1, <1>2 DEF Store, Goto, Phase
<1>4. /\ n = [q EXCEPT !.pc = pc]
      /\ \A s \in Reqs \ {r} : req'[s] = req[s]
  BY <1>3 DEF BinInv, LockInv, TypeOK
<1>5. /\ n.pc = pc /\ n.task = q.task /\ n.then = q.then /\ n.way = i
      /\ n.origin = q.origin /\ n.reserved = q.reserved /\ n.data = q.data
  BY <1>4, IsKnown DEF Request
<1>6. /\ i \in Ways /\ e.blk = block[r] /\ e.status \in {"RES", "AVAIL"}
      /\ disk[i].status = "AVAIL" => e.status = "AVAIL"
      /\ e.status = "AVAIL" => data[i] = block[r]
      /\ \/ disk[i].blk = block[r] /\ disk[i].status # "EMPTY"
         \/ /\ disk[i].status = "EMPTY"
            /\ \A j \in Ways : /\ disk[j].blk # block[r]
                               /\ disk[j].status = "EMPTY" => i <= j
      /\ q.task = "read" =>
           q.then = IF disk[i].status = "AVAIL" THEN "hit"
                    ELSE IF disk[i].status = "RES" THEN "poll" ELSE "net"
      /\ q.task = "write" => e.status = "AVAIL"
  BY <1>1, StoredEntry
<1>7. disk'[i] = e /\ \A j \in Ways \ {i} : disk'[j] = disk[j]
  BY <1>1, <1>6 DEF BinInv, LockInv, TypeOK, Bin
<1>8. PhaseKnown'
  <2>1. q.then # "got" BY <1>1 DEF BinInv, LockInv, ThenKnown
  <2>2. Phase(n) BY <1>1, <1>2, <1>3, <1>5, <2>1 DEF Phase
  <2> QED BY <1>4, <2>2 DEF BinInv, PhaseKnown
<1>9. EntriesOK'
  <2>1. \A j \in Ways : EntryOK(j)'
    BY <1>1, <1>6, <1>7, Known, FileCacheConstants DEF BinInv, EntriesOK, EntryOK
  <2>2. \A j, k \in Ways : disk'[j].blk = disk'[k].blk /\ disk'[j].blk # None => j = k
    BY <1>6, <1>7 DEF BinInv, EntriesOK
  <2>3. \A j, k \in Ways : j < k /\ disk'[j].status = "EMPTY" => disk'[k].status = "EMPTY"
    <3> SUFFICES ASSUME NEW j \in Ways, NEW k \in Ways, j < k, disk'[j].status = "EMPTY"
                 PROVE  disk'[k].status = "EMPTY"
      OBVIOUS
    <3>1. j # i /\ disk[j].status = "EMPTY" BY <1>6, <1>7
    <3>2. disk[k].status = "EMPTY" BY <3>1 DEF BinInv, EntriesOK
    <3>3. k # i BY <1>6, <3>1, <3>2, Types
    <3> QED BY <1>7, <3>2, <3>3
  <2> QED BY <2>1, <2>2, <2>3 DEF EntriesOK
<1>10. CountsOK' BY <1>1, <1>3, <1>4, <1>7, CountsAfterStore
<1>11. UsersFindBlock'
  <2> SUFFICES ASSUME NEW s \in Reqs PROVE FindsBlock(s)' BY DEF UsersFindBlock
  <2>1. CASE s = r
    <3>1. Counted(r)' => q.task = "read" BY <1>1, <1>2, <1>3, <1>5 DEF Counted, Phase
    <3>2. q.task = "read" => q.origin = "net" BY <1>1, <1>2 DEF Phase
    <3>3. req'[r].pc = "hit" => disk[i].status = "AVAIL"
      BY <1>1, <1>2, <1>3, <1>5, <1>6 DEF Phase
    <3>4. req'[r].data \in {None, block[r]} BY <1>5, IsKnown DEF FindsBlock
    <3>5. req'[r].pc # "fetch" BY <1>5
    <3> QED BY <1>5, <1>6, <1>7, <2>1, <3>1, <3>2, <3>3, <3>4, <3>5 DEF FindsBlock
  <2>2. CASE s # r
    <3>1. req'[s] = req[s] /\ (Counted(s)' <=> Counted(s)) BY <1>4, <2>2 DEF Counted
    <3>2. FindsBlock(s) BY IsKnown
    <3>3. Counted(s) /\ req[s].way = i => e.blk = block[s]
      BY <1>6, <3>2, Known, FileCacheConstants DEF FindsBlock, BinInv, EntriesOK, EntryOK
    <3> QED BY <1>6, <1>7, <3>1, <3>2, <3>3 DEF FindsBlock
  <2> QED BY <2>1, <2>2
<1>12. BinWasFull'
  <2>1. \A j \in Ways : disk[j].status # "EMPTY" => disk'[j].status # "EMPTY"
    BY <1>6, <1>7
  <2>2. Unreserved(n) => Unreserved(q)
    BY <1>1, <1>2, <1>3, <1>5 DEF Unreserved, Phase
  <2> QED BY <1>4, <2>1, <2>2 DEF BinInv, BinWasFull
<1>13. CopySound'
  <2> SUFFICES ASSUME NEW s \in Reqs PROVE HasCopy(s)' BY DEF CopySound
  <2>1. CASE s = r BY <1>5, <1>6, <1>7, <2>1 DEF HasCopy
  <2>2. CASE s # r
    <3>1. req'[s].pc \notin Section BY <1>1, <1>4, <2>2, AloneInBin DEF Section
    <3> QED BY <3>1 DEF HasCopy, Section
  <2> QED BY <2>1, <2>2
<1> QED BY <1>8, <1>9, <1>10, <1>11, <1>12, <1>13 DEF BinInv

-------------------------------------------------------------------------------
(* What was lost stays so: while nothing is, nothing was.                  *)
LEMMA LostBefore ==
  ASSUME LockInv, [Next]_vars, NothingLost'
  PROVE  NothingLost
<1>1. ASSUME NEW r \in Reqs, Scan(r) \/ Poll(r) \/ Fetch(r) PROVE NothingLost
  <2>1. Poll(r) \/ Fetch(r) => Refreshed(r) /\ req[r].way \in Ways
    BY DEF Poll, Fetch, At, LockInv, WayKnown
  <2>2. \A i \in Ways : lost'[i] >= lost[i] BY <1>1, <2>1, LostGrows DEF LockInv
  <2> QED BY <2>2 DEF NothingLost, LockInv, TypeOK
<1>2. ASSUME lost' = lost PROVE NothingLost BY <1>2 DEF NothingLost
<1>3. ASSUME NEW p \in Procs, MakeDirectory(p) \/ Start(p) \/ Crash(p) PROVE lost' = lost
  BY <1>3 DEF Crash, MakeDirectory, Start, CreateEntries, CreateData, FilesAppear,
       FilesDoNotAppear, MakeFlags, FlagsReady, AwaitFlags, MakeLinkFiles, OnlyStarting
<1>4. ASSUME NEW r \in Reqs, ReadBlock(r) \/ LockFlag(r) \/ LockFile(r) \/ PollTimeout(r)
      PROVE  lost' = lost
  BY <1>4 DEF ReadBlock, LockFlag, LockFile, PollTimeout, OnlyReq
<1>5. ASSUME NEW r \in Reqs, Step(r), ~Scan(r), ~Fetch(r) PROVE lost' = lost
  BY <1>5 DEF Step, Unlock, ScanNothing, PutData, Update, Store, ReadHit, NetAnswer,
              WriteBlock, OnlyReq
<1> QED BY <1>1, <1>2, <1>3, <1>4, <1>5 DEF Next, Step, vars

LEMMA BinStep ==
  ASSUME BinInv, NothingLost', [Next]_vars
  PROVE  BinInv'
<1>1. LockInv' BY LockStep DEF BinInv
<1>2. ASSUME NEW p \in Procs, MakeDirectory(p) \/ Start(p) PROVE BinInv'
  <2>1. UNCHANGED <<disk, data, copy, req>>
    BY <1>2 DEF MakeDirectory, Start, CreateEntries, CreateData, FilesAppear,
         FilesDoNotAppear, MakeFlags, FlagsReady, AwaitFlags, MakeLinkFiles, OnlyStarting
  <2> QED BY <1>1, <2>1, BinIsLeft
<1>3. ASSUME NEW p \in Procs, Crash(p) PROVE BinInv' BY <1>1, <1>3, BinAfterCrash
<1>4. ASSUME NEW r \in Reqs,
             ReadBlock(r) \/ LockFlag(r) \/ LockFile(r) \/ Poll(r) \/ PollTimeout(r)
      PROVE  BinInv'
  BY <1>1, <1>4, BinPassed, BinPolled
<1>5. ASSUME NEW r \in Reqs, Step(r) PROVE BinInv'
  BY <1>1, <1>5, BinUnlocked, BinScanned, BinScannedInVain, BinPut, BinUpdated, BinStored,
     BinHit, BinFetched, BinAnswered, BinToWrite
  DEF Step
<1>6. CASE UNCHANGED vars BY <1>1, <1>6, BinIsLeft DEF vars
<1> QED BY <1>2, <1>3, <1>4, <1>5, <1>6 DEF Next

(* The invariant of a bin and its copies, in every behaviour, for as long  *)
(* as no poll has read over a change of an entry that was not on disk yet  *)
(* (blockAvailable into _cacheEntries, against incBlkCnt and blockSet).    *)
THEOREM BinInvariant == Spec => [](NothingLost => BinInv)
<1>1. Init => (NothingLost => BinInv) BY BinInitially
<1>2. LockInv /\ (NothingLost => BinInv) /\ [Next]_vars => (NothingLost => BinInv)'
  <2> SUFFICES ASSUME LockInv, NothingLost => BinInv, [Next]_vars, NothingLost'
               PROVE  BinInv'
    OBVIOUS
  <2>1. NothingLost BY LostBefore
  <2> QED BY <2>1, BinStep
<1> QED BY <1>1, <1>2, LockInvariant, PTL DEF Spec

(* A request gets the data of another block at most after a poll has read  *)
(* over a change: a hit, and what was waited for without a lock, are its   *)
(* own block until then (readBlock, blockAvailable, getBlockData).         *)
THEOREM OwnBlockServed == Spec => [](NothingLost => ServesOwnBlock)
<1>1. BinInv => ServesOwnBlock
  BY DEF BinInv, UsersFindBlock, FindsBlock, ServesOwnBlock
<1> QED BY <1>1, BinInvariant, PTL

(* What a request wrote is on disk as available when it gives up the lock, *)
(* unless a poll has read over a change (writeBlock, blockSet,             *)
(* writeFileBlockEntry).                                                   *)
THEOREM WrittenStays == Spec => [](NothingLost => WrittenIsAvailable)
<1>1. BinInv => WrittenIsAvailable
  BY DEF BinInv, CopySound, HasCopy, WrittenIsAvailable, Wrote, At
<1> QED BY <1>1, BinInvariant, PTL

-------------------------------------------------------------------------------
(* The counts, in every behaviour.  A poll that reads over a change takes  *)
(* one from a count at most, and so does a request that finds its block in *)
(* another entry than the one that counts it: that is what lost counts.    *)

Claims(i) == {r \in Reqs : Holds(r, i)}

(* Who reads an entry, or will, has reserved it; who wrote is done.        *)
Claimed(q) ==
  /\ \/ q.pc \in {"hit", "poll", "fetch"} \/ q.origin = "cache"
     \/ q.pc \in {"store", "unlock"} /\ q.then \in {"hit", "poll"}
     => q.reserved = 1
  /\ q.task = "write" => /\ q.pc # "hit"
                         /\ q.pc \in {"store", "unlock"} => q.then \in {"done", "exit"}
ClaimsKnown == \A r \in Reqs : Claimed(req[r])

CountHolds(i) ==
  IsFiniteSet(Claims(i)) /\ Cardinality(Claims(i)) <= disk[i].active + lost[i]
CountsHold == \A i \in Ways : CountHolds(i)

(* A copy that is about to be written to disk counts its user already, or  *)
(* has lost it to a poll.                                                  *)
Joins(q) == IF q.task = "read" THEN 1 ELSE 0
CopyCount(r) ==
  LET i == req[r].way
      e == copy[proc[r]][i]
  IN  /\ req[r].pc \in {"put", "update"} => e.active = disk[i].active
      /\ req[r].pc = "store" =>
           Cardinality(Claims(i)) + Joins(req[r]) <= e.active + lost[i]
CopyCounts == \A r \in Reqs : CopyCount(r)

CountLaw == LockInv /\ ClaimsKnown /\ CountsHold /\ CopyCounts

LEMMA LawInitially == Init => CountLaw
<1> SUFFICES ASSUME Init PROVE CountLaw OBVIOUS
<1>1. LockInv BY Initially
<1>2. \A r \in Reqs : req[r] = NewReq BY DEF Init
<1>3. ClaimsKnown BY <1>2 DEF ClaimsKnown, Claimed, NewReq
<1>4. CountsHold
  <2> SUFFICES ASSUME NEW i \in Ways PROVE CountHolds(i) BY DEF CountsHold
  <2>1. Claims(i) = {} BY <1>2 DEF Claims, Holds, NewReq
  <2>2. disk[i].active = 0 /\ lost[i] = 0 BY DEF Init, Empty
  <2> QED BY <2>1, <2>2, FS_EmptySet DEF CountHolds
<1>5. CopyCounts BY <1>2 DEF CopyCounts, CopyCount, NewReq
<1> QED BY <1>1, <1>3, <1>4, <1>5 DEF CountLaw

LEMMA LawTypes ==
  ASSUME LockInv
  PROVE  /\ \A i \in Ways : disk[i].active \in Int /\ lost[i] \in Nat
         /\ \A p \in Procs, i \in Ways : copy[p][i].active \in Int
         /\ \A r \in Reqs : req[r] \in Request
         /\ \A r \in Reqs : req[r].pc \in {"put", "update", "store"} => req[r].way \in Ways
  BY DEF LockInv, TypeOK, Bin, WayKnown

(* Nobody joins an entry.                                                  *)
LEMMA FewerClaims ==
  ASSUME NEW i, IsFiniteSet(Claims(i)), Claims(i)' \subseteq Claims(i)
  PROVE  /\ IsFiniteSet(Claims(i)') /\ Cardinality(Claims(i)') <= Cardinality(Claims(i))
         /\ Cardinality(Claims(i)') \in Nat /\ Cardinality(Claims(i)) \in Nat
  BY FS_Subset, FS_CardinalityType

(* A step that does not write to disk, by which r moves and is counted as  *)
(* before, or not any more; what others have in their copies stays, or is  *)
(* read over, which is added up.                                           *)
LEMMA LawKept ==
  ASSUME CountLaw, LockInv', disk' = disk,
         \A i \in Ways : lost'[i] >= lost[i] /\ Claims(i)' \subseteq Claims(i),
         NEW R \in SUBSET Reqs,
         \A s \in Reqs \ R :
           /\ req'[s] = req[s]
           /\ req[s].pc \in {"put", "update", "store"}
                => \/ copy'[proc[s]][req[s].way] = copy[proc[s]][req[s].way]
                   \/ /\ copy'[proc[s]][req[s].way] = disk[req[s].way]
                      /\ req[s].pc = "store" => lost'[req[s].way] = lost[req[s].way] + 1,
         \A r \in R : Claimed(req'[r]) /\ CopyCount(r)'
  PROVE  CountLaw'
<1>1. ClaimsKnown' BY DEF CountLaw, ClaimsKnown
<1>2. CountsHold'
  <2> SUFFICES ASSUME NEW i \in Ways PROVE CountHolds(i)' BY DEF CountsHold
  <2>1. CountHolds(i) BY DEF CountLaw, CountsHold
  <2>2. disk[i].active \in Int /\ lost[i] \in Nat /\ lost'[i] \in Nat
    BY LawTypes DEF CountLaw, LockInv, TypeOK
  <2> QED BY <2>1, <2>2, FewerClaims DEF CountHolds
<1>3. CopyCounts'
  <2> SUFFICES ASSUME NEW s \in Reqs \ R PROVE CopyCount(s)' BY DEF CopyCounts
  <2> DEFINE i == req[s].way
  <2>1. CopyCount(s) /\ req'[s] = req[s] BY DEF CountLaw, CopyCounts
  <2>2. CASE req[s].pc \in {"put", "update"} BY <2>1, <2>2 DEF CopyCount
  <2>3. CASE req[s].pc = "store"
    <3>1. i \in Ways BY <2>3, LawTypes DEF CountLaw
    <3>2. CountHolds(i) BY <3>1 DEF CountLaw, CountsHold
    <3>3. /\ disk[i].active \in Int /\ lost[i] \in Nat /\ lost'[i] \in Nat
          /\ copy[proc[s]][i].active \in Int /\ lost'[i] >= lost[i]
      BY <3>1, Known, LawTypes DEF CountLaw, LockInv, TypeOK
    <3>4. /\ Cardinality(Claims(i)') \in Nat /\ Cardinality(Claims(i)) \in Nat
          /\ Cardinality(Claims(i)') <= Cardinality(Claims(i))
      BY <3>1, <3>2, FewerClaims DEF CountHolds
    <3>5. Joins(req[s]) \in {0, 1} BY DEF Joins
    <3>6. Cardinality(Claims(i)') + Joins(req[s]) <= copy'[proc[s]][i].active + lost'[i]
      <4>1. CASE copy'[proc[s]][i] = copy[proc[s]][i]
        <5>1. Cardinality(Claims(i)) + Joins(req[s]) <= copy[proc[s]][i].active + lost[i]
          BY <2>1, <2>3 DEF CopyCount
        <5> QED BY <3>3, <3>4, <3>5, <4>1, <5>1
      <4>2. CASE copy'[proc[s]][i] = disk[i] /\ lost'[i] = lost[i] + 1
        <5>1. Cardinality(Claims(i)) <= disk[i].active + lost[i] BY <3>2 DEF CountHolds
        <5> QED BY <3>3, <3>4, <3>5, <4>2, <5>1
      <4> QED BY <2>3, <4>1, <4>2
    <3> QED BY <2>1, <2>3, <3>6 DEF CopyCount
  <2>4. CASE req[s].pc \notin {"put", "update", "store"} BY <2>1, <2>4 DEF CopyCount
  <2> QED BY <2>2, <2>3, <2>4
<1> QED BY <1>1, <1>2, <1>3 DEF CountLaw

(* One request moves on, out of the bin's way.                             *)
LEMMA LawMoves ==
  ASSUME CountLaw, LockInv', NEW r \in Reqs, UNCHANGED <<disk, lost>>,
         \A s \in Reqs \ {r} :
           /\ req'[s] = req[s]
           /\ req[s].pc \in {"put", "update", "store"}
                => copy'[proc[s]][req[s].way] = copy[proc[s]][req[s].way],
         req'[r].pc \notin {"put", "update", "store"}, Claimed(req'[r]),
         \A i \in Ways : Holds(r, i)' => Holds(r, i)
  PROVE  CountLaw'
<1>1. \A i \in Ways : Claims(i)' \subseteq Claims(i) BY DEF Claims, Holds
<1>2. \A i \in Ways : lost'[i] >= lost[i] BY LawTypes DEF CountLaw
<1>3. CopyCount(r)' BY DEF CopyCount
<1>4. {r} \in SUBSET Reqs /\ \A x \in {r} : Claimed(req'[x]) /\ CopyCount(x)'
  <2>1. ASSUME NEW x \in {r} PROVE Claimed(req'[x]) /\ CopyCount(x)' BY <1>3
  <2> QED BY <2>1
<1> QED BY <1>1, <1>2, <1>4, LawKept

LEMMA LawPassed ==
  ASSUME CountLaw, LockInv', NEW r \in Reqs,
         ReadBlock(r) \/ LockFlag(r) \/ LockFile(r) \/ PollTimeout(r)
  PROVE  CountLaw'
<1>1. PICK to \in {"lock", "filelock", "scan", "net"} :
        /\ req' = [req EXCEPT ![r].pc = to]
        /\ \/ req[r].pc = "idle" /\ to = "lock"
           \/ req[r].pc = "lock" /\ to = "filelock"
           \/ req[r].pc = "filelock" /\ to = "scan"
           \/ req[r].pc = "poll" /\ to = "net"
  BY DEF ReadBlock, LockFlag, LockFile, PollTimeout, Goto, At
<1>2. UNCHANGED <<disk, copy, lost>>
  BY DEF ReadBlock, LockFlag, LockFile, PollTimeout, OnlyReq
<1>3. /\ req'[r].pc = to /\ req'[r].task = req[r].task /\ req'[r].way = req[r].way
      /\ req'[r].origin = req[r].origin /\ req'[r].reserved = req[r].reserved
      /\ \A s \in Reqs \ {r} : req'[s] = req[s]
  BY <1>1, LawTypes DEF CountLaw, LockInv, TypeOK, Request
<1>4. Claimed(req'[r]) BY <1>1, <1>3 DEF CountLaw, ClaimsKnown, Claimed
<1>5. \A i \in Ways : Holds(r, i)' => Holds(r, i) BY <1>1, <1>3 DEF Holds
<1> QED BY <1>1, <1>2, <1>3, <1>4, <1>5, LawMoves

LEMMA LawAnswered ==
  ASSUME CountLaw, LockInv', NEW r \in Reqs, NetAnswer(r) \/ WriteBlock(r)
  PROVE  CountLaw'
<1>1. /\ req[r].pc \in {"net", "got"} /\ UNCHANGED <<disk, copy, lost>>
  BY DEF NetAnswer, WriteBlock, OnlyReq, At
<1>2. /\ req'[r].pc \in {"lock", "got"} /\ req'[r].task \in {req[r].task, "write"}
      /\ req'[r].way = req[r].way /\ req'[r].reserved = req[r].reserved
      /\ req'[r].origin = req[r].origin \/ req'[r].origin = "net"
      /\ \A s \in Reqs \ {r} : req'[s] = req[s]
  BY LawTypes DEF NetAnswer, WriteBlock, CountLaw, LockInv, TypeOK, Request
<1>3. Claimed(req'[r]) BY <1>1, <1>2 DEF CountLaw, ClaimsKnown, Claimed
<1>4. \A i \in Ways : Holds(r, i)' => Holds(r, i) BY <1>1, <1>2 DEF Holds
<1> QED BY <1>1, <1>2, <1>3, <1>4, LawMoves

LEMMA LawUnlocked ==
  ASSUME CountLaw, LockInv', NEW r \in Reqs, Unlock(r)
  PROVE  CountLaw'
<1>1. UNCHANGED <<disk, copy, lost>> /\ req[r].pc = "unlock" BY DEF Unlock, At
<1>2. req[r].then \in {"net", "done", "got", "poll"}
  BY <1>1 DEF CountLaw, LockInv, ThenKnown
<1>3. /\ req'[r].pc = req[r].then /\ req'[r].then = req[r].then
      /\ req'[r].task = req[r].task /\ req'[r].way = req[r].way
      /\ req'[r].origin = req[r].origin /\ req'[r].reserved = req[r].reserved
      /\ \A s \in Reqs \ {r} : req'[s] = req[s]
  <2>1. req' = [req EXCEPT ![r].pc = req[r].then] BY DEF Unlock, Goto
  <2> QED BY <1>2, <2>1, LawTypes DEF CountLaw, LockInv, TypeOK, Request
<1>4. Claimed(req'[r]) BY <1>1, <1>2, <1>3 DEF CountLaw, ClaimsKnown, Claimed
<1>6. \A i \in Ways : Holds(r, i)' => Holds(r, i)
  <2>1. req[r].task = "write" => req[r].then = "done"
    BY <1>1, <1>2 DEF CountLaw, ClaimsKnown, Claimed
  <2> QED BY <1>1, <1>3, <2>1 DEF Holds
<1> QED BY <1>1, <1>2, <1>3, <1>4, <1>6, LawMoves

LEMMA LawHit ==
  ASSUME CountLaw, LockInv', NEW r \in Reqs, ReadHit(r)
  PROVE  CountLaw'
<1>1. UNCHANGED <<disk, copy, lost>> /\ req[r].pc = "hit" BY DEF ReadHit, OnlyReq, At
<1>2. /\ req'[r].pc = "unlock" /\ req'[r].then = "got" /\ req'[r].task = req[r].task
      /\ req'[r].way = req[r].way /\ req'[r].reserved = req[r].reserved
      /\ \A s \in Reqs \ {r} : req'[s] = req[s]
  BY LawTypes DEF ReadHit, CountLaw, LockInv, TypeOK, Request
<1>3. Claimed(req'[r]) BY <1>1, <1>2 DEF CountLaw, ClaimsKnown, Claimed
<1>4. \A i \in Ways : Holds(r, i)' => Holds(r, i) BY <1>1, <1>2 DEF Holds
<1> QED BY <1>1, <1>2, <1>3, <1>4, LawMoves

(* What a poll reads over is lost, and added up, if somebody was about to  *)
(* write it to disk.                                                       *)
LEMMA LawPolled ==
  ASSUME CountLaw, LockInv', NEW r \in Reqs, Poll(r) \/ Fetch(r)
  PROVE  CountLaw'
<1>1. /\ disk' = disk /\ req[r].pc \in {"poll", "fetch"} /\ Refreshed(r)
      /\ req[r].way \in Ways
  BY DEF Poll, Fetch, At, CountLaw, LockInv, WayKnown
<1>2. /\ req'[r].pc \in {"poll", "fetch", "got"} /\ req'[r].task = req[r].task
      /\ req'[r].way = req[r].way /\ req'[r].reserved = req[r].reserved
      /\ \A s \in Reqs \ {r} : req'[s] = req[s]
  <2>1. CASE Poll(r)
    <3>1. req' = [req EXCEPT ![r].pc = "fetch"] \/ req' = req BY <2>1 DEF Poll, Goto
    <3> QED BY <1>1, <3>1, LawTypes DEF CountLaw, LockInv, TypeOK, Request
  <2>2. CASE Fetch(r)
    BY <2>2, LawTypes DEF Fetch, CountLaw, LockInv, TypeOK, Request
  <2> QED BY <2>1, <2>2
<1>3. req[r].reserved = 1 BY <1>1 DEF CountLaw, ClaimsKnown, Claimed
<1>4. Claimed(req'[r]) BY <1>2, <1>3 DEF Claimed
<1>5. \A i \in Ways : Claims(i)' \subseteq Claims(i) BY <1>1, <1>2 DEF Claims, Holds
<1>6. \A i \in Ways : lost'[i] >= lost[i] BY <1>1, LostGrows DEF CountLaw, LockInv
<1>7. CopyCount(r)' BY <1>2 DEF CopyCount
<1>8. ASSUME NEW s \in Reqs \ {r}, req[s].pc \in {"put", "update", "store"}
      PROVE  \/ copy'[proc[s]][req[s].way] = copy[proc[s]][req[s].way]
             \/ /\ copy'[proc[s]][req[s].way] = disk[req[s].way]
                /\ req[s].pc = "store" => lost'[req[s].way] = lost[req[s].way] + 1
  <2>1. req[s].way \in Ways BY <1>8, LawTypes DEF CountLaw
  <2>2. CASE proc[s] # proc[r] \/ req[s].way # req[r].way
    BY <1>1, <2>1, <2>2, Known DEF Refreshed, CountLaw, LockInv, TypeOK, Bin
  <2>3. CASE proc[s] = proc[r] /\ req[s].way = req[r].way
    <3>1. copy'[proc[s]][req[s].way] = disk[req[s].way]
      BY <1>1, <2>1, <2>3, Known DEF Refreshed, CountLaw, LockInv, TypeOK, Bin
    <3>2. CASE req[s].pc = "store" /\ copy[proc[s]][req[s].way] # disk[req[s].way]
      <4>1. Overwrites(r) BY <2>3, <3>2 DEF Overwrites, At
      <4>2. lost' = [lost EXCEPT ![req[r].way] = lost[req[r].way] + 1]
        BY <1>1, <4>1 DEF Refreshed
      <4>3. lost'[req[s].way] = lost[req[s].way] + 1
        BY <2>1, <2>3, <4>2 DEF CountLaw, LockInv, TypeOK
      <4> QED BY <3>1, <4>3
    <3> QED BY <3>1, <3>2
  <2> QED BY <2>2, <2>3
<1> QED BY <1>1, <1>2, <1>4, <1>5, <1>6, <1>7, <1>8, LawKept

(* The requests of a process that ended count in no entry.                 *)
LEMMA EndedClaims ==
  ASSUME CountLaw, NEW p \in Procs, Gone(p)
  PROVE  /\ \A s \in Reqs \ Of(p) : req'[s] = req[s]
         /\ \A s \in Of(p) : Claimed(req'[s]) /\ CopyCount(s)'
         /\ \A i \in Ways : Claims(i)' \subseteq Claims(i) \ Of(p)
<1>1. \A s \in Reqs : req'[s] = IF s \in Of(p) THEN [NewReq EXCEPT !.pc = "gone"] ELSE req[s]
  BY DEF Gone
<1>2. \A s \in Of(p) : /\ req'[s].pc = "gone" /\ req'[s].reserved = 0
                       /\ req'[s].task = "read" /\ req'[s].origin = "net"
  BY <1>1 DEF NewReq, Of
<1>3. \A s \in Of(p) : Claimed(req'[s]) /\ CopyCount(s)' BY <1>2 DEF Claimed, CopyCount
<1>4. \A i \in Ways : Claims(i)' \subseteq Claims(i) \ Of(p)
  BY <1>1, <1>2 DEF Claims, Holds
<1> QED BY <1>1, <1>3, <1>4

LEMMA LawAfterCrash ==
  ASSUME CountLaw, LockInv', NEW p \in Procs, Crash(p)
  PROVE  CountLaw'
<1>1. UNCHANGED <<disk, copy, lost>> /\ Gone(p) BY DEF Crash
<1>2. \A i \in Ways : lost'[i] >= lost[i] BY <1>1, LawTypes DEF CountLaw
<1>3. Of(p) \in SUBSET Reqs BY DEF Of
<1>4. \A i \in Ways : Claims(i)' \subseteq Claims(i) BY <1>1, EndedClaims
<1> QED BY <1>1, <1>2, <1>3, <1>4, EndedClaims, LawKept

(* Nobody else is in the bin.                                              *)
LEMMA AloneInLaw ==
  ASSUME CountLaw, NEW r \in Reqs, req[r].pc \in Section
  PROVE  \A s \in Reqs \ {r} : req[s].pc \notin {"put", "update", "store"}
  BY DEF CountLaw, LockInv, FileOwned, Section

LEMMA LawScannedInVain ==
  ASSUME CountLaw, LockInv', NEW r \in Reqs, ScanNothing(r)
  PROVE  CountLaw'
<1>1. UNCHANGED <<disk, lost>> /\ req[r].pc = "scan" BY DEF ScanNothing, At
<1>2. \A s \in Reqs \ {r} : req[s].pc \notin {"put", "update", "store"}
  BY <1>1, AloneInLaw DEF Section
<1>3. CASE Releasing(r)
  <2>1. Gone(proc[r]) BY <1>3 DEF ScanNothing
  <2>2. \A i \in Ways : lost'[i] >= lost[i] BY <1>1, LawTypes DEF CountLaw
  <2>3. Of(proc[r]) \in SUBSET Reqs /\ r \in Of(proc[r]) BY DEF Of
  <2>4. /\ \A s \in Reqs \ Of(proc[r]) : req'[s] = req[s]
        /\ \A s \in Of(proc[r]) : Claimed(req'[s]) /\ CopyCount(s)'
        /\ \A i \in Ways : Claims(i)' \subseteq Claims(i)
    BY <2>1, Known, EndedClaims
  <2> QED BY <1>1, <1>2, <2>2, <2>3, <2>4, LawKept
<1>4. CASE ~Releasing(r)
  <2>1. /\ req'[r].pc = "unlock" /\ req'[r].task = req[r].task
        /\ req'[r].then = IF req[r].task = "read" THEN "net" ELSE "done"
        /\ req'[r].way = req[r].way /\ req'[r].origin = req[r].origin
        /\ req'[r].reserved = req[r].reserved
        /\ \A s \in Reqs \ {r} : req'[s] = req[s]
    <3>1. req' = [req EXCEPT ![r].pc = "unlock",
                    ![r].then = IF req[r].task = "read" THEN "net" ELSE "done"]
      BY <1>4 DEF ScanNothing
    <3> QED BY <3>1, LawTypes DEF CountLaw, LockInv, TypeOK, Request
  <2>2. Claimed(req'[r]) BY <1>1, <2>1 DEF CountLaw, ClaimsKnown, Claimed
  <2>3. \A i \in Ways : Holds(r, i)' => Holds(r, i) BY <1>1, <2>1 DEF Holds
  <2> QED BY <1>1, <1>2, <2>1, <2>2, <2>3, LawMoves
<1> QED BY <1>3, <1>4

LEMMA LawPut ==
  ASSUME CountLaw, LockInv', NEW r \in Reqs, PutData(r)
  PROVE  CountLaw'
<1>1. /\ UNCHANGED <<disk, copy, lost>> /\ req[r].pc = "put"
      /\ req' = [req EXCEPT ![r].pc = "update"]
  BY DEF PutData, At, Goto
<1>2. /\ req'[r].pc = "update" /\ req'[r].task = req[r].task /\ req'[r].way = req[r].way
      /\ req'[r].origin = req[r].origin /\ req'[r].reserved = req[r].reserved
      /\ \A s \in Reqs \ {r} : req'[s] = req[s]
  BY <1>1, LawTypes DEF CountLaw, LockInv, TypeOK, Request
<1>3. Claimed(req'[r]) BY <1>1, <1>2 DEF CountLaw, ClaimsKnown, Claimed
<1>4. CopyCount(r)' BY <1>1, <1>2 DEF CountLaw, CopyCounts, CopyCount
<1>5. \A i \in Ways : lost'[i] >= lost[i] BY <1>1, LawTypes DEF CountLaw
<1>6. \A i \in Ways : Claims(i)' \subseteq Claims(i) BY <1>1, <1>2 DEF Claims, Holds
<1>7. {r} \in SUBSET Reqs /\ \A x \in {r} : Claimed(req'[x]) /\ CopyCount(x)'
  BY <1>3, <1>4
<1> QED BY <1>1, <1>2, <1>5, <1>6, <1>7, LawKept

(* A set that grew by one member at most.                                  *)
LEMMA OneMore ==
  ASSUME NEW U, NEW V, NEW r, IsFiniteSet(U), V \subseteq U \cup {r}
  PROVE  /\ IsFiniteSet(V) /\ Cardinality(V) \in Nat /\ Cardinality(U) \in Nat
         /\ Cardinality(V) <= Cardinality(U) + 1
<1>1. Cardinality(U) \in Nat BY FS_CardinalityType
<1>2. /\ IsFiniteSet(U \cup {r}) /\ Cardinality(U \cup {r}) \in Nat
      /\ Cardinality(U \cup {r}) <= Cardinality(U) + 1
  BY <1>1, FS_AddElement, FS_CardinalityType
<1>3. IsFiniteSet(V) /\ Cardinality(V) <= Cardinality(U \cup {r}) BY <1>2, FS_Subset
<1>4. Cardinality(V) \in Nat BY <1>3, FS_CardinalityType
<1> QED BY <1>1, <1>2, <1>3, <1>4

(* A request that counts in one entry and finds another is added up there. *)
LEMMA LawScanned ==
  ASSUME CountLaw, LockInv', NEW r \in Reqs, Scan(r)
  PROVE  CountLaw'
<1>1. disk' = disk /\ req[r].pc = "scan" BY DEF Scan, At
<1>2. PICK i \in Found(r) :
        /\ copy' = [copy EXCEPT ![proc[r]] =
             IF disk[i].status = "AVAIL" /\ disk[i].blk # block[r]
             THEN [disk EXCEPT ![i].status = "EVICT"] ELSE disk]
        /\ req' = [req EXCEPT ![r].way = i,
             ![r].pc = IF /\ req[r].task = "write"
                          /\ copy'[proc[r]][i].status # "AVAIL"
                       THEN "put" ELSE "update"]
        /\ lost' = [lost EXCEPT ![i] = IF req[r].reserved = 1 /\ req[r].way # i
                                       THEN @ + 1 ELSE @]
  BY DEF Scan
<1>3. i \in Ways BY DEF Found, GetBlock, OldestBlock
<1>4. /\ req'[r].pc \in {"put", "update"} /\ req'[r].task = req[r].task /\ req'[r].way = i
      /\ req'[r].origin = req[r].origin /\ req'[r].reserved = req[r].reserved
      /\ \A s \in Reqs \ {r} : req'[s] = req[s]
  <2>1. PICK to \in {"put", "update"} : req' = [req EXCEPT ![r].way = i, ![r].pc = to]
    BY <1>2
  <2> QED BY <1>3, <2>1, LawTypes DEF CountLaw, LockInv, TypeOK, Request
<1>5. copy'[proc[r]][i].active = disk[i].active
  BY <1>2, <1>3, Known DEF CountLaw, LockInv, TypeOK, Bin
<1>6. ClaimsKnown'
  <2>1. Claimed(req'[r]) BY <1>1, <1>4 DEF CountLaw, ClaimsKnown, Claimed
  <2> QED BY <1>4, <2>1 DEF CountLaw, ClaimsKnown
<1>7. CopyCounts'
  <2> SUFFICES ASSUME NEW s \in Reqs PROVE CopyCount(s)' BY DEF CopyCounts
  <2>1. CASE s = r BY <1>1, <1>4, <1>5, <2>1 DEF CopyCount
  <2>2. CASE s # r
    <3>1. req'[s].pc \notin {"put", "update", "store"}
      BY <1>1, <1>4, <2>2, AloneInLaw DEF Section
    <3> QED BY <3>1 DEF CopyCount
  <2> QED BY <2>1, <2>2
<1>8. CountsHold'
  <2> SUFFICES ASSUME NEW j \in Ways PROVE CountHolds(j)' BY DEF CountsHold
  <2>1. CountHolds(j) BY DEF CountLaw, CountsHold
  <2>2. disk[j].active \in Int /\ lost[j] \in Nat BY LawTypes DEF CountLaw
  <2>3. CASE j = i /\ req[r].reserved = 1 /\ req[r].way # i
    <3>1. lost'[j] = lost[j] + 1 BY <1>2, <1>3, <2>3 DEF CountLaw, LockInv, TypeOK
    <3>2. Claims(j)' \subseteq Claims(j) \cup {r} BY <1>4 DEF Claims, Holds
    <3>3. IsFiniteSet(Claims(j)) /\ Cardinality(Claims(j)) <= disk[j].active + lost[j]
      BY <2>1 DEF CountHolds
    <3>4. /\ IsFiniteSet(Claims(j)') /\ Cardinality(Claims(j)') \in Nat
          /\ Cardinality(Claims(j)) \in Nat
          /\ Cardinality(Claims(j)') <= Cardinality(Claims(j)) + 1
      BY <3>2, <3>3, OneMore
    <3> QED BY <1>1, <2>2, <3>1, <3>3, <3>4 DEF CountHolds
  <2>4. CASE ~(j = i /\ req[r].reserved = 1 /\ req[r].way # i)
    <3>1. lost'[j] = lost[j] BY <1>2, <1>3, <2>4 DEF CountLaw, LockInv, TypeOK
    <3>2. Claims(j)' \subseteq Claims(j) BY <1>1, <1>4, <2>4 DEF Claims, Holds
    <3> QED BY <1>1, <2>1, <2>2, <3>1, <3>2, FewerClaims DEF CountHolds
  <2> QED BY <2>3, <2>4
<1> QED BY <1>6, <1>7, <1>8 DEF CountLaw

(* The copy counts a user more or less, and its user does not count on     *)
(* disk until that is written.                                             *)
LEMMA LawUpdated ==
  ASSUME CountLaw, LockInv', NEW r \in Reqs, Update(r)
  PROVE  CountLaw'
<1>0. PICK i : i = req[r].way OBVIOUS
<1> DEFINE e == copy[proc[r]][i]
<1>1. UNCHANGED <<disk, lost>> /\ req[r].pc = "update" BY DEF Update, At
<1>2. i \in Ways /\ e.active = disk[i].active
  BY <1>0, <1>1, LawTypes DEF CountLaw, CopyCounts, CopyCount
<1>3. copy'[proc[r]][i] = Updated(r, e)
  BY <1>0, <1>2, Known DEF Update, CountLaw, LockInv, TypeOK, Bin
<1>4. req[r].task \in {"read", "write"} /\ req[r].reserved \in {0, 1}
  BY LawTypes DEF CountLaw, Request
<1>5. /\ req'[r].pc = "store" /\ req'[r].task = req[r].task /\ req'[r].way = i
      /\ req'[r].then = Follows(r, e) /\ req'[r].origin = req[r].origin
      /\ req'[r].reserved = IF req[r].task = "read" THEN 1 ELSE req[r].reserved
      /\ \A s \in Reqs \ {r} : req'[s] = req[s]
  <2>1. PICK to \in {"net", "done", "hit", "poll", "exit"}, n \in {0, 1} :
          /\ to = Follows(r, e) /\ n = IF req[r].task = "read" THEN 1 ELSE req[r].reserved
          /\ req' = [req EXCEPT ![r].pc = "store", ![r].then = to, ![r].reserved = n]
    <3>1. Follows(r, e) \in {"net", "done", "hit", "poll", "exit"} BY DEF Follows
    <3> QED BY <1>0, <1>4, <3>1 DEF Update
  <2> DEFINE q == [req[r] EXCEPT !.pc = "store", !.then = to, !.reserved = n]
  <2>2. req[r] \in Request /\ req' = [req EXCEPT ![r] = q]
    BY <2>1 DEF CountLaw, LockInv, TypeOK
  <2>3. q \in Request
    <3>1. to \in {"net", "done", "hit", "poll", "exit"} /\ n \in {0, 1} BY <2>1
    <3> QED BY <2>2, <3>1 DEF Request
  <2>4. /\ q.pc = "store" /\ q.task = req[r].task /\ q.way = i
        /\ q.then = to /\ q.origin = req[r].origin /\ q.reserved = n
    BY <1>0, <2>2 DEF Request
  <2> HIDE DEF q, e
  <2> QED BY <2>1, <2>2, <2>3, <2>4, Becomes DEF CountLaw, LockInv
<1>6. Updated(r, e).active = IF Releasing(r) THEN disk[i].active - 1
                             ELSE IF req[r].task = "write" THEN disk[i].active + req[r].reserved
                             ELSE disk[i].active + 1
  <2>1. e \in [blk : Blocks \cup {None}, active : Int,
               status : {"EMPTY", "RES", "AVAIL", "EVICT"}]
    BY <1>2, Known DEF CountLaw, LockInv, TypeOK, Bin
  <2>2. /\ [e EXCEPT !.active = @ - 1].active = e.active - 1
        /\ [e EXCEPT !.active = @ + 1].active = e.active + 1
    BY <2>1
  <2> HIDE DEF e
  <2> QED BY <1>2, <2>2 DEF Updated
<1>7. Claimed(req[r]) /\ \A j \in Ways : CountHolds(j)
  BY DEF CountLaw, ClaimsKnown, CountsHold
<1>8. req[r].task = "write" => Follows(r, e) \in {"done", "exit"} BY DEF Follows
<1> HIDE DEF e
<1>9. ClaimsKnown'
  <2>1. Claimed(req'[r]) BY <1>4, <1>5, <1>7, <1>8 DEF Claimed
  <2> QED BY <1>5, <2>1 DEF CountLaw, ClaimsKnown
<1>10. \A j \in Ways : Claims(j)' \subseteq Claims(j) \ {r} BY <1>5 DEF Claims, Holds
<1>11. CountsHold'
  <2> SUFFICES ASSUME NEW j \in Ways PROVE CountHolds(j)' BY DEF CountsHold
  <2>1. CountHolds(j) /\ Claims(j)' \subseteq Claims(j) BY <1>7, <1>10
  <2>2. disk[j].active \in Int /\ lost[j] \in Nat BY LawTypes DEF CountLaw
  <2> QED BY <1>1, <2>1, <2>2, FewerClaims DEF CountHolds
<1>12. CopyCount(r)'
  <2> DEFINE C == Claims(i)
             D == C \ {r}
  <2>1. IsFiniteSet(C) /\ Cardinality(C) <= disk[i].active + lost[i]
    BY <1>2, <1>7 DEF CountHolds
  <2>2. /\ IsFiniteSet(D) /\ Cardinality(D) \in Nat /\ Cardinality(C) \in Nat
        /\ r \in C => Cardinality(D) = Cardinality(C) - 1
        /\ Cardinality(D) <= Cardinality(C)
    BY <2>1, FS_RemoveElement, FS_Subset, FS_CardinalityType
  <2>3. /\ Cardinality(Claims(i)') \in Nat
        /\ Cardinality(Claims(i)') <= Cardinality(D)
    BY <1>2, <1>10, <2>2, FS_Subset, FS_CardinalityType
  <2>4. disk[i].active \in Int /\ lost[i] \in Nat BY <1>2, LawTypes DEF CountLaw
  <2>5. Releasing(r) => r \in C
    BY <1>0, <1>1, <1>2, <1>7 DEF Claimed, Releasing, Claims, Holds
  <2> HIDE DEF C, D
  <2>6. Cardinality(Claims(i)') + Joins(req[r]) <= Updated(r, e).active + lost[i]
    <3>1. CASE Releasing(r)
      <4>1. Joins(req[r]) = 0 BY <3>1 DEF Joins, Releasing
      <4> QED BY <1>6, <2>1, <2>2, <2>3, <2>4, <2>5, <3>1, <4>1
    <3>2. CASE ~Releasing(r) /\ req[r].task = "write"
      <4>1. Joins(req[r]) = 0 BY <3>2 DEF Joins
      <4> QED BY <1>4, <1>6, <2>1, <2>2, <2>3, <2>4, <3>2, <4>1
    <3>3. CASE req[r].task = "read"
      <4>1. Joins(req[r]) = 1 /\ ~Releasing(r) BY <3>3 DEF Joins, Releasing
      <4> QED BY <1>6, <2>1, <2>2, <2>3, <2>4, <3>3, <4>1
    <3> QED BY <1>4, <3>1, <3>2, <3>3
  <2>7. Joins(req[r])' = Joins(req[r]) BY <1>5 DEF Joins
  <2>8. req'[r].way = i /\ copy'[proc[r]][i] = Updated(r, e) /\ lost' = lost
    BY <1>1, <1>3, <1>5
  <2> QED BY <1>5, <2>6, <2>7, <2>8 DEF CopyCount
<1>13. CopyCounts'
  <2> SUFFICES ASSUME NEW s \in Reqs \ {r} PROVE CopyCount(s)'
    BY <1>12 DEF CopyCounts
  <2>1. req'[s].pc \notin {"put", "update", "store"}
    BY <1>1, <1>5, AloneInLaw DEF Section
  <2> QED BY <2>1 DEF CopyCount
<1> QED BY <1>9, <1>11, <1>13 DEF CountLaw

(* What is written to disk counts its user, who counts from now on.        *)
LEMMA LawStored ==
  ASSUME CountLaw, LockInv', NEW r \in Reqs, Store(r)
  PROVE  CountLaw'
<1> DEFINE i == req[r].way
           e == copy[proc[r]][i]
<1>1. lost' = lost /\ req[r].pc = "store" /\ disk' = [disk EXCEPT ![i] = e]
  BY DEF Store, At
<1>2. i \in Ways /\ Cardinality(Claims(i)) + Joins(req[r]) <= e.active + lost[i]
  BY <1>1, LawTypes DEF CountLaw, CopyCounts, CopyCount
<1>3. disk'[i] = e /\ \A j \in Ways \ {i} : disk'[j] = disk[j]
  BY <1>1, <1>2 DEF CountLaw, LockInv, TypeOK, Bin
<1>4. /\ \A j \in Ways : disk[j].active \in Int /\ lost[j] \in Nat
      /\ e.active \in Int /\ req[r].task \in {"read", "write"}
  BY <1>2, Known, LawTypes DEF CountLaw, Request
<1> HIDE DEF e
<1>5. \A j \in Ways : CountHolds(j) BY DEF CountLaw, CountsHold
<1>6. \A s \in Reqs \ {r} : req[s].pc \notin {"put", "update", "store"}
  BY <1>1, AloneInLaw DEF Section
<1>7. ASSUME ClaimsKnown',
             \A s \in Reqs : req'[s] = req[s] \/ req'[s].pc \notin {"put", "update", "store"},
             req'[r].pc # "store",
             \A j \in Ways : Claims(j)' \subseteq
               IF j = i /\ req[r].task = "read" THEN Claims(j) \cup {r} ELSE Claims(j)
      PROVE  CountLaw'
  <2>1. CopyCounts'
    <3> SUFFICES ASSUME NEW s \in Reqs PROVE CopyCount(s)' BY DEF CopyCounts
    <3>1. req'[s].pc \notin {"put", "update", "store"} BY <1>1, <1>6, <1>7
    <3> QED BY <3>1 DEF CopyCount
  <2>2. CountsHold'
    <3> SUFFICES ASSUME NEW j \in Ways PROVE CountHolds(j)' BY DEF CountsHold
    <3>1. IsFiniteSet(Claims(j)) /\ Cardinality(Claims(j)) <= disk[j].active + lost[j]
      BY <1>5 DEF CountHolds
    <3>2. CASE j = i /\ req[r].task = "read"
      <4>1. /\ IsFiniteSet(Claims(j)') /\ Cardinality(Claims(j)') \in Nat
            /\ Cardinality(Claims(j)) \in Nat
            /\ Cardinality(Claims(j)') <= Cardinality(Claims(j)) + 1
        BY <1>7, <3>1, <3>2, OneMore
      <4>2. Cardinality(Claims(j)) + 1 <= e.active + lost[j] BY <1>2, <3>2 DEF Joins
      <4>3. Cardinality(Claims(j)') <= e.active + lost[j] BY <1>4, <4>1, <4>2
      <4> QED BY <1>1, <1>3, <3>2, <4>1, <4>3 DEF CountHolds
    <3>3. CASE j = i /\ req[r].task = "write"
      <4>1. Claims(j)' \subseteq Claims(j) BY <1>7, <3>3
      <4>2. /\ IsFiniteSet(Claims(j)') /\ Cardinality(Claims(j)') \in Nat
            /\ Cardinality(Claims(j)) \in Nat
            /\ Cardinality(Claims(j)') <= Cardinality(Claims(j))
        BY <3>1, <4>1, FewerClaims
      <4>3. Joins(req[r]) = 0 BY <3>3 DEF Joins
      <4>4. Cardinality(Claims(j)') <= e.active + lost[j]
        BY <1>2, <1>4, <3>3, <4>2, <4>3
      <4> QED BY <1>1, <1>3, <3>3, <4>2, <4>4 DEF CountHolds
    <3>4. CASE j # i
      <4>1. Claims(j)' \subseteq Claims(j) BY <1>7, <3>4
      <4> QED BY <1>1, <1>3, <1>4, <3>1, <3>4, <4>1, FewerClaims DEF CountHolds
    <3> QED BY <1>4, <3>2, <3>3, <3>4
  <2> QED BY <1>7, <2>1, <2>2 DEF CountLaw
<1>8. CASE req[r].then = "exit"
  <2>1. Gone(proc[r]) /\ r \in Of(proc[r]) BY <1>8 DEF Store, Of
  <2>2. /\ \A s \in Reqs \ Of(proc[r]) : req'[s] = req[s]
        /\ \A s \in Of(proc[r]) : Claimed(req'[s])
        /\ \A j \in Ways : Claims(j)' \subseteq Claims(j)
    BY <2>1, Known, EndedClaims
  <2>3. ClaimsKnown' BY <2>2 DEF CountLaw, ClaimsKnown
  <2>4. \A s \in Of(proc[r]) : req'[s].pc = "gone" BY <2>1 DEF Gone, Of, NewReq
  <2> QED BY <1>7, <2>1, <2>2, <2>3, <2>4
<1>9. CASE req[r].then # "exit"
  <2>1. /\ req'[r].pc \in {"hit", "unlock"} /\ (req'[r].pc = "hit" <=> req[r].then = "hit")
        /\ req'[r].task = req[r].task /\ req'[r].then = req[r].then
        /\ req'[r].way = i /\ req'[r].origin = req[r].origin
        /\ req'[r].reserved = req[r].reserved
        /\ \A s \in Reqs \ {r} : req'[s] = req[s]
    <3>1. PICK to \in {"hit", "unlock"} : /\ to = "hit" <=> req[r].then = "hit"
                                          /\ req' = [req EXCEPT ![r].pc = to]
      BY <1>9 DEF Store, Goto
    <3> QED BY <3>1, LawTypes DEF CountLaw, LockInv, TypeOK, Request
  <2>2. Claimed(req'[r]) BY <1>1, <2>1 DEF CountLaw, ClaimsKnown, Claimed
  <2>3. ClaimsKnown' BY <2>1, <2>2 DEF CountLaw, ClaimsKnown
  <2>4. req[r].task = "write" => \A j \in Ways : ~Holds(r, j)'
    BY <1>1, <2>1 DEF Holds, CountLaw, ClaimsKnown, Claimed
  <2>5. \A j \in Ways : Claims(j)' \subseteq
          IF j = i /\ req[r].task = "read" THEN Claims(j) \cup {r} ELSE Claims(j)
    BY <1>4, <2>1, <2>4 DEF Claims, Holds
  <2> QED BY <1>7, <2>1, <2>3, <2>5
<1> QED BY <1>8, <1>9

LEMMA LawStep == CountLaw /\ [Next]_vars => CountLaw'
<1> SUFFICES ASSUME CountLaw, [Next]_vars PROVE CountLaw' OBVIOUS
<1>1. LockInv' BY LockStep DEF CountLaw
<1>2. ASSUME UNCHANGED <<disk, copy, req, lost>> PROVE CountLaw'
  <2>1. \A i \in Ways : lost'[i] >= lost[i] /\ Claims(i)' \subseteq Claims(i)
    BY <1>2, LawTypes DEF CountLaw, Claims, Holds
  <2>2. {} \in SUBSET Reqs OBVIOUS
  <2> QED BY <1>1, <1>2, <2>1, <2>2, LawKept
<1>3. ASSUME NEW p \in Procs, MakeDirectory(p) \/ Start(p) PROVE CountLaw'
  BY <1>2, <1>3 DEF MakeDirectory, Start, CreateEntries, CreateData, FilesAppear,
       FilesDoNotAppear, MakeFlags, FlagsReady, AwaitFlags, MakeLinkFiles, OnlyStarting
<1>4. ASSUME NEW p \in Procs, Crash(p) PROVE CountLaw' BY <1>1, <1>4, LawAfterCrash
<1>5. ASSUME NEW r \in Reqs,
             ReadBlock(r) \/ LockFlag(r) \/ LockFile(r) \/ Poll(r) \/ PollTimeout(r)
      PROVE  CountLaw'
  BY <1>1, <1>5, LawPassed, LawPolled
<1>6. ASSUME NEW r \in Reqs, Step(r) PROVE CountLaw'
  BY <1>1, <1>6, LawUnlocked, LawScanned, LawScannedInVain, LawPut, LawUpdated, LawStored,
     LawHit, LawPolled, LawAnswered
  DEF Step
<1>7. CASE UNCHANGED vars BY <1>2, <1>7 DEF vars
<1> QED BY <1>3, <1>4, <1>5, <1>6, <1>7 DEF Next

(* The count of an entry on disk falls behind its users by no more than    *)
(* what was read over, for any number of requests of a process, whichever  *)
(* processes died, in whichever step (incBlkCnt, blockSet, decBlkCnt,      *)
(* against blockAvailable).                                                *)
THEOREM UsersCovered == Spec => []CountBehindByLost
<1>1. ASSUME CountLaw, NEW i \in Ways
      PROVE  Cardinality({r \in Reqs : Living(r) /\ Holds(r, i)}) <= disk[i].active + lost[i]
  <2> DEFINE H == {r \in Reqs : Living(r) /\ Holds(r, i)}
  <2>1. H \subseteq Claims(i) BY DEF Claims
  <2>2. IsFiniteSet(Claims(i)) /\ Cardinality(Claims(i)) <= disk[i].active + lost[i]
    BY <1>1 DEF CountLaw, CountsHold, CountHolds
  <2> HIDE DEF H
  <2>3. /\ Cardinality(H) <= Cardinality(Claims(i)) /\ Cardinality(H) \in Nat
        /\ Cardinality(Claims(i)) \in Nat
    BY <2>1, <2>2, FS_Subset, FS_CardinalityType
  <2>4. disk[i].active + lost[i] \in Int BY <1>1, LawTypes DEF CountLaw
  <2>5. Cardinality(H) <= disk[i].active + lost[i] BY <2>2, <2>3, <2>4
  <2> QED BY <2>5 DEF H
<1>2. CountLaw => CountBehindByLost BY <1>1 DEF CountBehindByLost, Holders
<1> QED BY <1>2, LawInitially, LawStep, PTL DEF Spec

(* What the comment before blockAvailable says holds until a poll reads    *)
(* over a change: the count of an entry on disk covers its users.          *)
THEOREM CountsProtect == Spec => [](NothingLost => CountCoversUsers)
<1>1. TypeOK /\ CountBehindByLost /\ NothingLost => CountCoversUsers
  BY DEF TypeOK, Bin, CountBehindByLost, NothingLost, CountCoversUsers
<1> QED BY <1>1, TypeCorrect, UsersCovered, PTL

===============================================================================
