---------------------------- MODULE LocalCacheProofs ----------------------------
(***************************************************************************)
(* The caches over local files, for any number of processes, users,        *)
(* requests, blocks and entries, and any levels.                           *)
(*                                                                         *)
(* A request keeps its data because the slot that it points into is        *)
(* counted, and the count is exact because a request comes to each level   *)
(* once on its way down, and because a bin has no block twice: a release   *)
(* finds the very entry that was reserved.  A stream stays open because    *)
(* the file has a user, and a user does not close what it still asks for.  *)
(***************************************************************************)
EXTENDS LocalCache, FiniteSetTheorems, TLAPS

(* How far a level is from the disk.                                       *)
Depth == CHOOSE depth \in [Caches \cup {Disk} -> 0 .. Cardinality(Caches)] :
           \A c \in Caches : depth[next[c]] < depth[c]

(* An entry that was never used has no block; one that is available has    *)
(* the data of its block.                                                  *)
EntrySound(c, i) ==
  /\ bin[c][i].status = "EMPTY" <=> bin[c][i].blk = None
  /\ bin[c][i].status = "AVAIL" => data[c][i] = bin[c][i].blk

(* Bins fill from the front, and have no block twice.                      *)
EntriesSound ==
  /\ \A c \in Caches, i \in Ways : EntrySound(c, i)
  /\ \A c \in Caches, i, j \in Ways :
       bin[c][i].status = "EMPTY" /\ i < j => bin[c][j].status = "EMPTY"
  /\ \A c \in Caches, i, j \in Ways :
       bin[c][i].blk = bin[c][j].blk /\ bin[c][i].blk # None => i = j

(* On its way down, a request has reserved nothing from its level on.      *)
Descending(r) ==
  /\ req[r].pc = "idle" => req[r].reserved = {}
  /\ req[r].pc = "read" /\ req[r].level \in Caches
       => \A d \in req[r].reserved : Depth[req[r].level] < Depth[d]

(* It is counted in the entry that it waits for, or that has its data.     *)
Waiting(r) ==
  req[r].pc = "wait" => /\ req[r].level \in Caches
                        /\ r \in Holders(req[r].level, req[r].slot)
Pointing(r) ==
  req[r].pc \in {"ready", "write"} =>
    /\ req[r].origin \in Caches \cup {Disk}
    /\ req[r].origin = Disk => req[r].buffer = block[r]
    /\ req[r].origin \in Caches =>
         /\ r \in Holders(req[r].origin, req[r].slot)
         /\ bin[req[r].origin][req[r].slot].status = "AVAIL"

(* It has the stream for itself while it reads there, and its user has the *)
(* file open until the data is there.                                      *)
Fetching(r) ==
  /\ req[r].pc = "fetch" => StreamOf(r).lock = r /\ StreamOf(r).pos = block[r]
  /\ req[r].pc \notin {"idle", "write", "done"} => status[user[r]] = "open"

RequestSound(r) == Descending(r) /\ Waiting(r) /\ Pointing(r) /\ Fetching(r)

StreamsOpen ==
  \A u \in Users : status[u] = "open" => \A f \in FileOf(u) : stream[proc[u]][f].open

Inv ==
  /\ TypeOK /\ EntriesSound /\ CountExact /\ StreamsOpen
  /\ \A r \in Reqs : RequestSound(r)

-------------------------------------------------------------------------------
(* Facts about levels and entries.                                         *)

(* Each level is nearer to the disk than the one above it.                 *)
LEMMA DepthDescends ==
  \A c \in Caches : /\ Depth[c] \in Int /\ Depth[next[c]] \in Int
                    /\ Depth[next[c]] < Depth[c]
<1> DEFINE Good(d) == /\ d \in [Caches \cup {Disk} -> 0 .. Cardinality(Caches)]
                      /\ \A c \in Caches : d[next[c]] < d[c]
<1>1. Good(Depth)
  BY LevelsDescend DEF Depth
<1>2. \A c \in Caches : next[c] \in Caches \cup {Disk}
  BY LocalCacheConstants
<1> QED
  BY <1>1, <1>2

(* An entry has finitely many holders, so that they can be counted.        *)
LEMMA HoldersFinite ==
  \A c \in Caches, i \in Ways :
    IsFiniteSet(Holders(c, i)) /\ Cardinality(Holders(c, i)) \in Nat
<1> SUFFICES ASSUME NEW c \in Caches, NEW i \in Ways
             PROVE  IsFiniteSet(Holders(c, i)) /\ Cardinality(Holders(c, i)) \in Nat
  OBVIOUS
<1>1. Holders(c, i) \subseteq Reqs
  BY DEF Holders
<1> QED
  BY <1>1, FS_Subset, FS_CardinalityType, LocalCacheConstants

(* A request that waits, or points, at an entry shows that it is in use.   *)
LEMMA HeldEntry ==
  ASSUME Inv, NEW c \in Caches, NEW i \in Ways, NEW r \in Holders(c, i)
  PROVE  /\ bin[c][i].active \in Nat /\ bin[c][i].active > 0
         /\ bin[c][i].blk = block[r] /\ bin[c][i].status # "EMPTY"
<1>1. Cardinality(Holders(c, i)) # 0
  BY HoldersFinite, FS_EmptySet
<1>2. bin[c][i].active = Cardinality(Holders(c, i))
  BY DEF Inv, CountExact
<1>3. bin[c][i].blk = block[r] /\ r \in Reqs
  BY DEF Holders, Same
<1>4. block[r] # None
  BY <1>3, LocalCacheConstants
<1> QED
  BY <1>1, <1>2, <1>3, <1>4, HoldersFinite DEF Inv, EntriesSound, EntrySound

(* What oldestBlockIndex returns has the block, or else nobody holds it    *)
(* and no entry of the bin has the block.                                  *)
LEMMA OldestFree ==
  ASSUME Inv, NEW c \in Caches, NEW r \in Reqs, NEW i \in Oldest(c, block[r]),
         ~Same(c, i, r)
  PROVE  /\ i \in Ways /\ bin[c][i].active = 0 /\ Holders(c, i) = {}
         /\ \A j \in Ways : ~Same(c, j, r)
         /\ \A j \in Ways : j < i => bin[c][j].status # "EMPTY"
         /\ c \notin req[r].reserved
<1> DEFINE stop == {j \in Ways : bin[c][j].blk = block[r] \/ bin[c][j].status = "EMPTY"}
<1>1. i \in Ways
  BY DEF Oldest
<1>2. block[r] # None
  BY LocalCacheConstants
<1>3. \A j \in Ways : j \in Int
  BY DEF Ways
<1>4. CASE stop # {}
  <2>1. i \in stop /\ \A j \in stop : i <= j
    BY <1>4 DEF Oldest
  <2>2. bin[c][i].status = "EMPTY"
    BY <2>1 DEF Same
  <2>3. \A j \in Ways : ~Same(c, j, r)
    <3> SUFFICES ASSUME NEW j \in Ways, Same(c, j, r)
                 PROVE  FALSE
      OBVIOUS
    <3>1. j \in stop /\ i # j
      BY DEF Same
    <3>2. i < j
      BY <1>1, <1>3, <2>1, <3>1
    <3>3. bin[c][j].status = "EMPTY"
      BY <1>1, <2>2, <3>2 DEF Inv, EntriesSound
    <3> QED
      BY <1>2, <3>3 DEF Inv, EntriesSound, EntrySound, Same
  <2>4. \A j \in Ways : j < i => bin[c][j].status # "EMPTY"
    BY <1>1, <1>3, <2>1
  <2>5. bin[c][i].blk = None
    BY <1>1, <2>2 DEF Inv, EntriesSound, EntrySound
  <2>6. Holders(c, i) = {}
    BY <2>5, LocalCacheConstants DEF Holders, Same
  <2>7. bin[c][i].active = 0
    BY <1>1, <2>6, FS_EmptySet DEF Inv, CountExact
  <2> QED
    BY <1>1, <2>3, <2>4, <2>6, <2>7 DEF Inv, CountExact
<1>5. CASE stop = {}
  <2>1. bin[c][i].active = 0
    BY <1>5 DEF Oldest
  <2>2. Holders(c, i) = {}
    BY <1>1, <2>1, HoldersFinite, FS_EmptySet DEF Inv, CountExact
  <2>3. \A j \in Ways : ~Same(c, j, r) /\ bin[c][j].status # "EMPTY"
    BY <1>5 DEF Same
  <2> QED
    BY <1>1, <2>1, <2>2, <2>3 DEF Inv, CountExact
<1> QED
  BY <1>4, <1>5

(* A set of numbers that is not empty has a least one.                     *)
LEMMA LeastExists ==
  ASSUME NEW S, S \subseteq Nat, S # {}
  PROVE  \E j \in S : \A k \in S : j <= k
<1> DEFINE R == OpToRel(<, Nat)
<1>1. IsWellFoundedOn(R, Nat)
  BY NatLessThanWellFounded
<1>2. PICK j \in S : \A k \in S : <<k, j>> \notin R
  <2> HIDE DEF R
  <2> QED
    BY <1>1, WFMin
<1>3. \A k \in S : ~(k < j)
  BY <1>2 DEF OpToRel
<1> HIDE DEF R
<1> QED
  BY <1>2, <1>3

(* When there is no such entry, the request has nothing reserved here.     *)
LEMMA FullUnreserved ==
  ASSUME Inv, NEW c \in Caches, NEW r \in Reqs, Oldest(c, block[r]) = {}
  PROVE  c \notin req[r].reserved
<1> DEFINE stop == {j \in Ways : bin[c][j].blk = block[r] \/ bin[c][j].status = "EMPTY"}
<1>1. CASE stop # {}
  <2>1. PICK j \in stop : \A k \in stop : j <= k
    <3>1. stop \subseteq Nat /\ stop # {}
      BY <1>1, LocalCacheConstants DEF Ways
    <3> HIDE DEF stop
    <3> QED
      BY <3>1, LeastExists
  <2> QED
    BY <1>1, <2>1 DEF Oldest
<1>2. CASE stop = {}
  BY <1>2 DEF Inv, CountExact, Same
<1> QED
  BY <1>1, <1>2

-------------------------------------------------------------------------------
(* What a step on one entry of a bin does to the rest.                     *)

(* The other entries, and what the other requests reserved, stay.          *)
OthersKept(c, i) ==
  \A d \in Caches, j \in Ways : <<d, j>> # <<c, i>> => bin'[d][j] = bin[d][j]
OthersReserve(r) ==
  \A q \in Reqs \ {r} : req'[q].reserved = req[q].reserved

(* The entry keeps its block and is what it was for, with its data.        *)
EntryStays(c, i) ==
  bin'[c][i].blk = bin[c][i].blk /\ bin'[c][i].status = bin[c][i].status

(* An entry that keeps its block, and is now or stays available with the   *)
(* block's data, leaves the bins as they should be.                        *)
LEMMA SameBlocks ==
  ASSUME Inv, NEW c \in Caches, NEW i \in Ways, OthersKept(c, i),
         bin'[c][i].blk = bin[c][i].blk,
         \A d \in Caches, j \in Ways : <<d, j>> # <<c, i>> => data'[d][j] = data[d][j],
         \/ bin'[c][i].status = bin[c][i].status /\ data'[c][i] = data[c][i]
         \/ /\ bin[c][i].status # "EMPTY" /\ bin'[c][i].status = "AVAIL"
            /\ data'[c][i] = bin[c][i].blk
  PROVE  EntriesSound'
<1>1. \A d \in Caches, j \in Ways :
        /\ bin'[d][j].blk = bin[d][j].blk
        /\ bin'[d][j].status = "EMPTY" <=> bin[d][j].status = "EMPTY"
  BY DEF OthersKept
<1>2. \A d \in Caches, j \in Ways : EntrySound(d, j)'
  <2> SUFFICES ASSUME NEW d \in Caches, NEW j \in Ways
               PROVE  EntrySound(d, j)'
    OBVIOUS
  <2>1. EntrySound(d, j)
    BY DEF Inv, EntriesSound
  <2>2. CASE <<d, j>> = <<c, i>>
    BY <1>1, <2>1, <2>2 DEF EntrySound
  <2>3. CASE <<d, j>> # <<c, i>>
    BY <1>1, <2>1, <2>3 DEF EntrySound, OthersKept
  <2> QED
    BY <2>2, <2>3
<1> QED
  BY <1>1, <1>2 DEF Inv, EntriesSound

(* An entry that oldestBlockIndex returned is taken for the block.         *)
LEMMA TakenBlock ==
  ASSUME Inv, NEW c \in Caches, NEW r \in Reqs, NEW i \in Oldest(c, block[r]),
         ~Same(c, i, r), OthersKept(c, i),
         bin'[c][i].blk = block[r], bin'[c][i].status \in {"RES", "AVAIL"},
         \A d \in Caches, j \in Ways : <<d, j>> # <<c, i>> => data'[d][j] = data[d][j],
         bin'[c][i].status = "AVAIL" => data'[c][i] = block[r]
  PROVE  EntriesSound'
<1>1. /\ i \in Ways
      /\ \A j \in Ways : ~Same(c, j, r)
      /\ \A j \in Ways : j < i => bin[c][j].status # "EMPTY"
  BY OldestFree
<1>2. block[r] # None /\ bin'[c][i].status # "EMPTY"
  BY LocalCacheConstants
<1>3. \A d \in Caches, j \in Ways : EntrySound(d, j)'
  <2> SUFFICES ASSUME NEW d \in Caches, NEW j \in Ways
               PROVE  EntrySound(d, j)'
    OBVIOUS
  <2>1. CASE <<d, j>> = <<c, i>>
    BY <1>2, <2>1 DEF EntrySound
  <2>2. CASE <<d, j>> # <<c, i>>
    BY <2>2 DEF Inv, EntriesSound, EntrySound, OthersKept
  <2> QED
    BY <2>1, <2>2
<1>4. ASSUME NEW d \in Caches, NEW j \in Ways, NEW k \in Ways,
             bin'[d][j].status = "EMPTY", j < k
      PROVE  bin'[d][k].status = "EMPTY"
  <2>1. <<d, j>> # <<c, i>> /\ bin[d][j].status = "EMPTY"
    BY <1>2, <1>4 DEF OthersKept
  <2>2. bin[d][k].status = "EMPTY" /\ <<d, k>> # <<c, i>>
    BY <1>1, <1>4, <2>1 DEF Inv, EntriesSound
  <2> QED
    BY <2>2 DEF OthersKept
<1>5. ASSUME NEW d \in Caches, NEW j \in Ways, NEW k \in Ways,
             bin'[d][j].blk = bin'[d][k].blk, bin'[d][j].blk # None
      PROVE  j = k
  <2>1. CASE d # c \/ (j # i /\ k # i)
    <3>1. bin'[d][j] = bin[d][j] /\ bin'[d][k] = bin[d][k]
      BY <2>1 DEF OthersKept
    <3> QED
      BY <1>5, <3>1 DEF Inv, EntriesSound
  <2>2. ASSUME d = c, j = i, k # i
        PROVE  FALSE
    <3>1. bin'[c][k] = bin[c][k]
      BY <2>2 DEF OthersKept
    <3> QED
      BY <1>1, <1>5, <2>2, <3>1 DEF Same
  <2>3. ASSUME d = c, j # i, k = i
        PROVE  FALSE
    <3>1. bin'[c][j] = bin[c][j]
      BY <2>3 DEF OthersKept
    <3> QED
      BY <1>1, <1>5, <2>3, <3>1 DEF Same
  <2> QED
    BY <2>1, <2>2, <2>3
<1> QED
  BY <1>3, <1>4, <1>5 DEF EntriesSound

(* A request that had nothing reserved joins the holders of an entry.      *)
LEMMA JoinedCount ==
  ASSUME Inv, NEW c \in Caches, NEW i \in Ways, NEW r \in Reqs, Same(c, i, r),
         c \notin req[r].reserved, OthersKept(c, i), OthersReserve(r),
         bin'[c][i].blk = bin[c][i].blk, bin'[c][i].active = bin[c][i].active + 1,
         req'[r].reserved = req[r].reserved \cup {c}
  PROVE  CountExact'
<1>1. \A d \in Caches, j \in Ways : bin'[d][j].blk = bin[d][j].blk
  BY DEF OthersKept
<1>2. Holders(c, i)' = Holders(c, i) \cup {r} /\ r \notin Holders(c, i)
  BY <1>1 DEF Holders, Same, OthersReserve
<1>3. \A d \in Caches, j \in Ways : <<d, j>> # <<c, i>> => Holders(d, j)' = Holders(d, j)
  <2> SUFFICES ASSUME NEW d \in Caches, NEW j \in Ways, <<d, j>> # <<c, i>>
               PROVE  Holders(d, j)' = Holders(d, j)
    OBVIOUS
  <2>1. block[r] # None
    BY LocalCacheConstants
  <2>2. d = c => ~Same(c, j, r)
    BY <2>1 DEF Inv, EntriesSound, Same
  <2>3. ASSUME NEW q \in Reqs
        PROVE  (d \in req'[q].reserved /\ Same(d, j, q)') <=> (d \in req[q].reserved /\ Same(d, j, q))
    <3>1. Same(d, j, q)' <=> Same(d, j, q)
      BY <1>1 DEF Same
    <3>2. CASE q = r
      BY <2>2, <3>1, <3>2
    <3>3. CASE q # r
      BY <3>1, <3>3 DEF OthersReserve
    <3> QED
      BY <3>2, <3>3
  <2> QED
    BY <2>3 DEF Holders
<1>4. Cardinality(Holders(c, i)') = Cardinality(Holders(c, i)) + 1
  BY <1>2, HoldersFinite, FS_AddElement
<1>5. \A d \in Caches, j \in Ways : bin'[d][j].active = Cardinality(Holders(d, j)')
  BY <1>3, <1>4 DEF Inv, CountExact, OthersKept
<1>6. \A q \in Reqs : \A d \in req'[q].reserved : \E j \in Ways : Same(d, j, q)'
  <2> SUFFICES ASSUME NEW q \in Reqs, NEW d \in req'[q].reserved
               PROVE  \E j \in Ways : Same(d, j, q)'
    OBVIOUS
  <2>1. CASE d \in req[q].reserved
    <3>1. PICK j \in Ways : Same(d, j, q)
      BY <2>1 DEF Inv, CountExact
    <3>2. d \in Caches
      BY <2>1 DEF Inv, TypeOK
    <3> QED
      BY <1>1, <3>1, <3>2 DEF Same
  <2>2. CASE d \notin req[q].reserved
    <3>1. q = r /\ d = c
      BY <2>2 DEF OthersReserve
    <3> QED
      BY <1>1, <3>1 DEF Same
  <2> QED
    BY <2>1, <2>2
<1> QED
  BY <1>5, <1>6 DEF CountExact

(* A request releases the entry with its block, if it had reserved it.     *)
LEMMA ReleasedCount ==
  ASSUME Inv, NEW c \in Caches, NEW i \in Ways, NEW r \in Reqs, Same(c, i, r),
         OthersKept(c, i), OthersReserve(r), bin'[c][i].blk = bin[c][i].blk,
         bin'[c][i].active = bin[c][i].active - Release(r, c),
         req'[r].reserved = req[r].reserved \ {c}
  PROVE  CountExact' /\ bin'[c][i].active \in Nat
<1>1. \A d \in Caches, j \in Ways : bin'[d][j].blk = bin[d][j].blk
  BY DEF OthersKept
<1>2. \A d \in Caches, j \in Ways : <<d, j>> # <<c, i>> => Holders(d, j)' = Holders(d, j)
  <2> SUFFICES ASSUME NEW d \in Caches, NEW j \in Ways, <<d, j>> # <<c, i>>
               PROVE  Holders(d, j)' = Holders(d, j)
    OBVIOUS
  <2>1. block[r] # None
    BY LocalCacheConstants
  <2>2. d = c => ~Same(c, j, r)
    BY <2>1 DEF Inv, EntriesSound, Same
  <2>3. ASSUME NEW q \in Reqs
        PROVE  (d \in req'[q].reserved /\ Same(d, j, q)') <=> (d \in req[q].reserved /\ Same(d, j, q))
    <3>1. Same(d, j, q)' <=> Same(d, j, q)
      BY <1>1 DEF Same
    <3>2. CASE q = r
      BY <2>2, <3>1, <3>2
    <3>3. CASE q # r
      BY <3>1, <3>3 DEF OthersReserve
    <3> QED
      BY <3>2, <3>3
  <2> QED
    BY <2>3 DEF Holders
<1>3. Holders(c, i)' = Holders(c, i) \ {r}
  BY <1>1 DEF Holders, Same, OthersReserve
<1>4. r \in Holders(c, i) <=> c \in req[r].reserved
  BY DEF Holders
<1>5. /\ Cardinality(Holders(c, i)') = Cardinality(Holders(c, i)) - Release(r, c)
      /\ Cardinality(Holders(c, i)') \in Nat
  <2>1. CASE c \in req[r].reserved
    BY <1>3, <1>4, <2>1, HoldersFinite, FS_RemoveElement, FS_CardinalityType DEF Release
  <2>2. CASE c \notin req[r].reserved
    <3>1. Holders(c, i)' = Holders(c, i)
      BY <1>3, <1>4, <2>2
    <3>2. Release(r, c) = 0 /\ Cardinality(Holders(c, i)) \in Nat
      BY <2>2, HoldersFinite DEF Release
    <3> QED
      BY <3>1, <3>2
  <2> QED
    BY <2>1, <2>2
<1>6. /\ \A d \in Caches, j \in Ways : bin'[d][j].active = Cardinality(Holders(d, j)')
      /\ bin'[c][i].active \in Nat
  BY <1>2, <1>5 DEF Inv, CountExact, OthersKept
<1>7. \A q \in Reqs : \A d \in req'[q].reserved : \E j \in Ways : Same(d, j, q)'
  <2> SUFFICES ASSUME NEW q \in Reqs, NEW d \in req'[q].reserved
               PROVE  \E j \in Ways : Same(d, j, q)'
    OBVIOUS
  <2>1. d \in req[q].reserved
    BY DEF OthersReserve
  <2>2. d \in Caches
    BY <2>1 DEF Inv, TypeOK
  <2> QED
    BY <1>1, <2>1, <2>2 DEF Inv, CountExact, Same
<1> QED
  BY <1>6, <1>7 DEF CountExact

(* A taken entry has lost its holders, if any, before it was taken: it is  *)
(* held by the request that reserves it, and by nobody otherwise.          *)
LEMMA TakenCount ==
  ASSUME Inv, NEW c \in Caches, NEW r \in Reqs, NEW i \in Oldest(c, block[r]),
         ~Same(c, i, r), OthersKept(c, i), OthersReserve(r),
         bin'[c][i].blk = block[r],
         \/ req'[r].reserved = req[r].reserved \cup {c} /\ bin'[c][i].active = 1
         \/ req'[r].reserved = req[r].reserved /\ bin'[c][i].active = 0
  PROVE  CountExact'
<1>1. /\ i \in Ways /\ Holders(c, i) = {} /\ c \notin req[r].reserved
      /\ \A j \in Ways : ~Same(c, j, r)
  BY OldestFree
<1>2. ASSUME NEW q \in Reqs, c \in req[q].reserved
      PROVE  q # r /\ \E j \in Ways : j # i /\ Same(c, j, q)
  <2>1. PICK j \in Ways : Same(c, j, q)
    BY <1>2 DEF Inv, CountExact
  <2>2. q \notin Holders(c, i)
    BY <1>1
  <2> QED
    BY <1>1, <1>2, <2>1, <2>2 DEF Holders
<1>3. ASSUME NEW q \in Reqs, c \in req[q].reserved
      PROVE  block[q] # block[r]
  BY <1>1, <1>2, <1>3 DEF Same
<1>4. Holders(c, i)' = IF c \in req'[r].reserved THEN {r} ELSE {}
  <2>1. ASSUME NEW q \in Reqs \ {r}
        PROVE  ~(c \in req'[q].reserved /\ Same(c, i, q)')
    BY <1>3 DEF OthersReserve, Same
  <2>2. Same(c, i, r)'
    BY DEF Same
  <2> QED
    BY <2>1, <2>2 DEF Holders
<1>5. bin'[c][i].active = Cardinality(Holders(c, i)')
  BY <1>1, <1>4, FS_EmptySet, FS_Singleton
<1>6. \A d \in Caches, j \in Ways : <<d, j>> # <<c, i>> => Holders(d, j)' = Holders(d, j)
  <2> SUFFICES ASSUME NEW d \in Caches, NEW j \in Ways, <<d, j>> # <<c, i>>
               PROVE  Holders(d, j)' = Holders(d, j)
    OBVIOUS
  <2>1. \A q \in Reqs : Same(d, j, q)' <=> Same(d, j, q)
    BY DEF OthersKept, Same
  <2>2. ASSUME NEW q \in Reqs
        PROVE  (d \in req'[q].reserved /\ Same(d, j, q)') <=> (d \in req[q].reserved /\ Same(d, j, q))
    <3>1. CASE q = r
      BY <1>1, <2>1, <3>1
    <3>2. CASE q # r
      BY <2>1, <3>2 DEF OthersReserve
    <3> QED
      BY <3>1, <3>2
  <2> QED
    BY <2>2 DEF Holders
<1>7. \A q \in Reqs : \A d \in req'[q].reserved : \E j \in Ways : Same(d, j, q)'
  <2> SUFFICES ASSUME NEW q \in Reqs, NEW d \in req'[q].reserved
               PROVE  \E j \in Ways : Same(d, j, q)'
    OBVIOUS
  <2>1. CASE d \in req[q].reserved
    <3>1. d \in Caches
      BY <2>1 DEF Inv, TypeOK
    <3>2. PICK j \in Ways : Same(d, j, q) /\ <<d, j>> # <<c, i>>
      BY <1>2, <2>1 DEF Inv, CountExact
    <3> QED
      BY <3>1, <3>2 DEF Same, OthersKept
  <2>2. CASE d \notin req[q].reserved
    <3>1. q = r /\ d = c
      BY <2>2 DEF OthersReserve
    <3> QED
      BY <1>1, <3>1 DEF Same
  <2> QED
    BY <2>1, <2>2
<1> QED
  BY <1>5, <1>6, <1>7 DEF Inv, CountExact, OthersKept

-------------------------------------------------------------------------------
(* What a request relies on.                                               *)

(* A request that does nothing stays sound as long as the entries that it  *)
(* holds keep their blocks, its user the file, and its stream its place.   *)
LEMMA OthersSound ==
  ASSUME Inv, NEW q \in Reqs, req'[q] = req[q],
         \A c \in Caches, i \in Ways : q \in Holders(c, i) =>
            /\ bin'[c][i].blk = bin[c][i].blk
            /\ bin[c][i].status = "AVAIL" => bin'[c][i].status = "AVAIL",
         req[q].pc \notin {"idle", "write", "done"} => status'[user[q]] = "open",
         req[q].pc = "fetch" => StreamOf(q)' = StreamOf(q)
  PROVE  RequestSound(q)'
<1>1. RequestSound(q) /\ req[q].slot \in Ways
  BY DEF Inv, TypeOK
<1>2. Descending(q)'
  BY <1>1 DEF RequestSound, Descending
<1>3. \A c \in Caches, i \in Ways : q \in Holders(c, i) => q \in Holders(c, i)'
  BY DEF Holders, Same
<1>4. Waiting(q)'
  BY <1>1, <1>3 DEF RequestSound, Waiting
<1>5. Pointing(q)'
  BY <1>1, <1>3 DEF RequestSound, Pointing
<1>6. Fetching(q)'
  BY <1>1 DEF RequestSound, Fetching
<1> QED
  BY <1>2, <1>4, <1>5, <1>6 DEF RequestSound

(* When the entries and their data stay, and nobody reserves or releases,  *)
(* the bins stay as they should be.                                        *)
LEMMA BinsStay ==
  ASSUME Inv, UNCHANGED <<bin, data>>,
         \A q \in Reqs : req'[q].reserved = req[q].reserved
  PROVE  EntriesSound' /\ CountExact'
<1>1. EntriesSound'
  BY DEF Inv, EntriesSound, EntrySound
<1>2. \A c \in Caches, i \in Ways : Holders(c, i)' = Holders(c, i)
  BY DEF Holders, Same
<1>3. CountExact'
  BY <1>2 DEF Inv, CountExact, Same
<1> QED
  BY <1>1, <1>3

(* The streams of the users that have files open stay open when no stream  *)
(* is closed and nobody opens a file.                                      *)
LEMMA StreamsStay ==
  ASSUME Inv, status' = status,
         \A p \in Procs, f \in Files : stream[p][f].open => stream'[p][f].open
  PROVE  StreamsOpen'
<1>1. \A u \in Users : proc[u] \in Procs /\ FileOf(u) \subseteq Files
  BY LocalCacheConstants DEF FileOf, Files
<1> QED
  BY <1>1 DEF Inv, StreamsOpen, FileOf

(* A request goes on without an entry and without the stream.              *)
Moves(r) ==
  \/ RequestBlock(r) \/ PollTimeout(r) \/ Poll(r) \/ FindStream(r)
  \/ BufferWrite(r) \/ WriteDisk(r)

(* What each kind of step leaves alone.                                    *)
LEMMA StepKinds ==
  ASSUME Next
  PROVE  \/ \E u \in Users : /\ OpenFile(u) \/ CloseFile(u)
                             /\ UNCHANGED <<bin, data, req, killed>>
         \/ \E r \in Reqs : Moves(r) /\ UNCHANGED <<bin, data, stream, status, killed>>
         \/ \E r \in Reqs : /\ SeekStream(r) \/ ReadStream(r)
                            /\ UNCHANGED <<bin, data, status, killed>>
         \/ \E r \in Reqs, c \in Caches :
              ReadLevel(r, c) /\ UNCHANGED <<data, stream, status, killed>>
         \/ \E r \in Reqs, c \in Caches : WriteLevel(r, c) /\ UNCHANGED <<stream, status, killed>>
         \/ \E p \in Procs : Kill(p) /\ UNCHANGED <<bin, data, stream, status, req>>
<1>1. ASSUME NEW u \in Users, OpenFile(u) \/ CloseFile(u)
      PROVE  UNCHANGED <<bin, data, req, killed>>
  BY <1>1 DEF OpenFile, CloseFile
<1>2. ASSUME NEW r \in Reqs, Moves(r)
      PROVE  UNCHANGED <<bin, data, stream, status, killed>>
  BY <1>2 DEF Moves, RequestBlock, PollTimeout, Poll, FindStream, BufferWrite, WriteDisk
<1>3. ASSUME NEW r \in Reqs, SeekStream(r) \/ ReadStream(r)
      PROVE  UNCHANGED <<bin, data, status, killed>>
  BY <1>3 DEF SeekStream, ReadStream
<1>4. ASSUME NEW r \in Reqs, NEW c \in Caches, ReadLevel(r, c)
      PROVE  UNCHANGED <<data, stream, status, killed>>
  <2>1. ReadHit(r, c) \/ ReadWait(r, c) => UNCHANGED <<data, stream, status, killed>>
    BY Zenon DEF ReadHit, ReadWait
  <2>2. ReadMiss(r, c) \/ ReadFull(r, c) => UNCHANGED <<data, stream, status, killed>>
    BY DEF ReadMiss, ReadFull
  <2> QED
    BY <1>4, <2>1, <2>2 DEF ReadLevel
<1>5. ASSUME NEW r \in Reqs, NEW c \in Caches, WriteLevel(r, c)
      PROVE  UNCHANGED <<stream, status, killed>>
  <2>1. WriteEntry(r, c) => UNCHANGED <<stream, status, killed>>
    BY DEF WriteEntry
  <2> QED
    BY <1>5, <2>1 DEF WriteLevel, WriteOrigin, WritePresent, WriteFull
<1>6. ASSUME NEW p \in Procs, Kill(p)
      PROVE  UNCHANGED <<bin, data, stream, status, req>>
  BY <1>6 DEF Kill
<1> QED
  BY <1>1, <1>2, <1>3, <1>4, <1>5, <1>6, Zenon DEF Next, Step, Moves

(* The types of what the variables are made of.                            *)
EntryType   == [blk : Blocks \cup {None}, active : Nat, status : {"EMPTY", "RES", "AVAIL"}]
StreamType  == [open : BOOLEAN, pos : Blocks \cup {None}, lock : Reqs \cup {None}]
RequestType == [pc : {"idle", "read", "wait", "seek", "fetch", "ready", "write", "done"},
                level : Caches \cup {Disk, None}, reserved : SUBSET Caches,
                origin : Caches \cup {Disk, None}, slot : Ways, buffer : Blocks \cup {None}]

(* A request changes, and nothing else does that the types are about.      *)
LEMMA RequestTyped ==
  ASSUME TypeOK, NEW r \in Reqs, req'[r] \in RequestType,
         req' = [req EXCEPT ![r] = req'[r]]
  PROVE  req' \in [Reqs -> RequestType]
BY DEF TypeOK, RequestType

(* A request reserves a level, or releases it.                             *)
LEMMA ReservedTyped ==
  ASSUME NEW e \in RequestType, NEW c \in Caches
  PROVE  /\ [e EXCEPT !.reserved = @ \cup {c}] \in RequestType
         /\ [e EXCEPT !.reserved = @ \ {c}] \in RequestType
<1>1. e.reserved \cup {c} \in SUBSET Caches /\ e.reserved \ {c} \in SUBSET Caches
  BY DEF RequestType
<1> QED
  BY <1>1 DEF RequestType

(* Every step keeps the type of the requests.                              *)
LEMMA RequestsTyped ==
  ASSUME Inv, Next
  PROVE  req' \in [Reqs -> RequestType]
<1>0. TypeOK /\ req \in [Reqs -> RequestType]
  BY DEF Inv, TypeOK, RequestType
<1>1. CASE UNCHANGED req
  BY <1>0, <1>1
<1>2. ASSUME NEW r \in Reqs,
             \/ RequestBlock(r) \/ PollTimeout(r) \/ SeekStream(r)
             \/ Poll(r) \/ FindStream(r) \/ ReadStream(r) \/ BufferWrite(r) \/ WriteDisk(r)
      PROVE  req' \in [Reqs -> RequestType]
  <2>1. top[ProcOf(r)] \in Caches /\ req[r].level \in Caches \cup {Disk, None}
    BY <1>0, LocalCacheConstants DEF ProcOf, RequestType
  <2>2. StreamOf(r).pos \in Blocks \cup {None}
    <3>1. stream \in [Procs -> [Files -> StreamType]]
      BY <1>0 DEF TypeOK, StreamType
    <3>2. ProcOf(r) \in Procs /\ file[block[r]] \in Files
      BY LocalCacheConstants DEF ProcOf, Files
    <3>3. StreamOf(r) \in StreamType
      BY <3>1, <3>2 DEF StreamOf
    <3> QED
      BY <3>3 DEF StreamType
  <2> QED
    BY <1>0, <1>2, <2>1, <2>2 DEF RequestType, RequestBlock, PollTimeout, SeekStream,
       Poll, FindStream, ReadStream, BufferWrite, WriteDisk
<1>3. ASSUME NEW r \in Reqs, NEW c \in Caches, ReadLevel(r, c)
      PROVE  req' \in [Reqs -> RequestType]
  <2>1. /\ next[c] \in Caches \cup {Disk}
        /\ Hits(c, block[r]) \subseteq Ways /\ Oldest(c, block[r]) \subseteq Ways
    BY LocalCacheConstants DEF Hits, Oldest
  <2>2. CASE ReadHit(r, c)
    <3>1. PICK i \in Hits(c, block[r]) : Reserving(r, c, [req[r] EXCEPT !.pc = "ready", !.origin = c, !.slot = i])
      BY <2>2, Zenon DEF ReadHit
    <3>2. [req[r] EXCEPT !.pc = "ready", !.origin = c, !.slot = i] \in RequestType
      BY <1>0, <2>1 DEF RequestType
    <3> QED
      BY <1>0, <3>1, <3>2, ReservedTyped DEF Reserving
  <2>3. CASE ReadMiss(r, c)
    <3>1. PICK i \in Oldest(c, block[r]) : Reserving(r, c, [req[r] EXCEPT !.level = next[c]])
      BY <2>3 DEF ReadMiss
    <3>2. [req[r] EXCEPT !.level = next[c]] \in RequestType
      BY <1>0, <2>1 DEF RequestType
    <3> QED
      BY <1>0, <3>1, <3>2, ReservedTyped DEF Reserving
  <2>4. CASE ReadWait(r, c)
    <3>1. PICK i \in Oldest(c, block[r]) : Reserving(r, c, [req[r] EXCEPT !.pc = "wait", !.slot = i])
      BY <2>4, Zenon DEF ReadWait
    <3>2. [req[r] EXCEPT !.pc = "wait", !.slot = i] \in RequestType
      BY <1>0, <2>1 DEF RequestType
    <3> QED
      BY <1>0, <3>1, <3>2, ReservedTyped DEF Reserving
  <2>5. CASE ReadFull(r, c)
    BY <1>0, <2>1, <2>5 DEF ReadFull, RequestType
  <2> QED
    BY <1>3, <2>2, <2>3, <2>4, <2>5 DEF ReadLevel
<1>4. ASSUME NEW r \in Reqs, NEW c \in Caches, WriteLevel(r, c)
      PROVE  req' \in [Reqs -> RequestType]
  <2>1. next[c] \in Caches \cup {Disk}
    BY LocalCacheConstants
  <2>2. CASE WriteOrigin(r, c)
    <3>1. [req[r] EXCEPT !.reserved = @ \ {c}] \in RequestType
      BY <1>0, ReservedTyped
    <3>2. req'[r] = [[req[r] EXCEPT !.reserved = @ \ {c}] EXCEPT !.pc = "done"]
      BY <1>0, <2>2 DEF WriteOrigin
    <3>3. req'[r] \in RequestType
      BY <3>1, <3>2 DEF RequestType
    <3> QED
      BY <1>0, <2>2, <3>2, <3>3 DEF WriteOrigin
  <2>3. CASE Onward(r, c)
    <3>1. req'[r] = [req[r] EXCEPT !.reserved = @ \ {c}, !.level = next[c]]
      BY <1>0, <2>3 DEF Onward
    <3>2. [req[r] EXCEPT !.reserved = @ \ {c}] \in RequestType
      BY <1>0, ReservedTyped
    <3>3. req'[r] \in RequestType
      BY <2>1, <3>1, <3>2 DEF RequestType
    <3> QED
      BY <1>0, <2>3, <3>1, <3>3 DEF Onward
  <2> QED
    BY <1>4, <2>2, <2>3 DEF WriteLevel, WritePresent, WriteEntry, WriteFull
<1> QED
  BY <1>1, <1>2, <1>3, <1>4, StepKinds DEF Moves

(* Every step keeps the type of the entries: a count that is released is   *)
(* not below zero.                                                         *)
LEMMA EntriesTyped ==
  ASSUME Inv, Next
  PROVE  bin' \in [Caches -> [Ways -> EntryType]]
<1>0. TypeOK /\ bin \in [Caches -> [Ways -> EntryType]]
  BY DEF Inv, TypeOK, EntryType
<1>1. ASSUME NEW c \in Caches, NEW i \in Ways, bin'[c][i] \in EntryType,
             bin' = [bin EXCEPT ![c][i] = bin'[c][i]]
      PROVE  bin' \in [Caches -> [Ways -> EntryType]]
  BY <1>0, <1>1
<1>2. CASE UNCHANGED bin
  BY <1>0, <1>2
<1>3. ASSUME NEW r \in Reqs, NEW c \in Caches
      PROVE  /\ block[r] \in Blocks
             /\ Hits(c, block[r]) \subseteq Ways /\ Oldest(c, block[r]) \subseteq Ways
             /\ \A i \in Ways : bin[c][i] \in EntryType
  BY <1>0, LocalCacheConstants DEF Hits, Oldest
<1>4. ASSUME NEW r \in Reqs, NEW c \in Caches, ReadLevel(r, c)
      PROVE  bin' \in [Caches -> [Ways -> EntryType]]
  <2>1. ASSUME NEW i \in Ways, NEW e \in EntryType, Counted(r, c, i, e)
        PROVE  bin' \in [Caches -> [Ways -> EntryType]]
    <3>1. [e EXCEPT !.active = @ + 1] \in EntryType
      BY DEF EntryType
    <3> QED
      BY <1>0, <2>1, <3>1 DEF Counted
  <2>2. CASE ReadHit(r, c)
    BY <1>3, <2>1, <2>2 DEF ReadHit
  <2>3. CASE ReadMiss(r, c)
    <3>1. PICK i \in Oldest(c, block[r]) :
            Counted(r, c, i, [blk |-> block[r], status |-> "RES", active |-> bin[c][i].active])
      BY <2>3 DEF ReadMiss
    <3>2. [blk |-> block[r], status |-> "RES", active |-> bin[c][i].active] \in EntryType
      BY <1>3 DEF EntryType
    <3> QED
      BY <1>3, <2>1, <3>1, <3>2
  <2>4. CASE ReadWait(r, c)
    BY <1>3, <2>1, <2>4 DEF ReadWait
  <2> QED
    BY <1>2, <1>4, <2>2, <2>3, <2>4 DEF ReadLevel, ReadFull
<1>5. ASSUME NEW r \in Reqs, NEW c \in Caches, WriteLevel(r, c)
      PROVE  bin' \in [Caches -> [Ways -> EntryType]]
  <2>1. ASSUME NEW i \in Ways, Same(c, i, r)
        PROVE  bin[c][i].active - Release(r, c) \in Nat
    <3>1. bin[c][i].active \in Nat
      BY <1>3 DEF EntryType
    <3>2. r \in Holders(c, i) => bin[c][i].active > 0
      BY HeldEntry
    <3> QED
      BY <2>1, <3>1, <3>2 DEF Release, Holders
  <2>2. ASSUME NEW i \in Ways, Same(c, i, r),
               bin' = [bin EXCEPT ![c][i].active = @ - Release(r, c)]
        PROVE  bin' \in [Caches -> [Ways -> EntryType]]
    <3>1. [bin[c][i] EXCEPT !.active = @ - Release(r, c)] \in EntryType
      BY <1>3, <2>1, <2>2 DEF EntryType
    <3> QED
      BY <1>0, <2>2, <3>1
  <2>3. CASE WriteOrigin(r, c)
    BY <1>3, <2>2, <2>3 DEF WriteOrigin, Hits, Same
  <2>4. CASE WritePresent(r, c)
    BY <1>3, <2>2, <2>4 DEF WritePresent
  <2>5. CASE WriteEntry(r, c)
    <3>1. PICK i \in Oldest(c, block[r]) :
            bin' = [bin EXCEPT ![c][i] =
                [blk |-> block[r], status |-> "AVAIL",
                 active |-> IF Same(c, i, r) THEN @.active - Release(r, c) ELSE @.active]]
      BY <2>5, Zenon DEF WriteEntry
    <3>2. i \in Ways /\ bin[c][i].active \in Nat
      BY <1>3 DEF EntryType
    <3>3. [blk |-> block[r], status |-> "AVAIL",
           active |-> IF Same(c, i, r) THEN bin[c][i].active - Release(r, c)
                                       ELSE bin[c][i].active] \in EntryType
      BY <1>3, <2>1, <3>2 DEF EntryType
    <3> QED
      BY <1>0, <3>1, <3>2, <3>3
  <2> QED
    BY <1>2, <1>5, <2>3, <2>4, <2>5 DEF WriteLevel, WriteFull
<1> QED
  BY <1>2, <1>4, <1>5, StepKinds

(* Every step keeps the type of the streams.                               *)
LEMMA StreamsTyped ==
  ASSUME Inv, Next
  PROVE  stream' \in [Procs -> [Files -> StreamType]]
<1>0. stream \in [Procs -> [Files -> StreamType]]
  BY DEF Inv, TypeOK, StreamType
<1>1. CASE UNCHANGED stream
  BY <1>0, <1>1
<1>2. ASSUME NEW u \in Users, OpenFile(u) \/ CloseFile(u)
      PROVE  stream' \in [Procs -> [Files -> StreamType]]
  <2>1. proc[u] \in Procs /\ Closed \in StreamType
    BY LocalCacheConstants DEF Closed, StreamType
  <2>2. \A f \in Files : [stream[proc[u]][f] EXCEPT !.open = TRUE] \in StreamType
    <3> SUFFICES ASSUME NEW f \in Files
                 PROVE  [stream[proc[u]][f] EXCEPT !.open = TRUE] \in StreamType
      OBVIOUS
    <3>1. stream[proc[u]][f] \in StreamType
      BY <1>0, <2>1
    <3> QED
      BY <3>1 DEF StreamType
  <2>3. CASE OpenFile(u)
    <3>1. stream' = [stream EXCEPT ![proc[u]] =
            [f \in Files |-> IF f \in FileOf(u) THEN [stream[proc[u]][f] EXCEPT !.open = TRUE]
                                                ELSE stream[proc[u]][f]]]
      BY <1>0, <2>1, <2>3 DEF OpenFile
    <3>2. \A f \in Files : stream[proc[u]][f] \in StreamType
      BY <1>0, <2>1
    <3> QED
      BY <1>0, <2>1, <2>2, <3>1, <3>2
  <2>4. CASE CloseFile(u)
    BY <1>0, <2>1, <2>4 DEF CloseFile
  <2> QED
    BY <1>2, <2>3, <2>4
<1>3. ASSUME NEW r \in Reqs, SeekStream(r) \/ ReadStream(r)
      PROVE  stream' \in [Procs -> [Files -> StreamType]]
  <2>1. /\ ProcOf(r) \in Procs /\ file[block[r]] \in Files /\ block[r] \in Blocks
    BY LocalCacheConstants DEF ProcOf, Files
  <2>2. StreamOf(r) \in StreamType
    BY <1>0, <2>1 DEF StreamOf
  <2>3. /\ [StreamOf(r) EXCEPT !.lock = r, !.pos = block[r]] \in StreamType
        /\ [StreamOf(r) EXCEPT !.lock = None] \in StreamType
    BY <2>1, <2>2 DEF StreamType
  <2>4. CASE SeekStream(r)
    BY <1>0, <2>1, <2>3, <2>4 DEF SeekStream, StreamOf
  <2>5. CASE ReadStream(r)
    BY <1>0, <2>1, <2>3, <2>5 DEF ReadStream, StreamOf
  <2> QED
    BY <1>3, <2>4, <2>5
<1> QED
  BY <1>1, <1>2, <1>3, StepKinds

(* Every step keeps the types.                                             *)
LEMMA TypeKept ==
  ASSUME Inv, Next
  PROVE  TypeOK'
<1>1. /\ data' \in [Caches -> [Ways -> Blocks \cup {None}]]
  <2>1. data \in [Caches -> [Ways -> Blocks \cup {None}]]
    BY DEF Inv, TypeOK
  <2>2. CASE UNCHANGED data
    BY <2>1, <2>2
  <2>3. ASSUME NEW r \in Reqs, NEW c \in Caches, WriteEntry(r, c)
        PROVE  data' \in [Caches -> [Ways -> Blocks \cup {None}]]
    <3>1. Content(r) \in Blocks \cup {None}
      <4>1. req[r].pc = "write" /\ RequestSound(r) /\ req[r] \in RequestType
        BY <2>3 DEF WriteEntry, Writing, At, Inv, TypeOK, RequestType
      <4> QED
        BY <2>1, <4>1 DEF Content, RequestSound, Pointing, RequestType
    <3>2. PICK i \in Oldest(c, block[r]) : data' = [data EXCEPT ![c][i] = Content(r)]
      BY <2>3 DEF WriteEntry
    <3>3. i \in Ways
      BY DEF Oldest
    <3> QED
      BY <2>1, <3>1, <3>2, <3>3
  <2>4. ASSUME NEW r \in Reqs, NEW c \in Caches, WriteLevel(r, c), ~WriteEntry(r, c)
        PROVE  UNCHANGED data
    BY <2>4 DEF WriteLevel, WriteOrigin, WritePresent, WriteFull
  <2> QED
    BY <2>2, <2>3, <2>4, StepKinds
<1>2. status' \in [Users -> {"new", "open", "closed"}] /\ killed' \subseteq Procs
  <2>1. status \in [Users -> {"new", "open", "closed"}] /\ killed \subseteq Procs
    BY DEF Inv, TypeOK
  <2>2. ASSUME NEW u \in Users, OpenFile(u) \/ CloseFile(u)
        PROVE  status' \in [Users -> {"new", "open", "closed"}]
    BY <2>1, <2>2 DEF OpenFile, CloseFile
  <2>3. ASSUME NEW p \in Procs, Kill(p)
        PROVE  killed' \subseteq Procs
    BY <2>1, <2>3 DEF Kill
  <2> QED
    BY <2>1, <2>2, <2>3, StepKinds
<1> QED
  BY <1>1, <1>2, RequestsTyped, EntriesTyped, StreamsTyped
  DEF TypeOK, RequestType, EntryType, StreamType

-------------------------------------------------------------------------------
(* Every kind of step keeps the invariant.                                 *)

(* The invariant, without the types.                                       *)
Sound == EntriesSound /\ CountExact /\ StreamsOpen /\ \A q \in Reqs : RequestSound(q)

(* Only this request changes.                                              *)
Changes(r) == req' = [req EXCEPT ![r] = req'[r]]

(* A step on a level: it remains to see what the request itself relies on. *)
LEMMA LevelStep ==
  ASSUME Inv, NEW r \in Reqs, NEW c \in Caches, NEW i \in Ways, Changes(r),
         OthersKept(c, i), UNCHANGED <<stream, status>>,
         EntriesSound', CountExact', RequestSound(r)',
         \/ Holders(c, i) = {}
         \/ /\ bin'[c][i].blk = bin[c][i].blk
            /\ bin[c][i].status = "AVAIL" => bin'[c][i].status = "AVAIL"
  PROVE  Sound'
<1>1. StreamsOpen'
  BY StreamsStay
<1>2. ASSUME NEW q \in Reqs, q # r
      PROVE  RequestSound(q)'
  <2>1. req'[q] = req[q]
    BY <1>2 DEF Changes, Inv, TypeOK
  <2>2. \A d \in Caches, j \in Ways : q \in Holders(d, j) =>
          /\ bin'[d][j].blk = bin[d][j].blk
          /\ bin[d][j].status = "AVAIL" => bin'[d][j].status = "AVAIL"
    BY DEF OthersKept
  <2>3. req[q].pc \notin {"idle", "write", "done"} => status'[user[q]] = "open"
    BY DEF Inv, RequestSound, Fetching
  <2>4. StreamOf(q)' = StreamOf(q)
    BY DEF StreamOf
  <2> QED
    BY <2>1, <2>2, <2>3, <2>4, OthersSound
<1> QED
  BY <1>1, <1>2 DEF Sound

(* The request joins the holders of an entry: a hit, or a wait.            *)
LEMMA Joins ==
  ASSUME Inv, NEW r \in Reqs, NEW c \in Caches, NEW i \in Ways, Changes(r),
         c \notin req[r].reserved, Same(c, i, r), Counted(r, c, i, bin[c][i]),
         UNCHANGED <<data, stream, status>>,
         req'[r].reserved = req[r].reserved \cup {c},
         r \in Holders(c, i)' /\ EntryStays(c, i) => RequestSound(r)'
  PROVE  Sound'
<1>1. bin \in [Caches -> [Ways -> EntryType]] /\ bin[c][i] \in EntryType
  BY DEF Inv, TypeOK, EntryType
<1>2. bin'[c][i] = [bin[c][i] EXCEPT !.active = @ + 1] /\ OthersKept(c, i)
  BY <1>1 DEF Counted, OthersKept
<1>3. EntryStays(c, i) /\ bin'[c][i].active = bin[c][i].active + 1
  BY <1>1, <1>2 DEF EntryStays, EntryType
<1>4. OthersReserve(r)
  BY DEF Changes, OthersReserve, Inv, TypeOK
<1>5. EntriesSound'
  BY <1>2, <1>3, SameBlocks DEF EntryStays
<1>6. CountExact'
  BY <1>2, <1>3, <1>4, JoinedCount DEF EntryStays
<1>7. r \in Holders(c, i)'
  BY <1>3 DEF Holders, Same, EntryStays
<1> QED
  BY <1>2, <1>3, <1>5, <1>6, <1>7, LevelStep DEF EntryStays

(* The request releases the entry, or has nothing to release.              *)
LEMMA Releases ==
  ASSUME Inv, NEW r \in Reqs, NEW c \in Caches, NEW i \in Ways, Changes(r), Same(c, i, r),
         bin' = [bin EXCEPT ![c][i].active = @ - Release(r, c)],
         UNCHANGED <<data, stream, status>>,
         req'[r].reserved = req[r].reserved \ {c},
         (\A d \in Caches, j \in Ways : /\ bin'[d][j].blk = bin[d][j].blk
                                        /\ bin'[d][j].status = bin[d][j].status)
           => RequestSound(r)'
  PROVE  Sound'
<1>1. bin \in [Caches -> [Ways -> EntryType]] /\ bin[c][i] \in EntryType
  BY DEF Inv, TypeOK, EntryType
<1>2. /\ bin'[c][i] = [bin[c][i] EXCEPT !.active = @ - Release(r, c)]
      /\ OthersKept(c, i)
  BY <1>1 DEF OthersKept
<1>3. EntryStays(c, i) /\ bin'[c][i].active = bin[c][i].active - Release(r, c)
  BY <1>1, <1>2 DEF EntryStays, EntryType
<1>4. OthersReserve(r)
  BY DEF Changes, OthersReserve, Inv, TypeOK
<1>5. EntriesSound'
  BY <1>2, <1>3, SameBlocks DEF EntryStays
<1>6. CountExact'
  BY <1>2, <1>3, <1>4, ReleasedCount DEF EntryStays
<1>7. RequestSound(r)'
  BY <1>2, <1>3 DEF OthersKept, EntryStays
<1> QED
  BY <1>2, <1>3, <1>5, <1>6, <1>7, LevelStep DEF EntryStays

(* What is known of a request at a level when it comes there.              *)
LEMMA ReadingKnows ==
  ASSUME Inv, NEW r \in Reqs, NEW c \in Caches, Reading(r, c)
  PROVE  /\ req[r] \in RequestType /\ req[r].pc = "read" /\ req[r].level = c
         /\ c \notin req[r].reserved /\ status[user[r]] = "open"
         /\ \A d \in req[r].reserved : Depth[c] < Depth[d]
<1>1. req[r] \in RequestType /\ req[r].pc = "read" /\ req[r].level = c
  BY DEF Reading, At, Inv, TypeOK, RequestType
<1>2. RequestSound(r)
  BY DEF Inv
<1>3. \A d \in req[r].reserved : Depth[c] < Depth[d]
  BY <1>1, <1>2 DEF RequestSound, Descending
<1>4. status[user[r]] = "open"
  BY <1>1, <1>2 DEF RequestSound, Fetching
<1> QED
  BY <1>1, <1>3, <1>4, DepthDescends

(* Below a level, there is nothing reserved either.                        *)
LEMMA BelowLevel ==
  ASSUME Inv, NEW r \in Reqs, NEW c \in Caches, Reading(r, c), next[c] \in Caches
  PROVE  \A d \in req[r].reserved \cup {c} : Depth[next[c]] < Depth[d]
<1>1. req[r].reserved \subseteq Caches /\ \A d \in req[r].reserved : Depth[c] < Depth[d]
  BY ReadingKnows DEF RequestType
<1> QED
  BY <1>1, DepthDescends

(* A hit.                                                                  *)
LEMMA ReadHitSound ==
  ASSUME Inv, NEW r \in Reqs, NEW c \in Caches, ReadHit(r, c)
  PROVE  Sound'
<1>1. /\ req[r] \in RequestType /\ c \notin req[r].reserved /\ status[user[r]] = "open"
      /\ Reading(r, c)
  BY ReadingKnows DEF ReadHit
<1>2. PICK i \in Hits(c, block[r]) :
        /\ Counted(r, c, i, bin[c][i])
        /\ Reserving(r, c, [req[r] EXCEPT !.pc = "ready", !.origin = c, !.slot = i])
  BY Zenon DEF ReadHit
<1>3. i \in Ways /\ Same(c, i, r) /\ bin[c][i].status = "AVAIL"
  BY DEF Hits, Same
<1>4. /\ Changes(r) /\ req'[r].reserved = req[r].reserved \cup {c}
      /\ req'[r].pc = "ready" /\ req'[r].origin = c /\ req'[r].slot = i
  <2>1. req'[r] = [[req[r] EXCEPT !.pc = "ready", !.origin = c, !.slot = i]
                     EXCEPT !.reserved = @ \cup {c}]
    BY <1>2 DEF Reserving, Inv, TypeOK
  <2>2. Changes(r)
    BY <1>2, <2>1 DEF Reserving, Changes
  <2> QED
    BY <1>1, <2>1, <2>2 DEF RequestType
<1>5. UNCHANGED <<data, stream, status>>
  BY DEF ReadHit
<1>6. ASSUME r \in Holders(c, i)', EntryStays(c, i)
      PROVE  RequestSound(r)'
  <2>1. Descending(r)' /\ Waiting(r)'
    BY <1>4 DEF Descending, Waiting
  <2>2. c # Disk
    BY LocalCacheConstants
  <2>3. Pointing(r)'
    BY <1>3, <1>4, <1>6, <2>2 DEF Pointing, EntryStays
  <2>4. Fetching(r)'
    BY <1>1, <1>4, <1>5 DEF Fetching
  <2> QED
    BY <2>1, <2>3, <2>4 DEF RequestSound
<1> QED
  BY <1>1, <1>2, <1>3, <1>4, <1>5, <1>6, Joins

(* A wait for an entry that somebody reserved.                             *)
LEMMA ReadWaitSound ==
  ASSUME Inv, NEW r \in Reqs, NEW c \in Caches, ReadWait(r, c)
  PROVE  Sound'
<1>1. /\ req[r] \in RequestType /\ c \notin req[r].reserved /\ status[user[r]] = "open"
      /\ req[r].level = c /\ Reading(r, c)
  BY ReadingKnows DEF ReadWait
<1>2. PICK i \in Oldest(c, block[r]) :
        /\ Same(c, i, r) /\ Counted(r, c, i, bin[c][i])
        /\ Reserving(r, c, [req[r] EXCEPT !.pc = "wait", !.slot = i])
  BY Zenon DEF ReadWait
<1>3. i \in Ways
  BY DEF Oldest
<1>4. /\ Changes(r) /\ req'[r].reserved = req[r].reserved \cup {c}
      /\ req'[r].pc = "wait" /\ req'[r].level = c /\ req'[r].slot = i
  <2>1. req'[r] = [[req[r] EXCEPT !.pc = "wait", !.slot = i] EXCEPT !.reserved = @ \cup {c}]
    BY <1>2 DEF Reserving, Inv, TypeOK
  <2>2. Changes(r)
    BY <1>2, <2>1 DEF Reserving, Changes
  <2> QED
    BY <1>1, <2>1, <2>2 DEF RequestType
<1>5. UNCHANGED <<data, stream, status>>
  BY DEF ReadWait
<1>6. ASSUME r \in Holders(c, i)'
      PROVE  RequestSound(r)'
  <2>1. Descending(r)' /\ Pointing(r)'
    BY <1>4 DEF Descending, Pointing
  <2>2. Waiting(r)'
    BY <1>4, <1>6 DEF Waiting
  <2>3. Fetching(r)'
    BY <1>1, <1>4, <1>5 DEF Fetching
  <2> QED
    BY <2>1, <2>2, <2>3 DEF RequestSound
<1> QED
  BY <1>1, <1>2, <1>3, <1>4, <1>5, <1>6, Joins

(* A miss: an entry is taken, and the next level is asked.                 *)
LEMMA ReadMissSound ==
  ASSUME Inv, NEW r \in Reqs, NEW c \in Caches, ReadMiss(r, c)
  PROVE  Sound'
<1>1. /\ req[r] \in RequestType /\ req[r].pc = "read" /\ status[user[r]] = "open"
      /\ Reading(r, c)
  BY ReadingKnows DEF ReadMiss
<1>2. PICK i \in Oldest(c, block[r]) :
        /\ ~Same(c, i, r)
        /\ Counted(r, c, i, [blk |-> block[r], status |-> "RES", active |-> bin[c][i].active])
        /\ Reserving(r, c, [req[r] EXCEPT !.level = next[c]])
  BY DEF ReadMiss
<1>3. i \in Ways /\ bin[c][i].active = 0 /\ Holders(c, i) = {}
  BY <1>2, OldestFree
<1>4. /\ Changes(r) /\ req'[r].reserved = req[r].reserved \cup {c}
      /\ req'[r].pc = "read" /\ req'[r].level = next[c]
  <2>1. req'[r] = [[req[r] EXCEPT !.level = next[c]] EXCEPT !.reserved = @ \cup {c}]
    BY <1>2 DEF Reserving, Inv, TypeOK
  <2>2. Changes(r)
    BY <1>2, <2>1 DEF Reserving, Changes
  <2> QED
    BY <1>1, <2>1, <2>2 DEF RequestType
<1>5. UNCHANGED <<data, stream, status>>
  BY DEF ReadMiss
<1>6. /\ bin'[c][i].blk = block[r] /\ bin'[c][i].status = "RES" /\ bin'[c][i].active = 1
      /\ OthersKept(c, i)
  BY <1>2, <1>3 DEF Counted, OthersKept, Inv, TypeOK
<1>7. OthersReserve(r)
  BY <1>4 DEF Changes, OthersReserve, Inv, TypeOK
<1>8. EntriesSound'
  BY <1>2, <1>5, <1>6, TakenBlock
<1>9. CountExact'
  BY <1>2, <1>4, <1>6, <1>7, TakenCount
<1>10. RequestSound(r)'
  <2>1. Descending(r)'
    BY <1>1, <1>4, BelowLevel DEF Descending
  <2>2. Waiting(r)' /\ Pointing(r)'
    BY <1>4 DEF Waiting, Pointing
  <2>3. Fetching(r)'
    BY <1>1, <1>4, <1>5 DEF Fetching
  <2> QED
    BY <2>1, <2>2, <2>3 DEF RequestSound
<1> QED
  BY <1>3, <1>4, <1>5, <1>6, <1>8, <1>9, <1>10, LevelStep

(* A bin that is full of entries in use: the next level is asked.          *)
LEMMA ReadFullSound ==
  ASSUME Inv, NEW r \in Reqs, NEW c \in Caches, ReadFull(r, c)
  PROVE  Sound'
<1>1. /\ req[r] \in RequestType /\ req[r].pc = "read" /\ status[user[r]] = "open"
      /\ Reading(r, c)
  BY ReadingKnows DEF ReadFull
<1>2. UNCHANGED <<bin, data, stream, status>>
  BY DEF ReadFull
<1>3. req' = [req EXCEPT ![r].level = next[c]]
  BY DEF ReadFull
<1>4. /\ req'[r].reserved = req[r].reserved /\ req'[r].pc = "read"
      /\ req'[r].level = next[c]
  BY <1>1, <1>3 DEF RequestType, Inv, TypeOK
<1>5. \A q \in Reqs : q # r => req'[q] = req[q]
  BY <1>3 DEF Inv, TypeOK
<1>6. EntriesSound' /\ CountExact' /\ StreamsOpen'
  BY <1>2, <1>4, <1>5, BinsStay, StreamsStay
<1>7. RequestSound(r)'
  <2>1. Descending(r)'
    BY <1>1, <1>4, BelowLevel DEF Descending
  <2>2. Waiting(r)' /\ Pointing(r)'
    BY <1>4 DEF Waiting, Pointing
  <2>3. Fetching(r)'
    BY <1>1, <1>2, <1>4 DEF Fetching
  <2> QED
    BY <2>1, <2>2, <2>3 DEF RequestSound
<1>8. ASSUME NEW q \in Reqs, q # r
      PROVE  RequestSound(q)'
  <2>1. req[q].pc \notin {"idle", "write", "done"} => status'[user[q]] = "open"
    BY <1>2 DEF Inv, RequestSound, Fetching
  <2>2. StreamOf(q)' = StreamOf(q)
    BY <1>2 DEF StreamOf
  <2> QED
    BY <1>2, <1>5, <1>8, <2>1, <2>2, OthersSound
<1> QED
  BY <1>6, <1>7, <1>8 DEF Sound

(* The pointer of an answered request leads to its block.                  *)
LEMMA PointedContent ==
  ASSUME Inv, NEW r \in Reqs, req[r].pc \in {"ready", "write"}
  PROVE  Content(r) = block[r]
<1>1. req[r] \in RequestType /\ Pointing(r)
  BY DEF Inv, TypeOK, RequestType, RequestSound
<1>2. CASE req[r].origin = Disk
  BY <1>1, <1>2 DEF Pointing, Content
<1>3. CASE req[r].origin # Disk
  <2>1. /\ req[r].origin \in Caches /\ req[r].slot \in Ways
        /\ r \in Holders(req[r].origin, req[r].slot)
        /\ bin[req[r].origin][req[r].slot].status = "AVAIL"
    BY <1>1, <1>3 DEF Pointing, RequestType
  <2>2. data[req[r].origin][req[r].slot] = bin[req[r].origin][req[r].slot].blk
    BY <2>1 DEF Inv, EntriesSound, EntrySound
  <2>3. bin[req[r].origin][req[r].slot].blk = block[r]
    BY <2>1 DEF Holders, Same
  <2> QED
    BY <1>3, <2>2, <2>3 DEF Content
<1> QED
  BY <1>2, <1>3

(* What is known of a request that writes at a level.                      *)
LEMMA WritingKnows ==
  ASSUME Inv, NEW r \in Reqs, NEW c \in Caches, Writing(r, c)
  PROVE  /\ req[r] \in RequestType /\ req[r].pc = "write" /\ Pointing(r)
         /\ Content(r) = block[r]
<1>1. req[r] \in RequestType /\ req[r].pc = "write" /\ Pointing(r)
  BY DEF Writing, At, Inv, TypeOK, RequestType, RequestSound
<1> QED
  BY <1>1, PointedContent

(* The cache that had the block: the request is deleted.                   *)
LEMMA WriteOriginSound ==
  ASSUME Inv, NEW r \in Reqs, NEW c \in Caches, WriteOrigin(r, c)
  PROVE  Sound'
<1>1. req[r] \in RequestType
  BY DEF Inv, TypeOK, RequestType
<1>2. PICK i \in Hits(c, block[r]) : bin' = [bin EXCEPT ![c][i].active = @ - Release(r, c)]
  BY DEF WriteOrigin
<1>3. i \in Ways /\ Same(c, i, r)
  BY DEF Hits, Same
<1>4. Changes(r) /\ req'[r].reserved = req[r].reserved \ {c} /\ req'[r].pc = "done"
  <2>1. req'[r] = [[req[r] EXCEPT !.reserved = @ \ {c}] EXCEPT !.pc = "done"]
    BY DEF WriteOrigin, Inv, TypeOK
  <2>2. Changes(r)
    BY <2>1 DEF WriteOrigin, Changes, Inv, TypeOK
  <2> QED
    BY <1>1, <2>1, <2>2 DEF RequestType
<1>5. UNCHANGED <<data, stream, status>>
  BY DEF WriteOrigin
<1>6. RequestSound(r)'
  BY <1>4 DEF RequestSound, Descending, Waiting, Pointing, Fetching
<1> QED
  BY <1>2, <1>3, <1>4, <1>5, <1>6, Releases

(* A request that goes on to the next level keeps what it has there, when  *)
(* the entry that it points at keeps its block.                            *)
LEMMA OnwardSound ==
  ASSUME Inv, NEW r \in Reqs, NEW c \in Caches, Writing(r, c), req[r].origin # c,
         Onward(r, c),
         \A d \in Caches \ {c}, j \in Ways : /\ bin'[d][j].blk = bin[d][j].blk
                                             /\ bin'[d][j].status = bin[d][j].status
  PROVE  Changes(r) /\ req'[r].reserved = req[r].reserved \ {c} /\ RequestSound(r)'
<1>1. req[r] \in RequestType /\ req[r].pc = "write" /\ Pointing(r)
  BY WritingKnows
<1>2. /\ Changes(r) /\ req'[r].reserved = req[r].reserved \ {c}
      /\ req'[r].pc = "write" /\ req'[r].origin = req[r].origin
      /\ req'[r].slot = req[r].slot /\ req'[r].buffer = req[r].buffer
  <2>1. req'[r] = [[req[r] EXCEPT !.reserved = @ \ {c}] EXCEPT !.level = next[c]]
    BY DEF Onward, Inv, TypeOK
  <2>2. Changes(r)
    BY <2>1 DEF Onward, Changes, Inv, TypeOK
  <2> QED
    BY <1>1, <2>1, <2>2 DEF RequestType
<1>3. Descending(r)' /\ Waiting(r)' /\ Fetching(r)'
  BY <1>2 DEF Descending, Waiting, Fetching
<1>4. ASSUME req[r].origin \in Caches
      PROVE  /\ r \in Holders(req[r].origin, req[r].slot)'
             /\ bin'[req[r].origin][req[r].slot].status = "AVAIL"
  <2>1. /\ r \in Holders(req[r].origin, req[r].slot) /\ req[r].slot \in Ways
        /\ bin[req[r].origin][req[r].slot].status = "AVAIL"
    BY <1>1, <1>4 DEF Pointing, RequestType
  <2>2. /\ bin'[req[r].origin][req[r].slot].blk = bin[req[r].origin][req[r].slot].blk
        /\ bin'[req[r].origin][req[r].slot].status = "AVAIL"
    BY <1>4, <2>1
  <2> QED
    BY <1>2, <2>1, <2>2 DEF Holders, Same
<1>5. Pointing(r)'
  BY <1>1, <1>2, <1>4 DEF Pointing
<1> QED
  BY <1>2, <1>3, <1>5 DEF RequestSound

(* The block is in the cache already.                                      *)
LEMMA WritePresentSound ==
  ASSUME Inv, NEW r \in Reqs, NEW c \in Caches, WritePresent(r, c)
  PROVE  Sound'
<1>1. PICK i \in Oldest(c, block[r]) :
        Same(c, i, r) /\ bin' = [bin EXCEPT ![c][i].active = @ - Release(r, c)]
  BY DEF WritePresent
<1>2. i \in Ways
  BY DEF Oldest
<1>3. /\ Writing(r, c) /\ req[r].origin # c /\ Onward(r, c)
      /\ UNCHANGED <<data, stream, status>>
  BY DEF WritePresent
<1>4. \A d \in Caches \ {c}, j \in Ways : bin'[d][j] = bin[d][j]
  BY <1>1 DEF Inv, TypeOK
<1>5. Changes(r) /\ req'[r].reserved = req[r].reserved \ {c} /\ RequestSound(r)'
  BY <1>3, <1>4, OnwardSound
<1> QED
  BY <1>1, <1>2, <1>3, <1>5, Releases

(* The data is copied into an entry that was reserved, or taken now.       *)
LEMMA WriteEntrySound ==
  ASSUME Inv, NEW r \in Reqs, NEW c \in Caches, WriteEntry(r, c)
  PROVE  Sound'
<1>1. /\ Writing(r, c) /\ req[r].origin # c /\ Onward(r, c) /\ UNCHANGED <<stream, status>>
  BY Zenon DEF WriteEntry
<1>2. PICK i \in Oldest(c, block[r]) :
        /\ Same(c, i, r) => bin[c][i].status = "RES"
        /\ data' = [data EXCEPT ![c][i] = Content(r)]
        /\ bin' = [bin EXCEPT ![c][i] =
             [blk |-> block[r], status |-> "AVAIL",
              active |-> IF Same(c, i, r) THEN @.active - Release(r, c) ELSE @.active]]
  BY Zenon DEF WriteEntry
<1>3. i \in Ways
  BY DEF Oldest
<1>4. /\ bin'[c][i].blk = block[r] /\ bin'[c][i].status = "AVAIL"
      /\ bin'[c][i].active = IF Same(c, i, r) THEN bin[c][i].active - Release(r, c)
                                              ELSE bin[c][i].active
      /\ OthersKept(c, i)
  BY <1>2, <1>3 DEF OthersKept, Inv, TypeOK
<1>5. /\ data'[c][i] = block[r]
      /\ \A d \in Caches, j \in Ways : <<d, j>> # <<c, i>> => data'[d][j] = data[d][j]
  BY <1>1, <1>2, <1>3, WritingKnows DEF Inv, TypeOK
<1>6. /\ Changes(r) /\ req'[r].reserved = req[r].reserved \ {c} /\ RequestSound(r)'
  BY <1>1, <1>4, OnwardSound DEF OthersKept
<1>7. OthersReserve(r)
  BY <1>6 DEF Changes, OthersReserve, Inv, TypeOK
<1>8. CASE Same(c, i, r)
  <2>1. bin'[c][i].blk = bin[c][i].blk /\ bin[c][i].status = "RES"
    BY <1>2, <1>4, <1>8 DEF Same
  <2>2. EntriesSound'
    BY <1>3, <1>4, <1>5, <2>1, SameBlocks
  <2>3. CountExact'
    BY <1>3, <1>4, <1>6, <1>7, <1>8, <2>1, ReleasedCount
  <2> QED
    BY <1>1, <1>3, <1>4, <1>6, <2>1, <2>2, <2>3, LevelStep
<1>9. CASE ~Same(c, i, r)
  <2>1. bin[c][i].active = 0 /\ Holders(c, i) = {} /\ c \notin req[r].reserved
    BY <1>9, OldestFree
  <2>2. EntriesSound'
    BY <1>4, <1>5, <1>9, TakenBlock
  <2>3. req'[r].reserved = req[r].reserved /\ bin'[c][i].active = 0
    BY <1>4, <1>6, <1>9, <2>1
  <2>4. CountExact'
    BY <1>4, <1>7, <1>9, <2>3, TakenCount
  <2> QED
    BY <1>1, <1>3, <1>4, <1>6, <2>1, <2>2, <2>4, LevelStep
<1> QED
  BY <1>8, <1>9

(* A full bin is passed by, also on the way of the write.                  *)
LEMMA WriteFullSound ==
  ASSUME Inv, NEW r \in Reqs, NEW c \in Caches, WriteFull(r, c)
  PROVE  Sound'
<1>1. /\ Writing(r, c) /\ req[r].origin # c /\ Onward(r, c)
      /\ UNCHANGED <<bin, data, stream, status>> /\ c \notin req[r].reserved
  BY FullUnreserved DEF WriteFull
<1>2. Changes(r) /\ req'[r].reserved = req[r].reserved \ {c} /\ RequestSound(r)'
  BY <1>1, OnwardSound
<1>3. \A q \in Reqs : q # r => req'[q] = req[q]
  BY <1>2 DEF Changes, Inv, TypeOK
<1>4. req'[r].reserved = req[r].reserved
  BY <1>1, <1>2
<1>5. EntriesSound' /\ CountExact'
  BY <1>1, <1>3, <1>4, BinsStay
<1>6. 1 \in Ways /\ OthersKept(c, 1)
  BY <1>1, LocalCacheConstants DEF Ways, OthersKept
<1> QED
  BY <1>1, <1>2, <1>5, <1>6, LevelStep

(* A request that goes on by itself: it asks, polls, gives up waiting,     *)
(* finds the stream, is answered, or ends at the disk.                     *)
LEMMA MovesSound ==
  ASSUME Inv, NEW r \in Reqs, Moves(r)
  PROVE  Sound'
<1>1. UNCHANGED <<bin, data, stream, status>>
  BY DEF Moves, RequestBlock, PollTimeout, Poll, FindStream, BufferWrite, WriteDisk
<1>2. /\ req[r] \in RequestType /\ RequestSound(r) /\ ProcOf(r) \in Procs
      /\ top[ProcOf(r)] \in Caches
  BY LocalCacheConstants DEF Inv, TypeOK, RequestType, ProcOf
<1>3. /\ Changes(r) /\ req'[r].reserved = req[r].reserved /\ RequestSound(r)'
  <2>1. CASE RequestBlock(r)
    <3>1. Changes(r) /\ req'[r].reserved = req[r].reserved /\ req'[r].pc = "read"
      BY <1>2, <2>1 DEF RequestBlock, Changes, RequestType, Inv, TypeOK
    <3>2. req'[r].reserved = {} /\ status'[user[r]] = "open"
      BY <1>1, <1>2, <2>1, <3>1 DEF RequestBlock, At, RequestSound, Descending
    <3> QED
      BY <3>1, <3>2 DEF RequestSound, Descending, Waiting, Pointing, Fetching
  <2>2. CASE PollTimeout(r)
    <3>1. /\ Changes(r) /\ req'[r].reserved = req[r].reserved /\ req'[r].pc = "read"
          /\ req'[r].level = Disk
      BY <1>2, <2>2 DEF PollTimeout, Changes, RequestType, Inv, TypeOK
    <3>2. status'[user[r]] = "open"
      BY <1>1, <1>2, <2>2 DEF PollTimeout, At, RequestSound, Fetching
    <3> QED
      BY <3>1, <3>2, LocalCacheConstants
      DEF RequestSound, Descending, Waiting, Pointing, Fetching
  <2>3. CASE Poll(r)
    <3>1. /\ Changes(r) /\ req'[r].reserved = req[r].reserved /\ req'[r].pc = "ready"
          /\ req'[r].origin = req[r].level /\ req'[r].slot = req[r].slot
      BY <1>2, <2>3 DEF Poll, Changes, RequestType, Inv, TypeOK
    <3>2. /\ status'[user[r]] = "open" /\ req[r].level \in Caches
          /\ r \in Holders(req[r].level, req[r].slot)
          /\ bin[req[r].level][req[r].slot].status = "AVAIL"
      BY <1>1, <1>2, <2>3 DEF Poll, At, RequestSound, Fetching, Waiting
    <3>3. \A c \in Caches, i \in Ways : r \in Holders(c, i) => r \in Holders(c, i)'
      BY <1>1, <3>1 DEF Holders, Same
    <3>4. Pointing(r)'
      <4>1. req[r].slot \in Ways /\ req[r].level # Disk
        BY <1>2, <3>2, LocalCacheConstants DEF RequestType
      <4> QED
        BY <1>1, <3>1, <3>2, <3>3, <4>1 DEF Pointing
    <3> QED
      BY <3>1, <3>2, <3>4 DEF RequestSound, Descending, Waiting, Fetching
  <2>4. CASE FindStream(r)
    <3>1. Changes(r) /\ req'[r].reserved = req[r].reserved /\ req'[r].pc = "seek"
      BY <1>2, <2>4 DEF FindStream, Changes, RequestType, Inv, TypeOK
    <3>2. status'[user[r]] = "open"
      BY <1>1, <1>2, <2>4 DEF FindStream, At, RequestSound, Fetching
    <3> QED
      BY <3>1, <3>2 DEF RequestSound, Descending, Waiting, Pointing, Fetching
  <2>5. CASE BufferWrite(r)
    <3>1. /\ Changes(r) /\ req'[r].reserved = req[r].reserved /\ req'[r].pc = "write"
          /\ req'[r].origin = req[r].origin /\ req'[r].slot = req[r].slot
          /\ req'[r].buffer = req[r].buffer
      BY <1>2, <2>5 DEF BufferWrite, Changes, RequestType, Inv, TypeOK
    <3>2. Pointing(r) /\ req[r].pc = "ready"
      BY <1>2, <2>5 DEF BufferWrite, At, RequestSound
    <3>3. Pointing(r)'
      BY <1>1, <3>1, <3>2 DEF Pointing, Holders, Same
    <3> QED
      BY <3>1, <3>3 DEF RequestSound, Descending, Waiting, Fetching
  <2>6. CASE WriteDisk(r)
    <3>1. Changes(r) /\ req'[r].reserved = req[r].reserved /\ req'[r].pc = "done"
      BY <1>2, <2>6 DEF WriteDisk, Changes, RequestType, Inv, TypeOK
    <3> QED
      BY <3>1 DEF RequestSound, Descending, Waiting, Pointing, Fetching
  <2> QED
    BY <2>1, <2>2, <2>3, <2>4, <2>5, <2>6 DEF Moves
<1>4. \A q \in Reqs : q # r => req'[q] = req[q]
  BY <1>3 DEF Changes, Inv, TypeOK
<1>5. EntriesSound' /\ CountExact' /\ StreamsOpen'
  BY <1>1, <1>3, <1>4, BinsStay, StreamsStay
<1>6. ASSUME NEW q \in Reqs, q # r
      PROVE  RequestSound(q)'
  <2>1. req[q].pc \notin {"idle", "write", "done"} => status'[user[q]] = "open"
    BY <1>1 DEF Inv, RequestSound, Fetching
  <2>2. StreamOf(q)' = StreamOf(q)
    BY <1>1 DEF StreamOf
  <2> QED
    BY <1>1, <1>4, <1>6, <2>1, <2>2, OthersSound
<1> QED
  BY <1>3, <1>5, <1>6 DEF Sound

(* The stream of a file is for one request at a time.                      *)
LEMMA StreamStepSound ==
  ASSUME Inv, NEW r \in Reqs, SeekStream(r) \/ ReadStream(r)
  PROVE  Sound'
<1> DEFINE p == ProcOf(r)
           f == file[block[r]]
<1>1. UNCHANGED <<bin, data, status>>
  BY DEF SeekStream, ReadStream
<1>2. /\ req[r] \in RequestType /\ RequestSound(r) /\ p \in Procs /\ f \in Files
      /\ stream \in [Procs -> [Files -> StreamType]] /\ stream[p][f] \in StreamType
  <2>1. p \in Procs /\ f \in Files
    BY LocalCacheConstants DEF ProcOf, Files
  <2>2. stream \in [Procs -> [Files -> StreamType]] /\ req[r] \in RequestType
    BY DEF Inv, TypeOK, RequestType, StreamType
  <2> QED
    BY <2>1, <2>2 DEF Inv
<1>3. /\ \A o \in Procs, g \in Files : <<o, g>> # <<p, f>> => stream'[o][g] = stream[o][g]
      /\ stream'[p][f].open = stream[p][f].open
  <2>1. CASE SeekStream(r)
    BY <1>2, <2>1 DEF SeekStream, StreamType
  <2>2. CASE ReadStream(r)
    BY <1>2, <2>2 DEF ReadStream, StreamType
  <2> QED
    BY <2>1, <2>2
<1>4. Changes(r) /\ req'[r].reserved = req[r].reserved /\ RequestSound(r)'
  <2>1. CASE SeekStream(r)
    <3>1. Changes(r) /\ req'[r].reserved = req[r].reserved /\ req'[r].pc = "fetch"
      BY <1>2, <2>1 DEF SeekStream, Changes, RequestType, Inv, TypeOK
    <3>2. stream'[p][f] = [stream[p][f] EXCEPT !.lock = r, !.pos = block[r]]
      BY <1>2, <2>1 DEF SeekStream
    <3>3. StreamOf(r)'.lock = r /\ StreamOf(r)'.pos = block[r]
      BY <1>2, <3>2 DEF StreamOf, ProcOf, StreamType
    <3>4. status'[user[r]] = "open"
      BY <1>1, <1>2, <2>1 DEF SeekStream, At, RequestSound, Fetching
    <3> QED
      BY <3>1, <3>3, <3>4 DEF RequestSound, Descending, Waiting, Pointing, Fetching
  <2>2. CASE ReadStream(r)
    <3>1. /\ Changes(r) /\ req'[r].reserved = req[r].reserved /\ req'[r].pc = "ready"
          /\ req'[r].origin = Disk /\ req'[r].buffer = StreamOf(r).pos
      BY <1>2, <2>2 DEF ReadStream, Changes, RequestType, Inv, TypeOK
    <3>2. StreamOf(r).pos = block[r] /\ status'[user[r]] = "open"
      BY <1>1, <1>2, <2>2 DEF ReadStream, At, RequestSound, Fetching
    <3>3. Pointing(r)'
      BY <3>1, <3>2, LocalCacheConstants DEF Pointing
    <3> QED
      BY <3>1, <3>2, <3>3 DEF RequestSound, Descending, Waiting, Fetching
  <2> QED
    BY <2>1, <2>2
<1>5. \A q \in Reqs : q # r => req'[q] = req[q]
  BY <1>4 DEF Changes, Inv, TypeOK
<1>6. EntriesSound' /\ CountExact'
  BY <1>1, <1>4, <1>5, BinsStay
<1>7. StreamsOpen'
  <2>1. \A o \in Procs, g \in Files : stream[o][g].open => stream'[o][g].open
    BY <1>3
  <2> QED
    BY <1>1, <2>1, StreamsStay
<1>8. ASSUME NEW q \in Reqs, q # r
      PROVE  RequestSound(q)'
  <2>1. req[q].pc \notin {"idle", "write", "done"} => status'[user[q]] = "open"
    BY <1>1 DEF Inv, RequestSound, Fetching
  <2>2. ASSUME req[q].pc = "fetch"
        PROVE  StreamOf(q)' = StreamOf(q)
    <3>1. StreamOf(q).lock = q
      BY <2>2 DEF Inv, RequestSound, Fetching
    <3>2. StreamOf(r).lock # q
      <4>1. CASE SeekStream(r)
        BY <4>1, LocalCacheConstants DEF SeekStream
      <4>2. CASE ReadStream(r)
        BY <1>2, <1>8, <4>2 DEF ReadStream, At, RequestSound, Fetching
      <4> QED
        BY <4>1, <4>2
    <3>3. ProcOf(q) \in Procs /\ file[block[q]] \in Files
      BY LocalCacheConstants DEF ProcOf, Files
    <3> QED
      BY <1>3, <3>1, <3>2, <3>3 DEF StreamOf, ProcOf
  <2> QED
    BY <1>1, <1>5, <1>8, <2>1, <2>2, OthersSound
<1> QED
  BY <1>4, <1>6, <1>7, <1>8 DEF Sound

(* A user opens the file.                                                  *)
LEMMA OpenFileSound ==
  ASSUME Inv, NEW u \in Users, OpenFile(u)
  PROVE  Sound'
<1>1. UNCHANGED <<bin, data, req>> /\ status[u] = "new"
  BY DEF OpenFile
<1>2. /\ proc[u] \in Procs /\ stream \in [Procs -> [Files -> StreamType]]
      /\ status' = [status EXCEPT ![u] = "open"]
  BY LocalCacheConstants DEF Inv, TypeOK, StreamType, OpenFile
<1>3. stream' = [stream EXCEPT ![proc[u]] =
         [g \in Files |-> IF g \in FileOf(u) THEN [stream[proc[u]][g] EXCEPT !.open = TRUE]
                                             ELSE stream[proc[u]][g]]]
  BY <1>2 DEF OpenFile
<1>4. \A o \in Procs, g \in Files :
        /\ stream[o][g].open => stream'[o][g] = stream[o][g]
        /\ o = proc[u] /\ g \in FileOf(u) => stream'[o][g].open
  <2> SUFFICES ASSUME NEW o \in Procs, NEW g \in Files
               PROVE  /\ stream[o][g].open => stream'[o][g] = stream[o][g]
                      /\ o = proc[u] /\ g \in FileOf(u) => stream'[o][g].open
    OBVIOUS
  <2>1. stream[o][g] \in StreamType
    BY <1>2
  <2>2. CASE o = proc[u] /\ g \in FileOf(u)
    <3>1. stream'[o][g] = [stream[o][g] EXCEPT !.open = TRUE]
      BY <1>2, <1>3, <2>2
    <3> QED
      BY <2>1, <3>1 DEF StreamType
  <2>3. CASE ~(o = proc[u] /\ g \in FileOf(u))
    BY <1>2, <1>3, <2>3
  <2> QED
    BY <2>2, <2>3
<1>5. EntriesSound' /\ CountExact'
  BY <1>1, BinsStay
<1>6. \A v \in Users : proc[v] \in Procs /\ FileOf(v) \subseteq Files
  BY LocalCacheConstants DEF FileOf, Files
<1>7. StreamsOpen'
  <2> SUFFICES ASSUME NEW v \in Users, status'[v] = "open", NEW g \in FileOf(v)
               PROVE  stream'[proc[v]][g].open
    BY DEF StreamsOpen, FileOf
  <2>1. CASE v = u
    BY <1>4, <1>6, <2>1
  <2>2. CASE v # u
    <3>1. status[v] = "open"
      BY <1>2, <2>2 DEF Inv, TypeOK
    <3>2. stream[proc[v]][g].open
      BY <3>1 DEF Inv, StreamsOpen
    <3> QED
      BY <1>4, <1>6, <3>2
  <2> QED
    BY <2>1, <2>2
<1>8. ASSUME NEW q \in Reqs
      PROVE  RequestSound(q)'
  <2>1. RequestSound(q) /\ user[q] \in Users /\ file[block[q]] \in FileOf(user[q])
    BY LocalCacheConstants DEF Inv, FileOf
  <2>2. req[q].pc \notin {"idle", "write", "done"} => status'[user[q]] = "open"
    BY <1>2, <2>1 DEF RequestSound, Fetching, Inv, TypeOK
  <2>3. ASSUME req[q].pc = "fetch"
        PROVE  StreamOf(q)' = StreamOf(q)
    <3>1. status[user[q]] = "open"
      BY <2>1, <2>3 DEF RequestSound, Fetching
    <3>2. stream[ProcOf(q)][file[block[q]]].open
      BY <2>1, <3>1 DEF Inv, StreamsOpen, ProcOf
    <3>3. ProcOf(q) \in Procs /\ file[block[q]] \in Files
      BY <1>6, <2>1 DEF ProcOf
    <3> QED
      BY <1>4, <3>2, <3>3 DEF StreamOf, ProcOf
  <2> QED
    BY <1>1, <2>2, <2>3, OthersSound
<1> QED
  BY <1>5, <1>7, <1>8 DEF Sound

(* A user closes the file: the stream is closed with the last one, whose   *)
(* own requests were answered.                                             *)
LEMMA CloseFileSound ==
  ASSUME Inv, NEW u \in Users, CloseFile(u)
  PROVE  Sound'
<1>1. UNCHANGED <<bin, data, req>> /\ status[u] = "open" /\ Answered(u)
  BY DEF CloseFile
<1>2. /\ proc[u] \in Procs /\ stream \in [Procs -> [Files -> StreamType]]
      /\ status' = [status EXCEPT ![u] = "closed"]
  BY LocalCacheConstants DEF Inv, TypeOK, StreamType, CloseFile
<1>3. stream' = [stream EXCEPT ![proc[u]] =
         [g \in Files |-> IF Having(proc[u], g) = {u} THEN Closed ELSE stream[proc[u]][g]]]
  BY <1>2 DEF CloseFile
<1>4. \A o \in Procs, g \in Files :
        ~(o = proc[u] /\ Having(o, g) = {u}) => stream'[o][g] = stream[o][g]
  BY <1>2, <1>3
<1>5. EntriesSound' /\ CountExact'
  BY <1>1, BinsStay
<1>6. \A v \in Users : proc[v] \in Procs /\ FileOf(v) \subseteq Files
  BY LocalCacheConstants DEF FileOf, Files
<1>7. ASSUME NEW v \in Users, v # u, status[v] = "open", NEW g \in FileOf(v)
      PROVE  stream'[proc[v]][g] = stream[proc[v]][g]
  <2>1. v \in Having(proc[v], g)
    BY <1>7 DEF Having
  <2> QED
    BY <1>4, <1>6, <1>7, <2>1
<1>8. StreamsOpen'
  <2> SUFFICES ASSUME NEW v \in Users, status'[v] = "open", NEW g \in FileOf(v)
               PROVE  stream'[proc[v]][g].open
    BY DEF StreamsOpen, FileOf
  <2>1. v # u /\ status[v] = "open"
    BY <1>2 DEF Inv, TypeOK
  <2> QED
    BY <1>7, <2>1 DEF Inv, StreamsOpen
<1>9. ASSUME NEW q \in Reqs
      PROVE  RequestSound(q)'
  <2>1. RequestSound(q) /\ user[q] \in Users /\ file[block[q]] \in FileOf(user[q])
    BY LocalCacheConstants DEF Inv, FileOf
  <2>2. req[q].pc \notin {"idle", "write", "done"} => user[q] # u /\ status[user[q]] = "open"
    BY <1>1, <2>1 DEF RequestSound, Fetching, Answered
  <2>3. req[q].pc \notin {"idle", "write", "done"} => status'[user[q]] = "open"
    BY <1>2, <2>1, <2>2 DEF Inv, TypeOK
  <2>4. req[q].pc = "fetch" => StreamOf(q)' = StreamOf(q)
    BY <1>7, <2>1, <2>2 DEF StreamOf, ProcOf
  <2> QED
    BY <1>1, <2>3, <2>4, OthersSound
<1> QED
  BY <1>5, <1>8, <1>9 DEF Sound

-------------------------------------------------------------------------------
(* The theorems.                                                           *)

(* The invariant holds at the start.                                       *)
LEMMA InitInv == Init => Inv
<1> SUFFICES ASSUME Init
             PROVE  Inv
  OBVIOUS
<1>1. /\ bin = [c \in Caches |-> [i \in Ways |-> Empty]]
      /\ data = [c \in Caches |-> [i \in Ways |-> None]]
      /\ stream = [p \in Procs |-> [f \in Files |-> Closed]]
      /\ status = [u \in Users |-> "new"]
      /\ req = [r \in Reqs |-> NewReq] /\ killed = {}
  BY DEF Init
<1>2. Empty \in EntryType /\ Closed \in StreamType /\ NewReq \in RequestType
  <2>1. 1 \in Ways
    BY LocalCacheConstants DEF Ways
  <2> QED
    BY <2>1 DEF Empty, Closed, NewReq, EntryType, StreamType, RequestType
<1>3. TypeOK
  BY <1>1, <1>2 DEF TypeOK, EntryType, StreamType, RequestType
<1>4. \A c \in Caches, i \in Ways : bin[c][i].blk = None /\ bin[c][i].status = "EMPTY"
                                    /\ bin[c][i].active = 0
  BY <1>1 DEF Empty
<1>5. EntriesSound
  BY <1>4 DEF EntriesSound, EntrySound
<1>6. \A r \in Reqs : req[r].reserved = {} /\ req[r].pc = "idle"
  BY <1>1 DEF NewReq
<1>7. CountExact
  <2>1. \A c \in Caches, i \in Ways : Holders(c, i) = {}
    BY <1>6 DEF Holders
  <2> QED
    BY <1>4, <1>6, <2>1, FS_EmptySet DEF CountExact
<1>8. StreamsOpen
  BY <1>1 DEF StreamsOpen
<1>9. \A r \in Reqs : RequestSound(r)
  BY <1>6 DEF RequestSound, Descending, Waiting, Pointing, Fetching
<1> QED
  BY <1>3, <1>5, <1>7, <1>8, <1>9 DEF Inv

(* Every step keeps it.                                                    *)
LEMMA NextInv == Inv /\ [Next]_vars => Inv'
<1> SUFFICES ASSUME Inv, [Next]_vars
             PROVE  Inv'
  OBVIOUS
<1>1. CASE UNCHANGED vars
  BY <1>1 DEF vars, Inv, TypeOK, EntriesSound, EntrySound, CountExact, Holders, Same,
     StreamsOpen, RequestSound, Descending, Waiting, Pointing, Fetching, StreamOf
<1>2. CASE Next
  <2>1. TypeOK'
    BY <1>2, TypeKept
  <2>2. ASSUME NEW r \in Reqs, NEW c \in Caches, ReadLevel(r, c)
        PROVE  Sound'
    BY <2>2, ReadHitSound, ReadMissSound, ReadWaitSound, ReadFullSound DEF ReadLevel
  <2>3. ASSUME NEW r \in Reqs, NEW c \in Caches, WriteLevel(r, c)
        PROVE  Sound'
    BY <2>3, WriteOriginSound, WritePresentSound, WriteEntrySound, WriteFullSound DEF WriteLevel
  <2>4. ASSUME UNCHANGED <<bin, data, stream, status, req>>
        PROVE  Sound'
    BY <2>4 DEF Sound, Inv, EntriesSound, EntrySound, CountExact, Holders, Same,
       StreamsOpen, RequestSound, Descending, Waiting, Pointing, Fetching, StreamOf
  <2>5. Sound'
    BY <1>2, <2>2, <2>3, <2>4, StepKinds, MovesSound, StreamStepSound, OpenFileSound,
       CloseFileSound
  <2> QED
    BY <2>1, <2>5 DEF Inv, Sound
<1> QED
  BY <1>1, <1>2

(* The variables keep their types.                                         *)
THEOREM TypeCorrect == Spec => []TypeOK
<1>1. Inv => TypeOK
  BY DEF Inv
<1> QED
  BY <1>1, InitInv, NextInv, PTL DEF Spec

(* A request has the data of its own block for as long as it uses it, and  *)
(* is counted for exactly that long where the data is: whatever becomes of *)
(* other requests, processes and reservations in the same bins.            *)
THEOREM DataIsHeld == Spec => []DataHeld
<1>1. Inv => DataHeld
  <2> SUFFICES ASSUME Inv, NEW r \in Reqs, req[r].pc \in {"ready", "write"}
               PROVE  Content(r) = block[r]
    BY DEF DataHeld, AnswersOwnBlock, Inv
  <2> QED
    BY PointedContent
<1> QED
  BY <1>1, InitInv, NextInv, PTL DEF Spec

(* No stream is closed and deleted under a reader that looked it up: the   *)
(* reader's own user keeps the file.                                       *)
THEOREM StreamsStayOpen == Spec => []StreamOpenWhileRead
<1>1. Inv => StreamOpenWhileRead
  <2> SUFFICES ASSUME Inv, NEW r \in Reqs, req[r].pc \in {"seek", "fetch"}
               PROVE  StreamOf(r).open
    BY DEF StreamOpenWhileRead
  <2>1. status[user[r]] = "open"
    BY DEF Inv, RequestSound, Fetching
  <2>2. user[r] \in Users /\ file[block[r]] \in FileOf(user[r])
    BY LocalCacheConstants DEF FileOf
  <2> QED
    BY <2>1, <2>2 DEF Inv, StreamsOpen, StreamOf, ProcOf
<1> QED
  BY <1>1, InitInv, NextInv, PTL DEF Spec
===============================================================================
