---------------------------- MODULE BlockCacheProofs ----------------------------
(***************************************************************************)
(* Theorems of BlockCache, for any number of processes, readers, caches,   *)
(* bins, entries, blocks and requests; and, in the second half, of         *)
(* ReadPath: what a read copies out of the blocks that it gets.            *)
(***************************************************************************)
EXTENDS BlockCache, ReadPath, FiniteSetTheorems, TLAPS

(* How oldestBlock and the other lookups relate to the slots.              *)
LEMMA SlotIsSlot ==
  ASSUME NEW c \in Caches, NEW b \in Blocks, NEW i \in Ways
  PROVE  /\ Slot(c, b, i) \in Slots
         /\ Slot(c, b, i)[1] = c
         /\ Slot(c, b, i)[2] = BinOf[c][b]
         /\ Slot(c, b, i)[3] = i
  BY Topology DEF Slot, Slots

(* Initially every entry is empty and no request is in use.                *)
LEMMA InitIInv == Init => IInv
<1> SUFFICES ASSUME Init PROVE IInv OBVIOUS
<1> USE DEF Init
<1>1. TypeOK
  BY Topology DEF TypeOK, Entry, Status, Request, PCs
<1>2. EntriesSound
  BY Topology DEF EntriesSound
<1>3. EmptyLast
  BY DEF EmptyLast, Slots
<1>4. OneEntryPerBlock
  BY DEF OneEntryPerBlock
<1>5. RequestsSound
  BY Topology DEF RequestsSound, RequestSound
<1>6. \A s \in Slots : Holders(s) = {}
  BY DEF Holders
<1>7. CountCoversHolders
  <2>1. Cardinality({}) = 0
    BY FS_EmptySet
  <2>2. \A s \in Slots : Cardinality(Holders(s)) = 0 /\ entry[s].activeCnt = 0
    BY <1>6, <2>1
  <2>3. QED
    BY <2>2 DEF CountCoversHolders
<1>8. HeldDataIntact
  BY <1>6 DEF HeldDataIntact
<1>9. NeverExits
  BY DEF NeverExits
<1>10. QED
  BY <1>1, <1>2, <1>3, <1>4, <1>5, <1>7, <1>8, <1>9 DEF IInv

-------------------------------------------------------------------------------
(* Steps that leave the entries alone and let no request start to hold     *)
(* one: those of the readers outside readBlock, of the transfer pool, and  *)
(* of the NetworkCache.                                                    *)
Quiet == /\ UNCHANGED <<entry, mem>>
         /\ \A q \in Reqs, s \in Slots :
              q \in Holders(s)' => /\ q \in Holders(s)
                                  /\ req'[q].blk = req[q].blk
                                  /\ req'[q].data = req[q].data

QuietAction(r) == \/ NetReadBlock(r) \/ NetStep(r) \/ CheckReady(r) \/ GetNet(r)
                  \/ GetLocal(r) \/ PollTimeout(r) \/ Retry(r) \/ Deliver(r)
                  \/ NetWriteBlock(r)

(* A step that touches one request, or none.                               *)
Touches(r) == \A q \in Reqs : q # r => req'[q] = req[q] /\ task'[q] = task[q]

Gone == {"deleted", "forgotten"}

(* A step that touches one request keeps the others sound.                 *)
LEMMA TouchedSound ==
  ASSUME RequestsSound, NEW r \in Reqs, Touches(r),
         req'[r].pc \notin Gone => RequestSound(r)'
  PROVE  RequestsSound'
  BY DEF RequestsSound, RequestSound, Touches, Gone

(* A quiet step may give up a request, or turn it over to the network.     *)
LEMMA TouchedQuiet ==
  ASSUME NEW r \in Reqs, Touches(r), UNCHANGED <<entry, mem>>,
         req'[r].slot = req[r].slot, req'[r].blk = req[r].blk,
         req'[r].pc \notin Gone \cup {"unused"} => req[r].pc \notin Gone \cup {"unused"},
         req'[r].origin # Net => /\ req[r].origin # Net
                                 /\ req'[r].data = req[r].data
  PROVE  Quiet
  BY DEF Quiet, Touches, Holders, Gone

(* Moving a request on leaves its other fields well typed.                 *)
LEMMA SetPc ==
  ASSUME NEW q \in Request, NEW pc \in PCs
  PROVE  [q EXCEPT !.pc = pc] \in Request
  BY DEF Request

(* The quiet actions preserve types.                                       *)
LEMMA QuietActionType ==
  ASSUME TypeOK, RequestsSound, NEW r \in Reqs, QuietAction(r)
  PROVE  TypeOK'
<1> USE DEF TypeOK
<1>0. req[r] \in Request /\ r[1] \in Procs
  BY Topology
<1>1. CASE NetReadBlock(r)
  <2>1. [req[r] EXCEPT !.pc = "return", !.origin = Net] \in Request
    BY <1>0 DEF Request, PCs
  <2>2. QED
    BY <1>1, <2>1 DEF NetReadBlock
<1>2. CASE \E d \in {"buf", "null"} : NetAnswer(r, d)
  <2>1. \A d \in {"buf", "null"} :
           [req[r] EXCEPT !.data = d, !.origin = Net, !.ready = TRUE] \in Request
    BY <1>0 DEF Request
  <2>2. PICK d \in {"buf", "null"} : NetAnswer(r, d)
    BY <1>2
  <2>3. req' \in [Reqs -> Request]
    BY <2>1, <2>2 DEF NetAnswer
  <2>4. QED
    BY <2>2, <2>3 DEF NetAnswer
<1>3. CASE NetTaskEnd(r) \/ NetFail(r)
  BY <1>3 DEF NetTaskEnd, NetFail
<1>4. CASE CheckReady(r)
  <2>1. {"hit", "netread", "localread"} \subseteq PCs
    BY DEF PCs
  <2>2. QED
    BY <1>0, <1>4, <2>1, SetPc DEF CheckReady
<1>5. CASE GetNet(r) \/ Retry(r)
  <2>1. "got" \in PCs
    BY DEF PCs
  <2>2. QED
    BY <1>0, <1>5, <2>1, SetPc DEF GetNet, Retry, Halt
<1>6. CASE GetLocal(r)
  <2>1. "poll" \in PCs
    BY DEF PCs
  <2>2. QED
    BY <1>0, <1>6, <2>1, SetPc DEF GetLocal
<1>7. CASE PollTimeout(r)
  <2>1. [req[r] EXCEPT !.pc = "retry", !.origin = Net] \in Request
    BY <1>0 DEF Request, PCs
  <2>2. QED
    BY <1>7, <2>1 DEF PollTimeout
<1>8. CASE Deliver(r)
  <2>1. req[r].pc \in {"hit", "got"} => req[r].owner \in Readers
    BY DEF RequestsSound, RequestSound
  <2>2. PICK pc \in {"forgotten", "write"}, c \in Caches :
           req' = req \/ req' = [req EXCEPT ![r].pc = pc, ![r].at = c]
    BY <1>8, <2>1, Topology DEF Deliver
  <2>3. [req[r] EXCEPT !.pc = pc, !.at = c] \in Request
    BY <1>0 DEF Request, PCs
  <2>4. req' \in [Reqs -> Request]
    BY <2>2, <2>3
  <2>5. QED
    BY <1>0, <1>8, <2>4 DEF Deliver, Halt
<1>9. CASE NetWriteBlock(r)
  <2>1. "deleted" \in PCs
    BY DEF PCs
  <2>2. QED
    BY <1>0, <1>9, <2>1, SetPc DEF NetWriteBlock
<1>10. QED
  BY <1>1, <1>2, <1>3, <1>4, <1>5, <1>6, <1>7, <1>8, <1>9 DEF QuietAction, NetStep

(* What a quiet action makes of its request.                               *)
LEMMA QuietActionEffect ==
  ASSUME TypeOK, RequestsSound, NeverExits, NEW r \in Reqs, QuietAction(r)
  PROVE  /\ Touches(r)
         /\ UNCHANGED <<entry, mem>>
         /\ NeverExits'
         /\ req'[r].slot = req[r].slot /\ req'[r].blk = req[r].blk
         /\ req'[r].pc \notin Gone \cup {"unused"} => req[r].pc \notin Gone \cup {"unused"}
         /\ req'[r].origin # Net => /\ req[r].origin # Net
                                    /\ req'[r].data = req[r].data
<1> USE Topology DEF TypeOK, Touches, Gone, NeverExits
<1>0. req[r] \in Request
  OBVIOUS
<1> USE DEF Request
<1>1. CASE NetReadBlock(r)
  BY <1>0, <1>1 DEF NetReadBlock
<1>2. CASE NetStep(r)
  BY <1>0, <1>2 DEF NetStep, NetAnswer, NetTaskEnd, NetFail
<1>3. CASE CheckReady(r)
  BY <1>0, <1>3 DEF CheckReady
<1>4. CASE GetNet(r)
  BY <1>0, <1>4 DEF GetNet, Halt
<1>5. CASE GetLocal(r)
  BY <1>0, <1>5 DEF GetLocal
<1>6. CASE PollTimeout(r)
  BY <1>0, <1>6 DEF PollTimeout
<1>7. CASE Retry(r)
  BY <1>0, <1>7 DEF Retry, Halt
<1>8. CASE Deliver(r)
  BY <1>0, <1>8 DEF Deliver, Halt
<1>9. CASE NetWriteBlock(r)
  BY <1>0, <1>9 DEF NetWriteBlock
<1>10. QED
  BY <1>1, <1>2, <1>3, <1>4, <1>5, <1>6, <1>7, <1>8, <1>9 DEF QuietAction

(* A quiet action is a quiet step and keeps its request sound.             *)
LEMMA QuietActionSound ==
  ASSUME TypeOK, RequestsSound, NeverExits, NEW r \in Reqs, QuietAction(r)
  PROVE  RequestsSound' /\ NeverExits' /\ Quiet
<1>0. req[r] \in Request /\ req = [q \in Reqs |-> req[q]] /\ task = [q \in Reqs |-> task[q]]
  BY DEF TypeOK
<1> DEFINE Sound == req'[r].pc \notin Gone => RequestSound(r)'
<1>1. ASSUME req' = req, task' = task
      PROVE  Sound
  BY <1>1 DEF RequestsSound, RequestSound, Gone
<1>2. req[r].pc \notin Gone => RequestSound(r)
  BY DEF RequestsSound, Gone
<1>3. Net \notin Caches /\ Base \notin Caches /\ Net # Base
  BY Topology
<1>4. Sound
  <2> USE <1>0, <1>2, <1>3 DEF RequestSound, Gone, Request
  <2>1. CASE NetReadBlock(r)
    BY <2>1 DEF NetReadBlock
  <2>2. CASE NetStep(r)
    BY <2>2 DEF NetStep, NetAnswer, NetTaskEnd, NetFail
  <2>3. CASE CheckReady(r)
    BY <2>3 DEF CheckReady
  <2>4. CASE GetNet(r)
    BY <1>1, <2>4 DEF GetNet
  <2>5. CASE GetLocal(r)
    BY <2>5 DEF GetLocal
  <2>6. CASE PollTimeout(r)
    BY <2>6 DEF PollTimeout
  <2>7. CASE Retry(r)
    BY <1>1, <2>7 DEF Retry
  <2>8. CASE Deliver(r)
    BY <1>1, <2>8 DEF Deliver
  <2>9. CASE NetWriteBlock(r)
    BY <2>9 DEF NetWriteBlock
  <2> HIDE DEF RequestSound, Gone, Request
  <2>10. QED
    BY <2>1, <2>2, <2>3, <2>4, <2>5, <2>6, <2>7, <2>8, <2>9 DEF QuietAction
<1>5. QED
  BY <1>4, QuietActionEffect, TouchedSound, TouchedQuiet

-------------------------------------------------------------------------------
(* Counting holders.                                                       *)
LEMMA HoldersFinite ==
  ASSUME NEW s \in Slots
  PROVE  /\ IsFiniteSet(Holders(s)) /\ Cardinality(Holders(s)) \in Nat
         /\ IsFiniteSet(Holders(s)') /\ Cardinality(Holders(s)') \in Nat
<1>1. Holders(s) \subseteq Reqs /\ Holders(s)' \subseteq Reqs
  BY DEF Holders
<1>2. QED
  BY <1>1, Topology, FS_Subset, FS_CardinalityType

(* The count still covers the holders when no holder joins,                *)
LEMMA CoverKept ==
  ASSUME TypeOK, TypeOK', CountCoversHolders, NEW s \in Slots,
         Holders(s)' \subseteq Holders(s),
         entry'[s].activeCnt >= entry[s].activeCnt
  PROVE  entry'[s].activeCnt >= Cardinality(Holders(s)')
<1>1. Cardinality(Holders(s)') <= Cardinality(Holders(s))
  BY HoldersFinite, FS_Subset
<1>2. entry[s].activeCnt \in Nat /\ entry'[s].activeCnt \in Nat
  BY DEF TypeOK, Entry
<1>3. QED
  BY <1>1, <1>2, HoldersFinite DEF CountCoversHolders

(* when one joins and the count goes up (blockSet, incBlkCnt),             *)
LEMMA CoverJoined ==
  ASSUME TypeOK, TypeOK', CountCoversHolders, NEW s \in Slots, NEW r \in Reqs,
         Holders(s)' \subseteq Holders(s) \cup {r},
         entry'[s].activeCnt = entry[s].activeCnt + 1
  PROVE  entry'[s].activeCnt >= Cardinality(Holders(s)')
<1>0. IsFiniteSet(Holders(s)) /\ Cardinality(Holders(s)) \in Nat
  BY HoldersFinite
<1>1. /\ IsFiniteSet(Holders(s) \cup {r})
      /\ Cardinality(Holders(s) \cup {r}) <= Cardinality(Holders(s)) + 1
  <2>1. /\ IsFiniteSet(Holders(s) \cup {r})
        /\ Cardinality(Holders(s) \cup {r}) =
             IF r \in Holders(s) THEN Cardinality(Holders(s)) ELSE Cardinality(Holders(s)) + 1
    BY <1>0, FS_AddElement
  <2>2. QED
    BY <1>0, <2>1
<1>2. Cardinality(Holders(s)') <= Cardinality(Holders(s) \cup {r})
  BY <1>1, FS_Subset
<1>3. Cardinality(Holders(s) \cup {r}) \in Nat
  BY <1>1, FS_CardinalityType
<1>4. entry[s].activeCnt \in Nat
  BY DEF TypeOK, Entry
<1>5. QED
  BY <1>1, <1>2, <1>3, <1>4, HoldersFinite DEF CountCoversHolders

(* and when one leaves and the count goes down (decBlkCnt).                *)
LEMMA CoverLeft ==
  ASSUME TypeOK, TypeOK', CountCoversHolders, NEW s \in Slots, NEW r \in Holders(s),
         Holders(s)' \subseteq Holders(s) \ {r},
         entry'[s].activeCnt = entry[s].activeCnt - 1
  PROVE  entry'[s].activeCnt >= Cardinality(Holders(s)')
<1>1. /\ IsFiniteSet(Holders(s) \ {r})
      /\ Cardinality(Holders(s) \ {r}) = Cardinality(Holders(s)) - 1
  BY HoldersFinite, FS_RemoveElement
<1>2. Cardinality(Holders(s)') <= Cardinality(Holders(s) \ {r})
  BY <1>1, FS_Subset
<1>3. entry[s].activeCnt \in Nat
  BY DEF TypeOK, Entry
<1>4. QED
  BY <1>1, <1>2, <1>3, HoldersFinite DEF CountCoversHolders

(* A quiet step keeps the invariant.                                       *)
LEMMA QuietStep ==
  ASSUME IInv, Quiet, TypeOK', RequestsSound', NeverExits'
  PROVE  IInv'
<1> USE DEF IInv, Quiet
<1>1. EntriesSound' /\ EmptyLast' /\ OneEntryPerBlock'
  BY DEF EntriesSound, EmptyLast, OneEntryPerBlock
<1>2. \A s \in Slots : Holders(s)' \subseteq Holders(s)
  BY DEF Holders
<1>3. CountCoversHolders'
  <2>1. ASSUME NEW s \in Slots
        PROVE  entry'[s].activeCnt >= Cardinality(Holders(s)')
    <3>1. entry'[s].activeCnt >= entry[s].activeCnt
      BY DEF TypeOK, Entry
    <3>2. QED
      BY <1>2, <3>1, CoverKept
  <2>2. QED
    BY <2>1 DEF CountCoversHolders
<1>4. HeldDataIntact'
  <2>1. SUFFICES ASSUME NEW s \in Slots, NEW r \in Holders(s)'
                 PROVE  /\ entry'[s].blk = req'[r].blk /\ entry'[s].status # "EMPTY"
                        /\ req'[r].data = "slot" =>
                              entry'[s].status = "AVAIL" /\ mem'[s] = req'[r].blk
    BY DEF HeldDataIntact
  <2>2. r \in Reqs /\ r \in Holders(s)
    BY <1>2 DEF Holders
  <2>3. req'[r].blk = req[r].blk /\ req'[r].data = req[r].data
    BY <2>1, <2>2
  <2>4. QED
    BY <2>2, <2>3 DEF HeldDataIntact
<1>5. QED
  BY <1>1, <1>3, <1>4

-------------------------------------------------------------------------------
(* What oldestBlock guarantees its callers.  An entry that is empty or     *)
(* evicted for block b has no holders, no other entry of the cache has b,  *)
(* and no empty entry comes before it.                                     *)
Fresh(s, b) ==
  /\ Holders(s) = {}
  /\ \A u \in Slots : u[1] = s[1] /\ entry[u].status # "EMPTY" => entry[u].blk # b
  /\ \A j \in Ways : j < s[3] => entry[<<s[1], s[2], j>>].status # "EMPTY"

(* A slot of the bin of block b is Slot(c, b, i) for some i.               *)
LEMMA SlotOf ==
  ASSUME NEW u \in Slots, NEW b \in Blocks, u[2] = BinOf[u[1]][b]
  PROVE  u[3] \in Ways /\ u[1] \in Caches /\ u = Slot(u[1], b, u[3])
  BY DEF Slots, Slot

(* The entry that oldestBlock finds has the block, or is fresh for it.     *)
LEMMA OldestBlockFinds ==
  ASSUME IInv, NEW c \in Caches, NEW b \in Blocks, NEW s \in OldestBlock(c, b)
  PROVE  /\ s \in Slots /\ s[1] = c /\ s[2] = BinOf[c][b]
         /\ \/ entry[s].blk = b /\ entry[s].status # "EMPTY" /\ FoundStatus(s, b) = entry[s].status
            \/ FoundStatus(s, b) \in {"EMPTY", "EVICT"} /\ Fresh(s, b)
<1> DEFINE stop == {i \in Ways : \/ entry[Slot(c, b, i)].blk = b
                                 \/ entry[Slot(c, b, i)].status = "EMPTY"}
           free == {i \in Ways : /\ entry[Slot(c, b, i)].status = "AVAIL"
                                 /\ ~AnyUsers(Slot(c, b, i))}
<1>1. PICK i \in Ways : /\ s = Slot(c, b, i)
                        /\ \/ i \in stop /\ \A j \in stop : i <= j
                           \/ i \in free /\ stop = {}
  BY DEF OldestBlock
<1>2. s \in Slots /\ s[1] = c /\ s[2] = BinOf[c][b] /\ s[3] = i
  BY <1>1, SlotIsSlot
<1>3. \A u \in Slots : u[1] = c /\ entry[u].blk = b =>
         u[3] \in stop /\ u = <<c, BinOf[c][b], u[3]>>
  <2>1. SUFFICES ASSUME NEW u \in Slots, u[1] = c, entry[u].blk = b
                 PROVE  u[3] \in stop /\ u = <<c, BinOf[c][b], u[3]>>
    OBVIOUS
  <2>2. u[2] = BinOf[c][b]
    BY <2>1, Topology DEF IInv, EntriesSound
  <2>3. QED
    BY <2>1, <2>2, SlotOf DEF Slot
<1>4. \A j \in Ways : entry[<<c, BinOf[c][b], j>>].status = "EMPTY" => j \in stop
  BY DEF Slot
<1>5. CASE i \in stop /\ entry[s].blk = b
  BY <1>1, <1>2, <1>5, Topology DEF FoundStatus, IInv, EntriesSound
<1>6. CASE i \in stop /\ entry[s].blk # b
  <2>1. entry[s].status = "EMPTY" /\ FoundStatus(s, b) = "EMPTY"
    BY <1>1, <1>6 DEF FoundStatus
  <2>2. Holders(s) = {}
    BY <1>2, <2>1 DEF IInv, HeldDataIntact
  <2>3. \A j \in stop : i <= j
    BY <1>1, <1>6
  <2>4. ASSUME NEW u \in Slots, u[1] = c, entry[u].status # "EMPTY", entry[u].blk = b
        PROVE  FALSE
    <3>1. u[3] \in Ways /\ i <= u[3] /\ u = <<c, BinOf[c][b], u[3]>>
      BY <1>3, <2>3, <2>4
    <3>2. i # u[3]
      BY <1>1, <2>1, <2>4, <3>1 DEF Slot
    <3>3. i < u[3]
      BY <3>1, <3>2 DEF Ways
    <3>4. entry[<<c, BinOf[c][b], i>>].status = "EMPTY"
      BY <1>1, <2>1 DEF Slot
    <3>5. BinOf[c][b] \in Bins
      BY Topology
    <3>6. QED
      BY <2>4, <3>1, <3>3, <3>4, <3>5 DEF IInv, EmptyLast
  <2>5. ASSUME NEW j \in Ways, j < i
        PROVE  entry[<<c, BinOf[c][b], j>>].status # "EMPTY"
    BY <1>4, <2>3, <2>5 DEF Ways
  <2>6. QED
    BY <1>2, <2>1, <2>2, <2>4, <2>5 DEF Fresh
<1>7. CASE i \in free /\ stop = {}
  <2>1. entry[s].status = "AVAIL" /\ entry[s].activeCnt = 0
    BY <1>1, <1>7 DEF AnyUsers
  <2>2. entry[s].blk # b
    BY <1>2, <1>3, <1>7
  <2>3. Holders(s) = {}
    <3>1. 0 >= Cardinality(Holders(s))
      BY <1>2, <2>1 DEF IInv, CountCoversHolders
    <3>2. IsFiniteSet(Holders(s)) /\ Cardinality(Holders(s)) \in Nat
      BY <1>2, HoldersFinite
    <3>3. QED
      BY <3>1, <3>2, FS_EmptySet
  <2>4. FoundStatus(s, b) = "EVICT"
    BY <2>1, <2>2 DEF FoundStatus
  <2>5. QED
    BY <1>2, <1>3, <1>4, <1>7, <2>3, <2>4 DEF Fresh
<1>8. QED
  BY <1>1, <1>5, <1>6, <1>7

(* What writeBlock finds in the originating cache: the very entry that the *)
(* request holds, with a user to take off.                                 *)
LEMMA GetBlockFinds ==
  ASSUME IInv, NEW r \in Reqs, req[r].pc = "write", req[r].origin \in Caches
  PROVE  /\ req[r].slot \in Slots
         /\ GetBlock(req[r].origin, req[r].blk) = {req[r].slot}
         /\ entry[req[r].slot].activeCnt > 0
<1> DEFINE s == req[r].slot  b == req[r].blk  c == req[r].origin
<1>1. /\ s \in Slots /\ b \in Blocks /\ c = s[1]
      /\ s[2] = BinOf[c][b] /\ req[r].data = "slot"
  BY DEF IInv, TypeOK, Request, RequestsSound, RequestSound
<1>2. r \in Holders(s)
  BY <1>1, Topology DEF Holders
<1>3. entry[s].blk = b /\ entry[s].status = "AVAIL"
  BY <1>1, <1>2 DEF IInv, HeldDataIntact
<1>4. s[3] \in Ways /\ c \in Caches /\ s = Slot(c, b, s[3])
  BY <1>1, SlotOf
<1>5. ASSUME NEW i \in Ways, entry[Slot(c, b, i)].blk = b, entry[Slot(c, b, i)].status = "AVAIL"
      PROVE  i = s[3]
  <2>1. Slot(c, b, i) \in Slots /\ Slot(c, b, i)[1] = c /\ Slot(c, b, i)[3] = i
    BY <1>1, <1>4, SlotIsSlot
  <2>2. QED
    BY <1>1, <1>3, <1>5, <2>1 DEF IInv, OneEntryPerBlock
<1>6. GetBlock(c, b) = {s}
  <2> DEFINE hits == {i \in Ways : /\ entry[Slot(c, b, i)].blk = b
                                   /\ entry[Slot(c, b, i)].status = "AVAIL"}
  <2>1. hits = {s[3]}
    BY <1>3, <1>4, <1>5
  <2>2. {k \in hits : \A j \in hits : k <= j} = {s[3]}
    BY <1>4, <2>1 DEF Ways
  <2>3. QED
    BY <1>4, <2>2 DEF GetBlock
<1>7. entry[s].activeCnt > 0
  <2>1. IsFiniteSet(Holders(s)) /\ Cardinality(Holders(s)) \in Nat
    BY <1>1, HoldersFinite
  <2>2. Cardinality(Holders(s)) # 0
    BY <1>2, <2>1, FS_EmptySet
  <2>3. entry[s].activeCnt \in Nat /\ entry[s].activeCnt >= Cardinality(Holders(s))
    BY <1>1 DEF IInv, TypeOK, Entry, CountCoversHolders
  <2>4. QED
    BY <2>1, <2>2, <2>3
<1>8. QED
  BY <1>1, <1>6, <1>7

-------------------------------------------------------------------------------
(* The two ways a step changes the entries.  Either every entry keeps its  *)
(* block and its status ...                                                *)
LEMMA EntriesKept ==
  ASSUME IInv, UNCHANGED mem,
         \A s \in Slots : /\ entry'[s].blk = entry[s].blk
                          /\ entry'[s].status = entry[s].status
  PROVE  EntriesSound' /\ EmptyLast' /\ OneEntryPerBlock'
<1>1. EntriesSound'
  BY DEF IInv, EntriesSound
<1>2. EmptyLast'
  <2>1. \A c \in Caches, n \in Bins, i \in Ways : <<c, n, i>> \in Slots
    BY DEF Slots
  <2>2. QED
    BY <2>1 DEF IInv, EmptyLast
<1>3. OneEntryPerBlock'
  BY DEF IInv, OneEntryPerBlock
<1>4. QED
  BY <1>1, <1>2, <1>3

(* ... or one entry is given to a block of its bin.                        *)
LEMMA EntryTaken ==
  ASSUME IInv, NEW s \in Slots, NEW b \in Blocks, s[2] = BinOf[s[1]][b],
         \/ entry[s].blk = b /\ entry[s].status # "EMPTY"
         \/ Fresh(s, b),
         entry'[s].blk = b, entry'[s].status # "EMPTY",
         entry'[s].status = "AVAIL" => mem'[s] = b,
         \A u \in Slots : u # s => entry'[u] = entry[u] /\ mem'[u] = mem[u]
  PROVE  EntriesSound' /\ EmptyLast' /\ OneEntryPerBlock'
<1>1. EntriesSound'
  BY Topology DEF IInv, EntriesSound
<1>2. EmptyLast'
  <2>1. SUFFICES ASSUME NEW c \in Caches, NEW n \in Bins, NEW i \in Ways, NEW j \in Ways,
                        i < j, entry'[<<c, n, i>>].status = "EMPTY"
                 PROVE  entry'[<<c, n, j>>].status = "EMPTY"
    BY DEF EmptyLast
  <2>2. <<c, n, i>> \in Slots /\ <<c, n, j>> \in Slots
    BY DEF Slots
  <2>3. entry[<<c, n, i>>].status = "EMPTY" /\ entry[<<c, n, j>>].status = "EMPTY"
    BY <2>1, <2>2 DEF IInv, EmptyLast
  <2>4. <<c, n, j>> # s
    BY <2>1, <2>3 DEF Fresh
  <2>5. QED
    BY <2>2, <2>3, <2>4
<1>3. OneEntryPerBlock'
  <2>1. ASSUME NEW u \in Slots, u # s, u[1] = s[1], entry[u].status # "EMPTY"
        PROVE  entry[u].blk # b
    BY <2>1 DEF IInv, OneEntryPerBlock, Fresh
  <2>2. QED
    BY <2>1 DEF IInv, OneEntryPerBlock
<1>4. QED
  BY <1>1, <1>2, <1>3

(* A request that held nothing starts to hold an entry of its block.       *)
LEMMA JoinStep ==
  ASSUME IInv, TypeOK', NeverExits', NEW r \in Reqs, NEW s \in Slots, Touches(r),
         req[r].slot = None, entry[s].blk = req[r].blk, entry[s].status # "EMPTY",
         req'[r].slot = s, req'[r].blk = req[r].blk,
         req'[r].data = "slot" => entry[s].status = "AVAIL",
         RequestSound(r)', UNCHANGED mem,
         entry' = [entry EXCEPT ![s].activeCnt = @ + 1]
  PROVE  IInv'
<1>1. /\ entry'[s].activeCnt = entry[s].activeCnt + 1
      /\ entry'[s].blk = entry[s].blk /\ entry'[s].status = entry[s].status
      /\ \A u \in Slots : u # s => entry'[u] = entry[u]
  BY DEF IInv, TypeOK, Entry
<1>2. \A u \in Slots : entry'[u].blk = entry[u].blk /\ entry'[u].status = entry[u].status
  BY <1>1
<1>3. EntriesSound' /\ EmptyLast' /\ OneEntryPerBlock'
  BY <1>2, EntriesKept
<1>4. RequestsSound'
  BY TouchedSound DEF IInv
<1>5. ASSUME NEW u \in Slots
      PROVE  Holders(u)' \subseteq IF u = s THEN Holders(u) \cup {r} ELSE Holders(u)
  BY NoneIsNoSlot DEF Holders, Touches
<1>6. CountCoversHolders'
  <2>1. ASSUME NEW u \in Slots
        PROVE  entry'[u].activeCnt >= Cardinality(Holders(u)')
    <3>1. CASE u = s
      BY <1>1, <1>5, <3>1, CoverJoined DEF IInv
    <3>2. CASE u # s
      <4>1. entry'[u].activeCnt >= entry[u].activeCnt
        BY <1>1, <3>2 DEF IInv, TypeOK, Entry
      <4>2. QED
        BY <1>5, <3>2, <4>1, CoverKept DEF IInv
    <3>3. QED
      BY <3>1, <3>2
  <2>2. QED
    BY <2>1 DEF CountCoversHolders
<1>7. HeldDataIntact'
  <2>1. SUFFICES ASSUME NEW u \in Slots, NEW q \in Holders(u)'
                 PROVE  /\ entry'[u].blk = req'[q].blk /\ entry'[u].status # "EMPTY"
                        /\ req'[q].data = "slot" =>
                              entry'[u].status = "AVAIL" /\ mem'[u] = req'[q].blk
    BY DEF HeldDataIntact
  <2>2. q \in Reqs
    BY DEF Holders
  <2>3. CASE q = r
    <3>1. u = s
      BY <2>3 DEF Holders
    <3>2. QED
      BY <1>1, <2>3, <3>1 DEF IInv, EntriesSound
  <2>4. CASE q # r
    <3>1. q \in Holders(u) /\ req'[q] = req[q]
      BY <1>5, <2>1, <2>2, <2>4 DEF Touches
    <3>2. QED
      BY <1>2, <3>1 DEF IInv, HeldDataIntact
  <2>5. QED
    BY <2>3, <2>4
<1>8. QED
  BY <1>3, <1>4, <1>6, <1>7 DEF IInv

(* A step gives an entry to the block of its request, which holds what it  *)
(* held before.                                                            *)
LEMMA TakeStep ==
  ASSUME IInv, TypeOK', NeverExits', NEW r \in Reqs, Touches(r),
         NEW s \in Slots, NEW b \in Blocks, s[2] = BinOf[s[1]][b],
         \/ entry[s].blk = b /\ entry[s].status # "EMPTY" /\ entry'[s].status = "AVAIL"
         \/ Fresh(s, b),
         entry'[s].blk = b, entry'[s].status # "EMPTY",
         entry'[s].status = "AVAIL" => mem'[s] = b,
         entry'[s].activeCnt >= entry[s].activeCnt,
         \A u \in Slots : u # s => entry'[u] = entry[u] /\ mem'[u] = mem[u],
         req'[r].slot = req[r].slot, req'[r].blk = req[r].blk,
         req'[r].data = req[r].data, req'[r].origin = req[r].origin,
         req'[r].pc = req[r].pc, RequestSound(r)'
  PROVE  IInv'
<1>1. EntriesSound' /\ EmptyLast' /\ OneEntryPerBlock'
  BY EntryTaken
<1>2. RequestsSound'
  BY TouchedSound DEF IInv
<1>3. ASSUME NEW u \in Slots
      PROVE  Holders(u)' \subseteq Holders(u)
  BY DEF Holders, Touches
<1>4. CountCoversHolders'
  <2>1. ASSUME NEW u \in Slots
        PROVE  entry'[u].activeCnt >= Cardinality(Holders(u)')
    <3>1. entry'[u].activeCnt >= entry[u].activeCnt
      BY DEF IInv, TypeOK, Entry
    <3>2. QED
      BY <1>3, <3>1, CoverKept DEF IInv
  <2>2. QED
    BY <2>1 DEF CountCoversHolders
<1>5. HeldDataIntact'
  <2>1. SUFFICES ASSUME NEW u \in Slots, NEW q \in Holders(u)'
                 PROVE  /\ entry'[u].blk = req'[q].blk /\ entry'[u].status # "EMPTY"
                        /\ req'[q].data = "slot" =>
                              entry'[u].status = "AVAIL" /\ mem'[u] = req'[q].blk
    BY DEF HeldDataIntact
  <2>2. q \in Holders(u) /\ q \in Reqs
    BY <1>3, <2>1 DEF Holders
  <2>3. req'[q].blk = req[q].blk /\ req'[q].data = req[q].data
    BY <2>2 DEF Touches
  <2>4. CASE u = s
    BY <2>2, <2>3, <2>4 DEF IInv, HeldDataIntact, Fresh
  <2>5. CASE u # s
    BY <2>2, <2>3, <2>5 DEF IInv, HeldDataIntact
  <2>6. QED
    BY <2>4, <2>5
<1>6. QED
  BY <1>1, <1>2, <1>4, <1>5 DEF IInv

-------------------------------------------------------------------------------
(* The actions that visit a cache, and the remaining ones.                 *)
LEMMA ReadBlockStep ==
  ASSUME IInv, NEW r \in Reqs, ReadBlock(r)
  PROVE  IInv'
<1> DEFINE c == req[r].at  b == req[r].blk
<1>1. /\ c \in Caches /\ b \in Blocks /\ req[r].pc = "read" /\ req[r] \in Request
      /\ req[r].origin = Base /\ req[r].slot = None /\ req[r].data = "none"
      /\ ~req[r].ready /\ task[r] = "none" /\ req[r].owner \in Readers
      /\ nextLevel[c] \in Caches \cup {Net}
  BY Topology DEF ReadBlock, IInv, TypeOK, Request, RequestsSound, RequestSound
<1>2. req \in [Reqs -> Request] /\ entry \in [Slots -> Entry] /\ NeverExits
  BY DEF IInv, TypeOK
<1>3. Net \notin Caches /\ Base \notin Caches /\ Net # Base
  BY Topology
<1>4. ASSUME NEW s \in OldestBlock(c, b), ReadHit(r, c, s)
      PROVE  IInv'
  <2>1. /\ s \in Slots /\ s[1] = c /\ s[2] = BinOf[c][b]
        /\ entry[s].blk = b /\ entry[s].status = "AVAIL"
    BY <1>1, <1>4, OldestBlockFinds DEF ReadHit
  <2>2. [req[r] EXCEPT !.pc = "return", !.origin = c, !.slot = s,
                       !.reserved = @ \cup {c}, !.data = "slot", !.ready = TRUE] \in Request
    BY <1>1, <2>1 DEF Request, PCs
  <2>3. req' = [req EXCEPT ![r] = [req[r] EXCEPT !.pc = "return", !.origin = c, !.slot = s,
                       !.reserved = @ \cup {c}, !.data = "slot", !.ready = TRUE]]
    BY <1>2, <1>4 DEF ReadHit
  <2>4. entry' = [entry EXCEPT ![s].activeCnt = @ + 1]
    BY <1>2, <1>4, <2>1 DEF ReadHit, BlockSet, Entry
  <2>5. TypeOK'
    <3>1. req' \in [Reqs -> Request]
      BY <1>2, <2>2, <2>3
    <3>2. [entry[s] EXCEPT !.activeCnt = @ + 1] \in Entry
      BY <1>2, <2>1 DEF Entry
    <3>3. entry' \in [Slots -> Entry]
      BY <1>2, <2>4, <3>2
    <3>4. QED
      BY <1>4, <3>1, <3>3 DEF ReadHit, IInv, TypeOK
  <2>6. Touches(r) /\ NeverExits'
    BY <1>2, <1>4, <2>3 DEF Touches, ReadHit, NeverExits
  <2>7. req'[r] = [req[r] EXCEPT !.pc = "return", !.origin = c, !.slot = s,
                       !.reserved = @ \cup {c}, !.data = "slot", !.ready = TRUE]
    BY <1>2, <2>3
  <2>8. /\ req'[r].slot = s /\ req'[r].blk = b /\ req'[r].pc = "return"
        /\ req'[r].origin = c /\ req'[r].data = "slot" /\ req'[r].ready
        /\ req'[r].owner = req[r].owner
    BY <1>1, <2>7 DEF Request
  <2>9. RequestSound(r)'
    BY <1>1, <1>3, <1>4, <2>1, <2>8, NoneIsNoSlot DEF RequestSound, ReadHit
  <2>10. QED
    BY <1>1, <1>4, <2>1, <2>4, <2>5, <2>6, <2>8, <2>9, JoinStep DEF ReadHit
<1>5. ASSUME NEW s \in OldestBlock(c, b), ReadJoin(r, c, s)
      PROVE  IInv'
  <2>1. /\ s \in Slots /\ s[1] = c /\ s[2] = BinOf[c][b]
        /\ entry[s].blk = b /\ entry[s].status # "EMPTY"
    BY <1>1, <1>5, OldestBlockFinds DEF ReadJoin
  <2>2. [req[r] EXCEPT !.pc = "return", !.slot = s, !.reserved = @ \cup {c}] \in Request
    BY <1>1, <2>1 DEF Request, PCs
  <2>3. req' = [req EXCEPT ![r] = [req[r] EXCEPT !.pc = "return", !.slot = s,
                                                 !.reserved = @ \cup {c}]]
    BY <1>2, <1>5 DEF ReadJoin
  <2>4. entry' = [entry EXCEPT ![s].activeCnt = @ + 1]
    BY <1>5 DEF ReadJoin, IncBlkCnt
  <2>5. TypeOK'
    <3>1. req' \in [Reqs -> Request]
      BY <1>2, <2>2, <2>3
    <3>2. [entry[s] EXCEPT !.activeCnt = @ + 1] \in Entry
      BY <1>2, <2>1 DEF Entry
    <3>3. entry' \in [Slots -> Entry]
      BY <1>2, <2>4, <3>2
    <3>4. QED
      BY <1>5, <3>1, <3>3 DEF ReadJoin, IInv, TypeOK
  <2>6. Touches(r) /\ NeverExits'
    BY <1>2, <1>5, <2>3 DEF Touches, ReadJoin, NeverExits
  <2>7. req'[r] = [req[r] EXCEPT !.pc = "return", !.slot = s, !.reserved = @ \cup {c}]
    BY <1>2, <2>3
  <2>8. /\ req'[r].slot = s /\ req'[r].blk = b /\ req'[r].pc = "return"
        /\ req'[r].origin = Base /\ req'[r].data = "none" /\ ~req'[r].ready
        /\ req'[r].owner = req[r].owner
    BY <1>1, <2>7 DEF Request
  <2>9. RequestSound(r)'
    BY <1>1, <1>3, <1>5, <2>1, <2>8, NoneIsNoSlot DEF RequestSound, ReadJoin
  <2>10. QED
    BY <1>1, <1>5, <2>1, <2>4, <2>5, <2>6, <2>8, <2>9, JoinStep DEF ReadJoin
<1>6. ASSUME NEW s \in OldestBlock(c, b), ReadReserve(r, c, s)
      PROVE  IInv'
  <2>1. s \in Slots /\ s[1] = c /\ s[2] = BinOf[c][b] /\ Fresh(s, b)
    <3>1. entry[s].status # "EVICT"
      BY <1>1, <1>2, <1>6, OldestBlockFinds DEF Entry, Status
    <3>2. QED
      BY <1>1, <1>6, <3>1, OldestBlockFinds DEF ReadReserve
  <2>2. [req[r] EXCEPT !.at = nextLevel[c], !.reserved = @ \cup {c}] \in Request
    BY <1>1 DEF Request
  <2>3. req' = [req EXCEPT ![r] = [req[r] EXCEPT !.at = nextLevel[c], !.reserved = @ \cup {c}]]
    BY <1>2, <1>6 DEF ReadReserve
  <2>4. PICK st \in {"PRE", "RES"} :
          entry' = [entry EXCEPT ![s] = [blk |-> b, status |-> st,
                                         activeCnt |-> entry[s].activeCnt + 1]]
    BY <1>6 DEF ReadReserve, BlockSet
  <2>5. TypeOK'
    <3>1. req' \in [Reqs -> Request]
      BY <1>2, <2>2, <2>3
    <3>2. entry' \in [Slots -> Entry]
      BY <1>1, <1>2, <2>1, <2>4 DEF Entry, Status
    <3>3. QED
      BY <1>6, <3>1, <3>2 DEF ReadReserve, IInv, TypeOK
  <2>6. Touches(r) /\ NeverExits'
    BY <1>2, <1>6, <2>3 DEF Touches, ReadReserve, NeverExits
  <2>7. req'[r] = [req[r] EXCEPT !.at = nextLevel[c], !.reserved = @ \cup {c}]
    BY <1>2, <2>3
  <2>8. /\ req'[r].slot = req[r].slot /\ req'[r].blk = b /\ req'[r].data = req[r].data
        /\ req'[r].origin = req[r].origin /\ req'[r].pc = req[r].pc
        /\ req'[r].owner = req[r].owner /\ req'[r].ready = req[r].ready
    BY <1>1, <2>7 DEF Request
  <2>9. RequestSound(r)'
    BY <1>1, <1>3, <1>6, <2>8 DEF RequestSound, ReadReserve
  <2>10. /\ entry'[s].blk = b /\ entry'[s].status = st
         /\ entry'[s].activeCnt >= entry[s].activeCnt
         /\ \A u \in Slots : u # s => entry'[u] = entry[u] /\ mem'[u] = mem[u]
    BY <1>2, <1>6, <2>1, <2>4 DEF Entry, ReadReserve
  <2>11. QED
    BY <1>1, <2>1, <2>5, <2>6, <2>8, <2>9, <2>10, TakeStep
<1>7. ASSUME ReadNoSpace(r, c)
      PROVE  IInv'
  <2>1. [req[r] EXCEPT !.at = nextLevel[c]] \in Request
    BY <1>1 DEF Request
  <2>2. req' = [req EXCEPT ![r] = [req[r] EXCEPT !.at = nextLevel[c]]]
    BY <1>2, <1>7 DEF ReadNoSpace
  <2>3. req'[r] = [req[r] EXCEPT !.at = nextLevel[c]] /\ req' \in [Reqs -> Request]
    BY <1>2, <2>1, <2>2
  <2>4. TypeOK' /\ Touches(r) /\ NeverExits'
    BY <1>2, <1>7, <2>2, <2>3 DEF ReadNoSpace, IInv, TypeOK, Touches, NeverExits
  <2>5. RequestSound(r)'
    BY <1>1, <1>3, <1>7, <2>3 DEF RequestSound, Request, ReadNoSpace
  <2>6. /\ req'[r].slot = req[r].slot /\ req'[r].blk = req[r].blk /\ req'[r].pc = req[r].pc
        /\ req'[r].origin = req[r].origin /\ req'[r].data = req[r].data
    BY <1>1, <2>3 DEF Request
  <2>7. RequestsSound' /\ Quiet
    BY <1>7, <2>4, <2>5, <2>6, TouchedSound, TouchedQuiet DEF IInv, ReadNoSpace
  <2>8. QED
    BY <2>4, <2>7, QuietStep
<1>8. QED
  BY <1>4, <1>5, <1>6, <1>7 DEF ReadBlock

(* writeBlock in the originating cache releases the request's own entry.   *)
LEMMA WriteOriginStep ==
  ASSUME IInv, NEW r \in Reqs, req[r].pc = "write", req[r].at \in Caches,
         WriteOrigin(r, req[r].at), task' = task, todo' = todo
  PROVE  IInv'
<1> DEFINE s == req[r].slot
<1>1. /\ req \in [Reqs -> Request] /\ entry \in [Slots -> Entry] /\ NeverExits
      /\ req[r] \in Request
  BY DEF IInv, TypeOK
<1>2. /\ s \in Slots /\ GetBlock(req[r].at, req[r].blk) = {s} /\ entry[s].activeCnt > 0
      /\ req[r].origin = req[r].at
  BY GetBlockFinds DEF WriteOrigin
<1>3. /\ \/ entry' = [entry EXCEPT ![s].activeCnt = @ - 1]
         \/ entry' = entry
      /\ req' = [req EXCEPT ![r].pc = "deleted"]
      /\ UNCHANGED <<mem, halted>>
  <2>1. entry[s].activeCnt # 0
    BY <1>1, <1>2 DEF Entry
  <2>2. QED
    BY <1>2, <2>1 DEF WriteOrigin, DecBlkCnt
<1>4. TypeOK'
  <2>1. [entry[s] EXCEPT !.activeCnt = @ - 1] \in Entry
    BY <1>1, <1>2 DEF Entry
  <2>2. entry' \in [Slots -> Entry]
    BY <1>1, <1>2, <1>3, <2>1
  <2>3. [req[r] EXCEPT !.pc = "deleted"] \in Request
    BY <1>1 DEF Request, PCs
  <2>4. req' \in [Reqs -> Request]
    BY <1>1, <1>3, <2>3
  <2>5. QED
    BY <1>3, <2>2, <2>4 DEF IInv, TypeOK
<1>5. Touches(r) /\ NeverExits' /\ req'[r].pc = "deleted"
  BY <1>1, <1>3 DEF Touches, NeverExits, Request
<1>6. RequestsSound'
  BY <1>5, TouchedSound DEF IInv, Gone
<1>7. ASSUME NEW u \in Slots
      PROVE  /\ entry'[u].blk = entry[u].blk /\ entry'[u].status = entry[u].status
             /\ \/ entry'[u].activeCnt >= entry[u].activeCnt
                \/ u = s /\ entry'[u].activeCnt = entry[u].activeCnt - 1
  BY <1>1, <1>2, <1>3 DEF Entry
<1>8. EntriesSound' /\ EmptyLast' /\ OneEntryPerBlock'
  BY <1>3, <1>7, EntriesKept
<1>9. \A u \in Slots : Holders(u)' \subseteq Holders(u) \ {r}
  BY <1>5 DEF Holders, Touches
<1>10. r \in Holders(s)
  BY <1>2, Topology DEF Holders
<1>11. CountCoversHolders'
  <2>1. ASSUME NEW u \in Slots
        PROVE  entry'[u].activeCnt >= Cardinality(Holders(u)')
    <3>1. CASE entry'[u].activeCnt >= entry[u].activeCnt
      BY <1>4, <1>9, <3>1, CoverKept DEF IInv
    <3>2. CASE u = s /\ entry'[u].activeCnt = entry[u].activeCnt - 1
      BY <1>4, <1>9, <1>10, <3>2, CoverLeft DEF IInv
    <3>3. QED
      BY <1>7, <3>1, <3>2
  <2>2. QED
    BY <2>1 DEF CountCoversHolders
<1>12. HeldDataIntact'
  <2>1. SUFFICES ASSUME NEW u \in Slots, NEW q \in Holders(u)'
                 PROVE  /\ entry'[u].blk = req'[q].blk /\ entry'[u].status # "EMPTY"
                        /\ req'[q].data = "slot" =>
                              entry'[u].status = "AVAIL" /\ mem'[u] = req'[q].blk
    BY DEF HeldDataIntact
  <2>2. q \in Holders(u) /\ q \in Reqs /\ q # r
    BY <1>9, <2>1 DEF Holders
  <2>3. req'[q] = req[q]
    BY <1>5, <2>2 DEF Touches
  <2>4. QED
    BY <1>3, <1>7, <2>2, <2>3 DEF IInv, HeldDataIntact
<1>13. QED
  BY <1>4, <1>5, <1>6, <1>8, <1>11, <1>12 DEF IInv

(* writeBlock above it fills an entry nobody holds, or one of its block.   *)
LEMMA WriteFillStep ==
  ASSUME IInv, NEW r \in Reqs, req[r].pc = "write", req[r].at \in Caches,
         WriteFill(r, req[r].at), task' = task, todo' = todo
  PROVE  IInv'
<1> DEFINE c == req[r].at  b == req[r].blk
<1>1. /\ req \in [Reqs -> Request] /\ entry \in [Slots -> Entry]
      /\ mem \in [Slots -> Blocks \cup {None}] /\ NeverExits
      /\ req[r] \in Request /\ b \in Blocks /\ RequestSound(r)
      /\ nextLevel[c] \in Caches \cup {Net}
  BY Topology DEF IInv, TypeOK, RequestsSound, RequestSound
<1>2. Content(r) = b
  <2>1. CASE req[r].data = "slot"
    <3>1. req[r].origin \in Caches /\ req[r].slot \in Slots
      BY <1>1, <2>1 DEF RequestSound, Request
    <3>2. r \in Holders(req[r].slot)
      BY <3>1, Topology DEF Holders
    <3>3. QED
      BY <2>1, <3>1, <3>2 DEF Content, IInv, HeldDataIntact
  <2>2. CASE req[r].data # "slot"
    BY <2>2 DEF Content
  <2>3. QED
    BY <2>1, <2>2
<1>3. /\ req' = [req EXCEPT ![r] = [req[r] EXCEPT !.at = nextLevel[c]]]
      /\ req'[r] = [req[r] EXCEPT !.at = nextLevel[c]]
      /\ halted' = halted
  BY <1>1 DEF WriteFill
<1>4. req' \in [Reqs -> Request]
  <2>1. [req[r] EXCEPT !.at = nextLevel[c]] \in Request
    BY <1>1 DEF Request
  <2>2. QED
    BY <1>1, <1>3, <2>1
<1>5. /\ req'[r].slot = req[r].slot /\ req'[r].blk = b /\ req'[r].data = req[r].data
      /\ req'[r].origin = req[r].origin /\ req'[r].pc = req[r].pc
      /\ req'[r].owner = req[r].owner /\ req'[r].ready = req[r].ready
  BY <1>1, <1>3 DEF Request
<1>6. RequestSound(r)' /\ Touches(r) /\ NeverExits'
  BY <1>1, <1>3, <1>5 DEF RequestSound, Touches, NeverExits
<1>7. CASE UNCHANGED <<entry, mem>>
  <2>1. TypeOK'
    BY <1>3, <1>4, <1>7 DEF IInv, TypeOK
  <2>2. RequestsSound' /\ Quiet
    BY <1>5, <1>6, <1>7, TouchedSound, TouchedQuiet DEF IInv
  <2>3. QED
    BY <1>6, <2>1, <2>2, QuietStep
<1>8. ASSUME NEW s \in OldestBlock(c, b), NEW update \in {0, 1},
             BlockSet(s, b, "AVAIL", update),
             mem' = IF FoundStatus(s, b) = "AVAIL" THEN mem
                    ELSE [mem EXCEPT ![s] = Content(r)]
      PROVE  IInv'
  <2>1. /\ s \in Slots /\ s[1] = c /\ s[2] = BinOf[c][b]
        /\ \/ entry[s].blk = b /\ entry[s].status # "EMPTY" /\ FoundStatus(s, b) = entry[s].status
           \/ FoundStatus(s, b) \in {"EMPTY", "EVICT"} /\ Fresh(s, b)
    BY <1>1, OldestBlockFinds
  <2>2. /\ entry' = [entry EXCEPT ![s] = [blk |-> b, status |-> "AVAIL",
                                          activeCnt |-> entry[s].activeCnt + update]]
        /\ entry'[s].blk = b /\ entry'[s].status = "AVAIL"
        /\ entry'[s].activeCnt = entry[s].activeCnt + update
        /\ entry[s].activeCnt \in Nat
    BY <1>1, <1>8, <2>1 DEF BlockSet, Entry
  <2>3. mem'[s] = b
    <3>1. CASE FoundStatus(s, b) = "AVAIL"
      BY <1>8, <2>1, <3>1 DEF IInv, EntriesSound
    <3>2. CASE FoundStatus(s, b) # "AVAIL"
      BY <1>1, <1>2, <1>8, <2>1, <3>2
    <3>3. QED
      BY <3>1, <3>2
  <2>4. \A u \in Slots : u # s => entry'[u] = entry[u] /\ mem'[u] = mem[u]
    BY <1>1, <1>8, <2>2
  <2>5. TypeOK'
    <3>1. [blk |-> b, status |-> "AVAIL", activeCnt |-> entry[s].activeCnt + update] \in Entry
      BY <1>1, <2>2 DEF Entry, Status
    <3>2. entry' \in [Slots -> Entry]
      BY <1>1, <2>2, <3>1
    <3>3. mem' \in [Slots -> Blocks \cup {None}]
      BY <1>1, <1>2, <1>8
    <3>4. QED
      BY <1>3, <1>4, <3>2, <3>3 DEF IInv, TypeOK
  <2>6. entry'[s].activeCnt >= entry[s].activeCnt
    BY <2>2
  <2>7. QED
    BY <1>1, <1>5, <1>6, <2>1, <2>2, <2>3, <2>4, <2>5, <2>6, TakeStep
<1>9. QED
  BY <1>7, <1>8 DEF WriteFill

(* The three outcomes of writeBlock together.                              *)
LEMMA WriteBlockStep ==
  ASSUME IInv, NEW r \in Reqs, WriteBlock(r)
  PROVE  IInv'
<1>1. /\ req[r].pc = "write" /\ req[r].at \in Caches /\ task' = task /\ todo' = todo
      /\ WriteOrigin(r, req[r].at) \/ WriteFill(r, req[r].at) \/ WriteNull(r, req[r].at)
  BY DEF WriteBlock
<1>2. CASE WriteNull(r, req[r].at)
  <2>1. UNCHANGED <<entry, mem, req>> /\ halted' = [halted EXCEPT ![r[1]] = "abort"]
    BY <1>2 DEF WriteNull, Halt
  <2>2. TypeOK' /\ NeverExits'
    BY <1>1, <2>1 DEF IInv, TypeOK, NeverExits
  <2>3. RequestsSound' /\ Quiet
    BY <1>1, <2>1 DEF IInv, RequestsSound, RequestSound, Quiet, Holders
  <2>4. QED
    BY <2>2, <2>3, QuietStep
<1>3. QED
  BY <1>1, <1>2, WriteOriginStep, WriteFillStep

(* The end of a poll: the data pointer leads into the entry waited for.    *)
LEMMA PollAvailStep ==
  ASSUME IInv, NEW r \in Reqs, PollAvail(r)
  PROVE  IInv'
<1> DEFINE s == req[r].slot
<1>1. /\ req \in [Reqs -> Request] /\ req[r] \in Request /\ NeverExits
      /\ s \in Slots /\ s[1] \in Caches /\ req[r].blk \in Blocks /\ req[r].owner \in Readers
      /\ s[2] = BinOf[s[1]][req[r].blk] /\ req[r].origin = Base /\ req[r].pc = "poll"
      /\ entry[s].status = "AVAIL" /\ task[r] = "none"
  <2>1. req[r] \in Request /\ RequestSound(r) /\ req[r].pc = "poll" /\ entry[s].status = "AVAIL"
    BY DEF PollAvail, IInv, TypeOK, RequestsSound
  <2>2. \A u \in Slots : u[1] \in Caches
    BY DEF Slots
  <2>3. QED
    BY <2>1, <2>2, Topology DEF RequestSound, Request, IInv, TypeOK
<1>2. r \in Holders(s)
  BY <1>1, Topology DEF Holders
<1>3. /\ req' = [req EXCEPT ![r] = [req[r] EXCEPT !.pc = "got", !.origin = s[1],
                                               !.data = "slot", !.ready = TRUE]]
      /\ req'[r] = [req[r] EXCEPT !.pc = "got", !.origin = s[1], !.data = "slot", !.ready = TRUE]
      /\ UNCHANGED <<entry, mem, task, todo, halted>>
  BY <1>1 DEF PollAvail
<1>4. TypeOK' /\ Touches(r) /\ NeverExits'
  <2>1. [req[r] EXCEPT !.pc = "got", !.origin = s[1], !.data = "slot", !.ready = TRUE] \in Request
    BY <1>1 DEF Request, PCs
  <2>2. req' \in [Reqs -> Request]
    BY <1>1, <1>3, <2>1
  <2>3. QED
    BY <1>1, <1>3, <2>2 DEF IInv, TypeOK, Touches, NeverExits
<1>5. /\ req'[r].slot = s /\ req'[r].blk = req[r].blk /\ req'[r].pc = "got"
      /\ req'[r].origin = s[1] /\ req'[r].data = "slot" /\ req'[r].ready
      /\ req'[r].owner = req[r].owner
  BY <1>1, <1>3 DEF Request
<1>6. RequestsSound'
  <2>1. RequestSound(r)'
    BY <1>1, <1>3, <1>5, Topology, NoneIsNoSlot DEF RequestSound
  <2>2. QED
    BY <1>4, <2>1, TouchedSound DEF IInv
<1>7. EntriesSound' /\ EmptyLast' /\ OneEntryPerBlock'
  BY <1>3, EntriesKept
<1>8. \A u \in Slots : Holders(u)' \subseteq Holders(u)
  BY <1>2, <1>4, <1>5 DEF Holders, Touches
<1>9. CountCoversHolders'
  <2>1. ASSUME NEW u \in Slots
        PROVE  entry'[u].activeCnt >= Cardinality(Holders(u)')
    <3>1. entry'[u].activeCnt >= entry[u].activeCnt
      BY <1>3 DEF IInv, TypeOK, Entry
    <3>2. QED
      BY <1>4, <1>8, <3>1, CoverKept DEF IInv
  <2>2. QED
    BY <2>1 DEF CountCoversHolders
<1>10. HeldDataIntact'
  <2>1. SUFFICES ASSUME NEW u \in Slots, NEW q \in Holders(u)'
                 PROVE  /\ entry'[u].blk = req'[q].blk /\ entry'[u].status # "EMPTY"
                        /\ req'[q].data = "slot" =>
                              entry'[u].status = "AVAIL" /\ mem'[u] = req'[q].blk
    BY DEF HeldDataIntact
  <2>2. q \in Holders(u) /\ q \in Reqs
    BY <1>8, <2>1 DEF Holders
  <2>3. CASE q = r
    <3>1. u = s
      BY <1>5, <2>1, <2>3 DEF Holders
    <3>2. entry[s].blk = req[r].blk
      BY <1>1, <1>2 DEF IInv, HeldDataIntact
    <3>3. QED
      BY <1>1, <1>3, <1>5, <2>3, <3>1, <3>2 DEF IInv, EntriesSound
  <2>4. CASE q # r
    BY <1>3, <1>4, <2>2, <2>4 DEF Touches, IInv, HeldDataIntact
  <2>5. QED
    BY <2>3, <2>4
<1>11. QED
  BY <1>4, <1>6, <1>7, <1>9, <1>10 DEF IInv

(* A new call, and a new request, hold no entry.                           *)
LEMMA CallStep ==
  ASSUME IInv,
         \/ \E t \in Readers, B \in SUBSET Blocks : StartRead(t, B)
         \/ \E t \in Readers, b \in Blocks, r \in Reqs : RequestBlock(t, b, r)
  PROVE  IInv'
<1>1. CASE \E t \in Readers, B \in SUBSET Blocks : StartRead(t, B)
  <2>1. UNCHANGED <<entry, mem, req, task, halted>> /\ todo' \in [Readers -> SUBSET Blocks]
    BY <1>1 DEF StartRead, IInv, TypeOK
  <2>2. TypeOK' /\ NeverExits' /\ RequestsSound' /\ Quiet
    BY <2>1 DEF IInv, TypeOK, NeverExits, RequestsSound, RequestSound, Quiet, Holders
  <2>3. QED
    BY <2>2, QuietStep
<1>2. ASSUME NEW t \in Readers, NEW b \in Blocks, NEW r \in Reqs, RequestBlock(t, b, r)
      PROVE  IInv'
  <2>1. /\ req \in [Reqs -> Request] /\ top[t] \in Caches
        /\ todo' \in [Readers -> SUBSET Blocks] /\ NeverExits
        /\ req[r] \in Request /\ req[r].pc = "unused" /\ RequestSound(r)
    BY <1>2, Topology DEF IInv, TypeOK, RequestBlock, Unused, RequestsSound
  <2> DEFINE new == [pc |-> "read", owner |-> t, blk |-> b, at |-> top[t],
                     origin |-> Base, slot |-> None, reserved |-> {},
                     data |-> "none", ready |-> FALSE]
  <2>2. req' = [req EXCEPT ![r] = new] /\ req'[r] = new
    BY <1>2, <2>1 DEF RequestBlock
  <2>3. new \in Request
    BY <2>1 DEF Request, PCs
  <2>4. req' \in [Reqs -> Request]
    BY <2>1, <2>2, <2>3
  <2>5. TypeOK' /\ Touches(r) /\ NeverExits'
    BY <1>2, <2>1, <2>2, <2>4 DEF RequestBlock, IInv, TypeOK, Touches, NeverExits
  <2>6. RequestSound(r)'
    BY <1>2, <2>1, <2>2, Topology DEF RequestSound, RequestBlock
  <2>7. RequestsSound'
    BY <2>5, <2>6, TouchedSound DEF IInv
  <2>8. Quiet
    BY <1>2, <2>2, <2>5, NoneIsNoSlot DEF Quiet, Holders, Touches, RequestBlock
  <2>9. QED
    BY <2>5, <2>7, <2>8, QuietStep
<1>3. QED
  BY <1>1, <1>2

(* The invariant is inductive.                                             *)
LEMMA IInvStep == IInv /\ [Next]_vars => IInv'
<1> SUFFICES ASSUME IInv, [Next]_vars
             PROVE  IInv'
  OBVIOUS
<1>1. CASE UNCHANGED vars
  <2>1. TypeOK' /\ NeverExits' /\ RequestsSound' /\ Quiet
    BY <1>1 DEF vars, IInv, TypeOK, NeverExits, RequestsSound, RequestSound, Quiet, Holders
  <2>2. QED
    BY <2>1, QuietStep
<1>2. ASSUME NEW r \in Reqs, QuietAction(r)
      PROVE  IInv'
  <2>1. TypeOK'
    BY <1>2, QuietActionType DEF IInv
  <2>2. RequestsSound' /\ NeverExits' /\ Quiet
    BY <1>2, QuietActionSound DEF IInv
  <2>3. QED
    BY <2>1, <2>2, QuietStep
<1>3. ASSUME NEW r \in Reqs, ReaderStep(r) \/ PollTimeout(r) \/ NetStep(r) \/ WriterStep(r)
      PROVE  IInv'
  BY <1>2, <1>3, ReadBlockStep, PollAvailStep, WriteBlockStep
     DEF ReaderStep, WriterStep, QuietAction
<1>4. CASE \/ \E t \in Readers, B \in SUBSET Blocks \ {{}} : StartRead(t, B)
           \/ \E t \in Readers, b \in Blocks, r \in Reqs : RequestBlock(t, b, r)
  BY <1>4, CallStep
<1>5. QED
  BY <1>1, <1>3, <1>4 DEF Next

(* The inductive invariant holds in every state: reference counts, pointers*)
(* into the caches and the contents of the entries agree, whatever the     *)
(* readers, the transfer pools and the write pools of all processes do.    *)
THEOREM CacheInvariant == Spec => []IInv
<1>1. IInv /\ [Next]_vars => IInv'
  BY IInvStep
<1>2. QED
  BY <1>1, InitIInv, PTL DEF Spec

(* Every variable keeps its type; in particular no reference count goes    *)
(* below zero (decBlkCnt in NewBoundedCache.cpp 278).                      *)
THEOREM TypeCorrect == Spec => []TypeOK
<1>1. IInv => TypeOK
  BY DEF IInv
<1>2. QED
  BY <1>1, CacheInvariant, PTL

(* A cache never holds a block twice (oldestBlock, 190-250).               *)
THEOREM NoDuplicates == Spec => []OneEntryPerBlock
<1>1. IInv => OneEntryPerBlock
  BY DEF IInv
<1>2. QED
  BY <1>1, CacheInvariant, PTL

(* The reference count of an entry covers the requests that use it         *)
(* (blockSet and incBlkCnt in readBlock, decBlkCnt in writeBlock).         *)
THEOREM CountsCover == Spec => []CountCoversHolders
<1>1. IInv => CountCoversHolders
  BY DEF IInv
<1>2. QED
  BY <1>1, CacheInvariant, PTL

(* A pointer handed out by readBlock leads to the data of its block until  *)
(* writeBlock releases it, although it is read without a lock              *)
(* (NewMemoryCache.cpp 176-196, InputFile.cpp 319-343).                    *)
THEOREM DataIntact == Spec => []HeldDataIntact
<1>1. IInv => HeldDataIntact
  BY DEF IInv
<1>2. QED
  BY <1>1, CacheInvariant, PTL

(* writeBlock never runs into its exit(0) (NewBoundedCache.cpp 281, 291).  *)
THEOREM ReleaseSucceeds == Spec => []NeverExits
<1>1. IInv => NeverExits
  BY DEF IInv
<1>2. QED
  BY <1>1, CacheInvariant, PTL

-------------------------------------------------------------------------------
(* What a read takes of the blocks that it gets (ReadPath), for files,     *)
(* blocks and counts of any size that fits into the integers of the code.  *)
(*                                                                         *)
(* Every block between the first and the last gives the bytes that it has  *)
(* in common with the read, and these parts lie next to each other.  First *)
(* the facts about products and quotients that this needs.                 *)

(* A number is its quotient and its remainder.                             *)
LEMMA Division == \A a \in Int, b \in Int : b > 0 => a = (a \div b) * b + (a % b)
  BY Z3T(30)

(* The same, with what is known of both.                                   *)
LEMMA DivMod ==
  ASSUME NEW a \in Int, NEW b \in Nat \ {0}
  PROVE  /\ a \div b \in Int /\ a % b \in 0 .. b - 1
         /\ a = (a \div b) * b + (a % b)
         /\ a >= 0 => a \div b >= 0
<1>1. a \div b \in Int BY Z3
<1>2. a % b \in 0 .. b - 1 BY Z3
<1>3. a = (a \div b) * b + (a % b)
  <2>1. b \in Int /\ b > 0 BY SMT
  <2> QED BY <2>1, Division
<1>4. a >= 0 => a \div b >= 0 BY Z3
<1> QED BY <1>1, <1>2, <1>3, <1>4

(* And for what is not negative.                                           *)
LEMMA Natural ==
  ASSUME NEW a \in Nat, NEW b \in Nat \ {0}
  PROVE  /\ a \div b \in Int /\ a \div b >= 0 /\ a % b \in 0 .. b - 1
         /\ a = (a \div b) * b + (a % b)
<1>1. a \in Int /\ a >= 0 OBVIOUS
<1> QED BY <1>1, DivMod, Zenon

(* A product grows with its factor.                                        *)
LEMMA Monotone ==
  ASSUME NEW a \in Int, NEW c \in Int, NEW b \in Nat, a <= c
  PROVE  a * b <= c * b /\ a * b \in Int /\ c * b \in Int
  BY Z3

(* The multiples before and after one.                                     *)
LEMMA NextMultiple ==
  ASSUME NEW a \in Int, NEW b \in Int
  PROVE  (a + 1) * b = a * b + b /\ (a - 1) * b = a * b - b /\ a * b \in Int
  BY Z3

(* What lies between two multiples that follow each other.                 *)
LEMMA Between ==
  ASSUME NEW a \in Int, NEW c \in Int, NEW b \in Nat, a * b < c * b
  PROVE  a < c
<1>1. c <= a => c * b <= a * b BY Monotone
<1>2. a * b \in Int /\ c * b \in Int BY NextMultiple
<1> QED BY <1>1, <1>2

(* How to find a quotient and a remainder.                                 *)
LEMMA QuotientIs ==
  ASSUME NEW a \in Int, NEW b \in Nat \ {0}, NEW q \in Int, q * b <= a, a < q * b + b
  PROVE  a \div b = q /\ a % b = a - q * b
<1> DEFINE d == a \div b
           m == a % b
<1>1. d \in Int /\ a = d * b + m /\ m \in 0 .. b - 1 BY DivMod
<1>2. /\ (q + 1) * b = q * b + b /\ (d + 1) * b = d * b + b
      /\ q * b \in Int /\ d * b \in Int
  BY <1>1, NextMultiple
<1> HIDE DEF d, m
<1>3. d * b < (q + 1) * b /\ q * b < (d + 1) * b BY <1>1, <1>2
<1>4. d < q + 1 /\ q < d + 1 BY <1>1, <1>3, Between
<1>5. d = q BY <1>1, <1>4
<1>6. m = a - q * b BY <1>1, <1>2, <1>5
<1> QED BY <1>5, <1>6 DEF d, m

(* Nothing wraps around below the modulus.                                 *)
LEMMA SmallModulus ==
  ASSUME NEW a \in Int, NEW m \in Nat \ {0}, 0 <= a, a < m
  PROVE  a % m = a
<1>1. 0 * m = 0 BY Z3
<1> QED BY <1>1, QuotientIs

(* A product is no less than its factor.                                   *)
LEMMA AtLeast ==
  ASSUME NEW a \in Int, NEW b \in Nat \ {0}, a >= 0
  PROVE  a <= a * b /\ a * b \in Int
  BY Z3

-------------------------------------------------------------------------------
(* A file that is open, and what its block size is then.                   *)
Sized == source.size \in 1 .. MaxSize /\ source.configured \in BlkSizes

(* What it says of the sizes: nothing is zero, and a file fits.            *)
LEMMA Sizes ==
  ASSUME Sized
  PROVE  /\ source.size \in Nat /\ source.size < Word /\ source.size < Long
         /\ source.configured \in Nat \ {0} /\ blkSizeOf \in Nat \ {0}
         /\ blkSizeOf <= source.size
         /\ blkSizeOf = source.size \/ blkSizeOf = source.configured
         /\ Word \in Nat \ {0} /\ Long \in Nat \ {0} /\ Word <= Long
<1>1. /\ Word \in Nat \ {0} /\ Long \in Nat \ {0} /\ Word <= Long
      /\ MaxSize \in 1 .. Word - 1 /\ BlkSizes \subseteq Nat \ {0}
  BY ReadConstants
<1>2. source.size \in 1 .. MaxSize /\ source.configured \in Nat \ {0}
  BY <1>1 DEF Sized
<1>3. blkSizeOf = IF source.size < source.configured THEN source.size ELSE source.configured
  BY DEF blkSizeOf, BlkSize
<1> QED BY <1>1, <1>2, <1>3

(* So many blocks cover a number of bytes, and no fewer do.                *)
LEMMA Covering ==
  ASSUME NEW a \in Nat, NEW b \in Nat \ {0},
         NEW k, k = a \div b + (IF a % b # 0 THEN 1 ELSE 0)
  PROVE  k \in Nat /\ k * b \in Int /\ k * b - b < a /\ a <= k * b
<1> DEFINE d == a \div b
           m == a % b
<1>1. d \in Int /\ a = d * b + m /\ m \in 0 .. b - 1 /\ d >= 0
  BY Natural, Zenon
<1>2. (d + 1) * b = d * b + b /\ d * b \in Int BY <1>1, NextMultiple
<1>3. k = IF m # 0 THEN d + 1 ELSE d BY <1>1
<1> HIDE DEF d, m
<1>4. CASE m # 0 BY <1>1, <1>2, <1>3, <1>4
<1>5. CASE m = 0 BY <1>1, <1>2, <1>3, <1>5
<1> QED BY <1>4, <1>5

(* The blocks of a file cover it, and are no more than its bytes.          *)
LEMMA BlocksCover ==
  ASSUME Sized
  PROVE  LET all == NumBlks(source.size, blkSizeOf)
         IN  /\ all \in Nat /\ all * blkSizeOf \in Int /\ all <= source.size
             /\ all * blkSizeOf - blkSizeOf < source.size /\ source.size <= all * blkSizeOf
<1> DEFINE B == blkSizeOf
           all == NumBlks(source.size, B)
<1>1. B \in Nat \ {0} /\ source.size \in Nat BY Sizes
<1> HIDE DEF B
<1>2. /\ all \in Nat /\ all * B \in Int /\ all * B - B < source.size
      /\ source.size <= all * B
  BY <1>1, Covering DEF NumBlks
<1>3. all <= source.size
  <2> HIDE DEF all
  <2>1. CASE all = 0 BY <1>1, <2>1
  <2>2. CASE all # 0
    <3>1. (all - 1) * B = all * B - B BY <1>1, <1>2, NextMultiple
    <3>2. all - 1 <= (all - 1) * B BY <1>1, <1>2, <2>2, AtLeast
    <3> QED BY <1>1, <1>2, <3>1, <3>2
  <2> QED BY <2>1, <2>2
<1> QED BY <1>2, <1>3 DEF B

(* The first block of a read, and the one after its last block.            *)
LEMMA FirstBlock ==
  ASSUME Sized, NEW from \in Nat, from < source.size
  PROVE  LET s == StartBlock(from)
             B == blkSizeOf
         IN  /\ s \in Nat /\ s * B \in Int /\ s * B <= from /\ from < s * B + B
             /\ from % B = from - s * B
<1> DEFINE B == blkSizeOf
           d == from \div B
<1>1. B \in Nat \ {0} BY Sizes
<1> HIDE DEF B
<1>2. d \in Int /\ from = d * B + (from % B) /\ from % B \in 0 .. B - 1 /\ d >= 0
  BY <1>1, Natural, Zenon
<1>3. d * B \in Int /\ d <= d * B
  <2> HIDE DEF d
  <2> QED BY <1>1, <1>2, AtLeast
<1>4. d <= from BY <1>1, <1>2, <1>3
<1>5. StartBlock(from) = d
  <2>1. StartBlock(from) = d % Word BY DEF StartBlock, B
  <2> HIDE DEF d
  <2> QED BY <1>2, <1>4, <2>1, Sizes, SmallModulus
<1> QED BY <1>1, <1>2, <1>3, <1>5 DEF B

(* The block after the last one.                                           *)
LEMMA LastBlock ==
  ASSUME Sized, NEW from \in Nat, NEW n \in Nat, from + n <= source.size
  PROVE  LET e == EndBlock(from, n)
             B == blkSizeOf
         IN  /\ e \in Nat /\ e * B \in Int /\ e * B - B < from + n /\ from + n <= e * B
             /\ e <= NumBlks(source.size, B)
<1> DEFINE B == blkSizeOf
           end == from + n
           k == end \div B + (IF end % B # 0 THEN 1 ELSE 0)
           all == NumBlks(source.size, B)
<1>1. B \in Nat \ {0} /\ end \in Nat BY Sizes
<1>2. (from + n) % Long = end BY Sizes, SmallModulus
<1>3. k \in Nat /\ k * B \in Int /\ k * B - B < end /\ end <= k * B
  <2> HIDE DEF B, end
  <2> QED BY <1>1, Covering
<1>4. all \in Nat /\ all * B \in Int /\ source.size <= all * B /\ all <= source.size
  BY BlocksCover
<1>5. EndBlock(from, n) = IF k % Word > all THEN all ELSE k % Word
  BY <1>2 DEF EndBlock
<1> HIDE DEF B, k, all
<1>6. k <= all
  <2>1. (k - 1) * B = k * B - B BY <1>1, <1>3, NextMultiple
  <2>2. (k - 1) * B < all * B BY <1>1, <1>3, <1>4, <2>1, Sizes
  <2>3. k - 1 < all BY <1>1, <1>3, <1>4, <2>2, Between
  <2> QED BY <1>3, <1>4, <2>3
<1>7. k % Word = k BY <1>3, <1>4, <1>6, Sizes, SmallModulus
<1>8. EndBlock(from, n) = k BY <1>3, <1>4, <1>5, <1>6, <1>7
<1> QED BY <1>3, <1>6, <1>8 DEF B, all

-------------------------------------------------------------------------------
(* What there is of a block is the part of the file that it stands for;    *)
(* also when the file is smaller than a block.                             *)
LEMMA ByteOfBlock ==
  ASSUME Sized, NEW blk \in Nat, NEW i \in Nat, i < blkSizeOf,
         blk * blkSizeOf + i < source.size
  PROVE  ByteAt(BlockData(blk, source.configured, source.size), i) = blk * blkSizeOf + i
<1> DEFINE B == blkSizeOf
           C == source.configured
           Z == source.size
           data == BlockData(blk, C, Z)
<1>1. B \in Nat \ {0} /\ C \in Nat \ {0} /\ Z \in Nat /\ B <= Z /\ (B = Z \/ B = C)
      /\ B = IF Z < C THEN Z ELSE C
  BY Sizes DEF blkSizeOf, BlkSize
<1>2. i < B /\ blk * B + i < Z OBVIOUS
<1> HIDE DEF B
<1>3. blk * C \in Int /\ (blk + 1) * C = blk * C + C /\ blk * B \in Int
  <2> HIDE DEF C
  <2> QED BY <1>1, NextMultiple
<1>4. CASE B = C
  <2>1. i < C /\ blk * C + i < Z BY <1>2, <1>4
  <2>2. i \in DOMAIN data /\ data[i] = blk * C + i
    <3> HIDE DEF C, Z
    <3> QED BY <1>1, <1>3, <2>1 DEF BlockData
  <2> QED BY <1>4, <2>2 DEF ByteAt, B
<1>5. CASE B # C
  <2>1. B = Z /\ Z < C BY <1>1, <1>5
  <2>2. blk = 0
    <3>1. CASE blk >= 1
      <4>1. 1 * B <= blk * B /\ 1 * B = B BY <1>1, <3>1, Monotone
      <4> QED BY <1>1, <1>2, <1>3, <2>1, <4>1
    <3> QED BY <3>1
  <2>3. 0 * C = 0 /\ 0 * B = 0 BY <1>1
  <2>4. i \in DOMAIN data /\ data[i] = i
    <3> HIDE DEF C, Z
    <3> QED BY <1>1, <1>2, <1>3, <2>1, <2>2, <2>3 DEF BlockData
  <2> QED BY <2>2, <2>3, <2>4 DEF ByteAt, B
<1> QED BY <1>4, <1>5

(* copyBlock takes of a block what the read has in common with it, and     *)
(* puts it where it belongs.                                               *)
Begin(blk, from, b) == IF from > blk * b THEN from ELSE blk * b
Finish(blk, to, b) == IF to < blk * b + b THEN to ELSE blk * b + b

(* CopyBlock gives its place and its length, although it is told in cases. *)
LEMMA PartOfBlock ==
  ASSUME Sized, NEW from \in Nat, NEW n \in Nat \ {0}, from + n <= source.size,
         NEW s, s = StartBlock(from), NEW e, e = EndBlock(from, n),
         NEW blk \in Int, s <= blk, blk < e,
         NEW B, B = blkSizeOf
  PROVE  LET c == CopyBlock(blk, s, e, from, n, B)
         IN  /\ blk * B \in Int /\ blk \in Nat
             /\ Begin(blk, from, B) < Finish(blk, from + n, B)
             /\ c.localStart = Begin(blk, from, B) - from
             /\ c.startFP = Begin(blk, from, B) - blk * B
             /\ c.localSize = Finish(blk, from + n, B) - Begin(blk, from, B)
<1> DEFINE skip == from % B
           temp == (from + n) % B
           c == CopyBlock(blk, s, e, from, n, B)
<1>1. B \in Nat \ {0} /\ Word \in Nat \ {0} /\ source.size < Word /\ source.size \in Nat
  BY Sizes
<1>2. /\ s \in Nat /\ s * B \in Int /\ s * B <= from /\ from < s * B + B
      /\ skip = from - s * B
  <2>1. from < source.size BY Sizes
  <2> QED BY <2>1, FirstBlock
<1>3. e \in Nat /\ e * B \in Int /\ e * B - B < from + n /\ from + n <= e * B
  BY LastBlock
<1>4. blk \in Nat /\ blk * B \in Int /\ s * B <= blk * B BY <1>1, <1>2, Monotone
<1>5. blk # s => s * B + B <= blk * B
  <2>1. blk # s => (s + 1) * B <= blk * B BY <1>1, <1>2, <1>4, Monotone
  <2> QED BY <1>1, <1>2, <2>1, NextMultiple
<1>6. blk * B + B <= e * B
  <2>1. (blk + 1) * B <= e * B BY <1>1, <1>3, <1>4, Monotone
  <2> QED BY <1>1, <1>4, <2>1, NextMultiple
<1>7. blk + 1 # e => blk * B + B <= e * B - B
  <2>1. CASE blk + 1 # e
    <3>1. blk + 1 <= e - 1 /\ blk + 1 \in Int /\ e - 1 \in Int BY <1>3, <1>4, <2>1
    <3>2. (blk + 1) * B <= (e - 1) * B BY <1>1, <3>1, Monotone
    <3>3. (blk + 1) * B = blk * B + B /\ (e - 1) * B = e * B - B
      BY <1>1, <1>3, <1>4, NextMultiple
    <3> QED BY <3>2, <3>3
  <2> QED BY <2>1
<1>8. blk + 1 = e => blk * B + B = e * B
  <2>1. blk + 1 = e => (blk + 1) * B = e * B OBVIOUS
  <2> QED BY <1>1, <1>4, <2>1, NextMultiple
<1>9. (blk - s - 1) * B = blk * B - s * B - B
  <2>1. (blk - s) * B = blk * B - s * B BY <1>1, <1>2, <1>4, Z3
  <2>2. ((blk - s) - 1) * B = (blk - s) * B - B BY <1>1, <1>2, <1>4, NextMultiple
  <2>3. (blk - s) - 1 = blk - s - 1 OBVIOUS
  <2> QED BY <2>1, <2>2, <2>3
<1>10. e * B = from + n => temp = 0
  <2>1. CASE e * B = from + n
    <3>1. (from + n) % B = (from + n) - e * B BY <1>1, <1>3, <2>1, QuotientIs
    <3> QED BY <1>3, <2>1, <3>1
  <2> QED BY <2>1
<1>11. e * B # from + n => temp = from + n - (e * B - B) /\ temp # 0
  <2>1. CASE e * B # from + n
    <3>1. (e - 1) * B = e * B - B BY <1>1, <1>3, NextMultiple
    <3>2. /\ e - 1 \in Int /\ from + n \in Int /\ (e - 1) * B <= from + n
          /\ from + n < (e - 1) * B + B
      BY <1>1, <1>3, <2>1, <3>1
    <3>3. temp = (from + n) - (e - 1) * B BY <1>1, <3>2, QuotientIs
    <3> HIDE DEF temp
    <3>4. (from + n) - (e - 1) * B = from + n - (e * B - B) /\ from + n # e * B - B
      BY <1>1, <1>3, <3>1
    <3> QED BY <1>1, <1>3, <3>1, <3>3, <3>4
  <2> QED BY <2>1
<1> DEFINE at == (blk - s - 1) * B + B - skip
           amount == CASE blk = s /\ blk + 1 = e  -> n
                       [] blk = s /\ ~(blk + 1 = e) -> B - skip
                       [] ~(blk = s) /\ blk + 1 = e /\ temp # 0 -> temp
                       [] OTHER          -> B
<1>12. c = [localStart |-> IF blk = s THEN 0 ELSE at % Word,
            startFP |-> IF blk = s THEN skip ELSE 0,
            localSize |-> amount % Word]
  BY DEF CopyBlock
<1>13. at = blk * B - from
  <2> HIDE DEF skip
  <2>1. at = blk * B - s * B - B + B - skip BY <1>9
  <2> QED BY <1>1, <1>2, <1>4, <2>1
<1>14. amount = Finish(blk, from + n, B) - Begin(blk, from, B)
  <2> HIDE DEF temp, skip
  <2>1. CASE blk = s /\ blk + 1 = e
    BY <1>1, <1>2, <1>3, <1>4, <1>8, <2>1 DEF Begin, Finish
  <2>2. CASE blk = s /\ blk + 1 # e
    BY <1>1, <1>2, <1>3, <1>4, <1>7, <2>2 DEF Begin, Finish
  <2>3. CASE blk # s /\ blk + 1 = e
    <3>1. CASE e * B = from + n
      BY <1>1, <1>2, <1>3, <1>4, <1>5, <1>8, <1>10, <2>3, <3>1 DEF Begin, Finish
    <3>2. CASE e * B # from + n
      BY <1>1, <1>2, <1>3, <1>4, <1>5, <1>8, <1>11, <2>3, <3>2 DEF Begin, Finish
    <3> QED BY <3>1, <3>2
  <2>4. CASE blk # s /\ blk + 1 # e
    BY <1>1, <1>2, <1>3, <1>4, <1>5, <1>7, <2>4 DEF Begin, Finish
  <2> QED BY <2>1, <2>2, <2>3, <2>4
<1>15. Begin(blk, from, B) < Finish(blk, from + n, B)
  BY <1>1, <1>2, <1>3, <1>4, <1>5, <1>6, <1>7, <1>8 DEF Begin, Finish
<1>16. 0 <= amount /\ amount < Word /\ amount \in Int
  <2> HIDE DEF amount
  <2> QED BY <1>1, <1>2, <1>4, <1>14, <1>15 DEF Begin, Finish
<1>17. blk # s => 0 <= at /\ at < Word /\ at \in Int
  <2> HIDE DEF at
  <2>1. blk # s => blk * B < from + n BY <1>1, <1>2, <1>3, <1>4, <1>7, <1>8
  <2> QED BY <1>1, <1>2, <1>4, <1>5, <1>13, <2>1
<1> HIDE DEF at, amount, skip, temp, c
<1>18. amount % Word = amount /\ (blk # s => at % Word = at)
  BY <1>1, <1>16, <1>17, SmallModulus
<1>19. c.localStart = Begin(blk, from, B) - from /\ c.startFP = Begin(blk, from, B) - blk * B
  BY <1>1, <1>2, <1>4, <1>5, <1>12, <1>13, <1>18 DEF Begin
<1>20. c.localSize = Finish(blk, from + n, B) - Begin(blk, from, B)
  BY <1>12, <1>14, <1>18
<1> QED BY <1>4, <1>15, <1>19, <1>20 DEF c

(* A read of bytes that the file has stores them in order.                 *)
Bytes(from, n) == {<<i, from + i>> : i \in 0 .. n - 1}

(* And the parts of all the blocks are the bytes that were asked for.      *)
THEOREM StoredBytes ==
  ASSUME Sized, NEW from \in Nat, NEW n \in Nat, n > 0 => from + n <= source.size
  PROVE  Stored(from, n) = Bytes(from, n)
<1>1. CASE n = 0 BY <1>1 DEF Stored, Bytes
<1>2. CASE n # 0
  <2> DEFINE B == blkSizeOf
             s == StartBlock(from)
             e == EndBlock(from, n)
             c(blk) == CopyBlock(blk, s, e, from, n, B)
             data(blk) == BlockData(blk, source.configured, source.size)
             Of(blk) == {<<c(blk).localStart + i, ByteAt(data(blk), c(blk).startFP + i)>>
                           : i \in 0 .. c(blk).localSize - 1}
             lo(blk) == Begin(blk, from, B)
             hi(blk) == Finish(blk, from + n, B)
  <2>1. /\ B \in Nat \ {0} /\ source.size \in Nat /\ n \in Nat \ {0}
        /\ from + n <= source.size /\ from < source.size
    BY <1>2, Sizes
  <2>2. s \in Nat /\ s * B \in Int /\ s * B <= from BY <2>1, FirstBlock
  <2>3. e \in Nat /\ e * B \in Int /\ from + n <= e * B BY <2>1, LastBlock
  <2>4. Stored(from, n) = UNION {Of(blk) : blk \in s .. e - 1} BY <1>2 DEF Stored
  <2>5. ASSUME NEW blk \in s .. e - 1
        PROVE  /\ blk \in Nat /\ blk * B \in Int /\ lo(blk) < hi(blk)
               /\ c(blk).localStart = lo(blk) - from /\ c(blk).startFP = lo(blk) - blk * B
               /\ c(blk).localSize = hi(blk) - lo(blk)
    <3>1. blk \in Int /\ s <= blk /\ blk < e BY <2>2, <2>3
    <3> QED BY <2>1, <3>1, PartOfBlock
  <2>6. ASSUME NEW blk \in s .. e - 1, NEW i \in 0 .. hi(blk) - lo(blk) - 1
        PROVE  /\ ByteAt(data(blk), lo(blk) - blk * B + i) = lo(blk) + i
               /\ lo(blk) - from + i \in 0 .. n - 1
    <3> DEFINE j == lo(blk) - blk * B + i
    <3>1. blk \in Nat /\ blk * B \in Int BY <2>5
    <3> HIDE DEF B
    <3>2. j \in Nat /\ j < B /\ blk * B + j = lo(blk) + i /\ lo(blk) + i < from + n
          /\ from <= lo(blk) /\ lo(blk) \in Int
      BY <2>1, <3>1 DEF Begin, Finish
    <3>3. blk * B + j < source.size BY <2>1, <3>1, <3>2
    <3>4. ByteAt(data(blk), j) = blk * B + j
      BY <3>1, <3>2, <3>3, ByteOfBlock DEF B
    <3> QED BY <2>1, <3>2, <3>4
  <2> HIDE DEF B, s, e, c, data
  <2>7. ASSUME NEW x \in Stored(from, n) PROVE x \in Bytes(from, n)
    <3>1. PICK blk \in s .. e - 1 : x \in Of(blk) BY <2>4
    <3>2. PICK i \in 0 .. c(blk).localSize - 1 :
            x = <<c(blk).localStart + i, ByteAt(data(blk), c(blk).startFP + i)>>
      BY <3>1
    <3>3. i \in 0 .. hi(blk) - lo(blk) - 1 BY <2>5, <3>2
    <3>4. x = <<lo(blk) - from + i, lo(blk) + i>> BY <2>5, <2>6, <3>2, <3>3
    <3>5. lo(blk) \in Int BY <2>1, <2>5 DEF Begin
    <3> DEFINE k == lo(blk) - from + i
    <3>6. k \in 0 .. n - 1 BY <2>6, <3>3
    <3>7. lo(blk) + i = from + k BY <3>3, <3>5
    <3> QED BY <3>4, <3>6, <3>7 DEF Bytes
  <2>8. ASSUME NEW x \in Bytes(from, n) PROVE x \in Stored(from, n)
    <3>1. PICK j \in 0 .. n - 1 : x = <<j, from + j>> BY DEF Bytes
    <3> DEFINE a == from + j
               blk == a \div B
    <3>2. a \in Nat /\ a < from + n /\ from <= a BY <2>1
    <3>3. blk \in Int /\ blk * B \in Int /\ blk * B <= a /\ a < blk * B + B
      <4> HIDE DEF a
      <4>1. blk \in Int /\ a % B \in 0 .. B - 1 /\ a = blk * B + (a % B)
        BY <2>1, <3>2, Natural, Zenon
      <4> HIDE DEF blk
      <4>2. blk * B \in Int BY <2>1, <4>1, NextMultiple
      <4> QED BY <2>1, <3>2, <4>1, <4>2
    <3> HIDE DEF a, blk
    <3>4. s < blk + 1
      <4>1. (blk + 1) * B = blk * B + B BY <2>1, <3>3, NextMultiple
      <4>2. s * B < (blk + 1) * B BY <2>1, <2>2, <3>2, <3>3, <4>1
      <4> QED BY <2>1, <2>2, <3>3, <4>2, Between
    <3>5. blk < e
      <4>1. blk * B < e * B BY <2>1, <2>3, <3>2, <3>3
      <4> QED BY <2>1, <2>3, <3>3, <4>1, Between
    <3>6. blk \in s .. e - 1 BY <2>2, <2>3, <3>3, <3>4, <3>5
    <3> DEFINE i == a - lo(blk)
    <3>7. i \in 0 .. hi(blk) - lo(blk) - 1 /\ lo(blk) \in Int /\ hi(blk) \in Int
      BY <2>1, <3>2, <3>3 DEF Begin, Finish
    <3>8. lo(blk) - from + i = j /\ lo(blk) + i = from + j BY <2>1, <3>7 DEF a
    <3>9. i \in 0 .. c(blk).localSize - 1 BY <2>5, <3>6, <3>7
    <3>10. /\ c(blk).localStart + i = j
           /\ ByteAt(data(blk), c(blk).startFP + i) = from + j
      BY <2>5, <2>6, <3>6, <3>7, <3>8
    <3> HIDE DEF i
    <3>11. x \in Of(blk) BY <3>1, <3>9, <3>10
    <3> QED BY <2>4, <3>6, <3>11
  <2> QED BY <2>7, <2>8
<1> QED BY <1>1, <1>2

-------------------------------------------------------------------------------
(* What the prefetchers ask for.                                           *)

(* Sums of multiples.                                                      *)
LEMMA Distribute ==
  ASSUME NEW a \in Int, NEW c \in Int, NEW b \in Int
  PROVE  (a + c) * b = a * b + c * b /\ a * b \in Int /\ c * b \in Int
  BY Z3

(* And the other factor.                                                   *)
LEMMA Wider ==
  ASSUME NEW a \in Nat, NEW b \in Nat, NEW c \in Nat, b <= c
  PROVE  a * b <= a * c /\ a * b \in Nat /\ a * c \in Nat
  BY Z3

(* No product of a block that may be asked for and a block size is too     *)
(* large for a uint64_t.                                                   *)
PrefetchFits ==
  \A num \in Nums, c \in BlkSizes : MaxSize + (1 + MaxDelta + num) * c <= Long

(* The start of a negative delta in front of the file wraps around, to a   *)
(* block that lies behind the end of every file.                           *)
LEMMA WrapsBehind ==
  ASSUME NEW m \in Nat \ {0}, NEW b \in Nat \ {0}, NEW x \in Int, x < 0, 0 - m <= x * b
  PROVE  x % m = m + x /\ ((m + x) * b) % m = m + x * b
<1>1. x * b \in Int /\ x * b <= x
  <2>1. 1 * b <= (0 - x) * b /\ 0 - x <= (0 - x) * b BY Monotone, AtLeast
  <2>2. (0 - x) * b = 0 - x * b /\ x * b \in Int BY Z3
  <2> QED BY <2>1, <2>2
<1>2. (0 - 1) * m = 0 - m BY Z3
<1>3. x % m = m + x
  <2>1. (0 - 1) * m <= x /\ x < (0 - 1) * m + m /\ 0 - 1 \in Int BY <1>1, <1>2
  <2>2. x % m = x - (0 - 1) * m BY <2>1, QuotientIs
  <2> QED BY <1>2, <2>2
<1>4. (m + x) * b = (b - 1) * m + (m + x * b) /\ (b - 1) * m \in Int BY Z3
<1> DEFINE y == (m + x) * b
           z == (b - 1) * m
           w == x * b
<1>5. y = z + (m + w) /\ z \in Int /\ w \in Int /\ w < 0 /\ 0 <= m + w
  BY <1>1, <1>4
<1>6. y \in Int /\ z <= y /\ y < z + m /\ y - z = m + w
  <2> HIDE DEF y, z, w
  <2> QED BY <1>5
<1>7. y % m = y - (b - 1) * m
  <2>1. b - 1 \in Int /\ (b - 1) * m <= y /\ y < (b - 1) * m + m
    <3> HIDE DEF y
    <3> QED BY <1>6 DEF z
  <2> HIDE DEF y
  <2> QED BY <1>6, <2>1, QuotientIs
<1> QED BY <1>3, <1>6, <1>7

(* A DeltaPrefetcher asks for blocks of the file only, also when its delta *)
(* wraps around.                                                           *)
LEMMA DeltaBlocks ==
  ASSUME PrefetchFits, Sized, NEW first \in Nat, NEW last \in Nat,
         NEW delta \in -MaxDelta .. MaxDelta, NEW num \in Nums,
         first <= NumBlks(source.size, blkSizeOf), last <= NumBlks(source.size, blkSizeOf)
  PROVE  GetBlocks(first, last, delta, num, blkSizeOf, source.size)
           \subseteq 0 .. NumBlks(source.size, blkSizeOf) - 1
<1> DEFINE B == blkSizeOf
           C == source.configured
           Z == source.size
           all == NumBlks(Z, B)
           base == IF delta > 0 THEN last ELSE first
           x == base + delta
           start == x % Long
           end == (start + num) % Long
           Has(b) == (b * B) % Long < Z
<1>1. /\ B \in Nat \ {0} /\ C \in Nat \ {0} /\ Z \in Nat \ {0} /\ Long \in Nat \ {0}
      /\ B <= C /\ MaxSize \in Nat /\ Z <= MaxSize /\ MaxDelta \in Nat /\ num \in Nat
      /\ C \in BlkSizes
  <2>1. B = IF Z < C THEN Z ELSE C BY DEF blkSizeOf, BlkSize
  <2>2. C \in BlkSizes /\ Z \in 1 .. MaxSize BY DEF Sized
  <2> QED BY <2>1, <2>2, Sizes, ReadConstants
<1>2. /\ all \in Nat /\ all * B \in Int /\ all * B - B < Z /\ Z <= all * B BY BlocksCover
<1>3. MaxSize + (1 + MaxDelta + num) * C <= Long
  <2> HIDE DEF C
  <2> QED BY <1>1 DEF PrefetchFits
<1> DEFINE span == (1 + MaxDelta + num) * B
<1>4. MaxSize + span <= Long /\ span \in Nat
  <2> HIDE DEF B, C
  <2>1. 1 + MaxDelta + num \in Nat BY <1>1
  <2>2. (1 + MaxDelta + num) * B <= (1 + MaxDelta + num) * C
        /\ (1 + MaxDelta + num) * B \in Nat /\ (1 + MaxDelta + num) * C \in Nat
    BY <1>1, <2>1, Wider
  <2> QED BY <1>1, <1>3, <2>2
<1>5. base \in Nat /\ base <= all /\ x \in Int /\ delta \in Int BY <1>1
<1>6. GetBlocks(first, last, delta, num, B, Z)
        = {blk \in start .. end - 1 : \A b \in start .. blk : Has(b)}
  BY DEF GetBlocks
<1> HIDE DEF B, C, Z, all, base, start, end, Has
<1> SUFFICES ASSUME NEW blk \in start .. end - 1, \A b \in start .. blk : Has(b)
             PROVE  blk \in 0 .. all - 1
  BY <1>6 DEF B, Z, all
<1>7. start \in 0 .. Long - 1
  <2> HIDE DEF x
  <2> QED BY <1>1, <1>5, DivMod DEF start
<1>8. (1 + MaxDelta + num) * B = B + MaxDelta * B + num * B
      /\ MaxDelta * B \in Nat /\ num * B \in Nat
  <2>1. /\ ((1 + MaxDelta) + num) * B = (1 + MaxDelta) * B + num * B
        /\ (1 + MaxDelta) * B = 1 * B + MaxDelta * B /\ 1 * B = B
    BY <1>1, Distribute
  <2>2. MaxDelta * B \in Nat /\ num * B \in Nat BY <1>1, Wider
  <2> QED BY <2>1, <2>2
<1>9. CASE x >= 0
  <2>1. x <= all + MaxDelta BY <1>1, <1>2, <1>5
  <2> DEFINE high == all + MaxDelta + num - 1
  <2>2. high * B < Long /\ high * B \in Int /\ high \in Int
    <3>1. /\ (all + (MaxDelta + num - 1)) * B = all * B + (MaxDelta + num - 1) * B
          /\ ((MaxDelta + num) + (-1)) * B = (MaxDelta + num) * B + (-1) * B
          /\ (MaxDelta + num) * B = MaxDelta * B + num * B
          /\ (-1) * B = -B
      BY <1>1, <1>2, Distribute
    <3>2. all + (MaxDelta + num - 1) = high /\ (MaxDelta + num) + (-1) = MaxDelta + num - 1
          /\ high \in Int
      BY <1>1, <1>2
    <3>3. high * B = all * B + MaxDelta * B + num * B - B BY <1>1, <1>2, <1>8, <3>1, <3>2
    <3> QED BY <1>1, <1>2, <1>4, <1>8, <3>2, <3>3
  <2>3. x < Long /\ x + num < Long
    <3>1. x + num <= high + 1 BY <1>1, <1>2, <1>5, <2>1
    <3>2. CASE high >= 0
      <4>1. high <= high * B BY <1>1, <2>2, <3>2, AtLeast
      <4>2. high + 1 <= Long BY <1>1, <2>2, <4>1
      <4>3. x + num # Long
        <5>1. CASE x + num = Long
          <6>1. high = Long - 1 /\ high * B = Long - 1 BY <1>1, <2>2, <3>1, <4>1, <4>2, <5>1
          <6>2. all >= 1
            <7>1. 0 * B = 0 BY <1>1
            <7> QED BY <1>1, <1>2, <7>1
          <6>3. all * B < MaxSize + B BY <1>1, <1>2
          <6>4. high * B = all * B + MaxDelta * B + num * B - B
            <7>1. /\ (all + (MaxDelta + num - 1)) * B = all * B + (MaxDelta + num - 1) * B
                  /\ ((MaxDelta + num) + (-1)) * B = (MaxDelta + num) * B + (-1) * B
                  /\ (MaxDelta + num) * B = MaxDelta * B + num * B
                  /\ (-1) * B = -B
              BY <1>1, <1>2, Distribute
            <7>2. all + (MaxDelta + num - 1) = high
                  /\ (MaxDelta + num) + (-1) = MaxDelta + num - 1
              BY <1>1, <1>2
            <7> QED BY <1>1, <1>2, <1>8, <7>1, <7>2
          <6> QED BY <1>1, <1>2, <1>4, <1>8, <6>1, <6>3, <6>4
        <5> QED BY <5>1
      <4> QED BY <1>1, <1>5, <2>2, <3>1, <4>2, <4>3
    <3>3. CASE high < 0 BY <1>1, <1>5, <2>2, <3>1, <3>3, <1>4, <1>8
    <3> QED BY <2>2, <3>2, <3>3
  <2>4. start = x /\ end = x + num
    <3> HIDE DEF x
    <3>1. start = x BY <1>1, <1>5, <1>9, <2>3, SmallModulus DEF start
    <3>2. x + num \in Int /\ 0 <= x + num BY <1>1, <1>5, <1>9
    <3> QED BY <1>1, <2>3, <3>1, <3>2, SmallModulus DEF end
  <2>5. blk \in Int /\ 0 <= blk /\ blk <= high BY <1>1, <1>2, <1>5, <1>9, <2>1, <2>2, <2>4
  <2>6. blk * B \in Int /\ 0 <= blk * B /\ blk * B < Long
    <3>1. blk * B <= high * B /\ blk * B \in Int
      <4> HIDE DEF high
      <4> QED BY <1>1, <2>2, <2>5, Monotone
    <3>2. blk <= blk * B BY <1>1, <2>5, AtLeast
    <3> QED BY <1>1, <2>2, <2>5, <3>1, <3>2
  <2>7. Has(blk) BY <1>7, <2>5
  <2>8. blk * B < Z
    <3>1. (blk * B) % Long = blk * B BY <1>1, <2>6, SmallModulus
    <3> QED BY <2>7, <3>1 DEF Has
  <2>9. blk < all
    <3>1. blk * B < all * B BY <1>1, <1>2, <2>6, <2>8
    <3> QED BY <1>1, <1>2, <2>5, <3>1, Between
  <2> QED BY <1>2, <2>5, <2>9
<1>10. CASE x < 0
  <2>1. 0 - MaxDelta <= x BY <1>1, <1>5
  <2>2. 0 - MaxDelta * B <= x * B /\ x * B \in Int
    <3>1. (0 - MaxDelta) * B <= x * B /\ x * B \in Int
      <4> HIDE DEF x
      <4> QED BY <1>1, <1>5, <2>1, Monotone
    <3>2. (0 - MaxDelta) * B = 0 - MaxDelta * B BY <1>1, Z3
    <3> QED BY <3>1, <3>2
  <2>3. 0 - Long <= x * B BY <1>1, <1>4, <1>8, <2>2
  <2>4. start = Long + x /\ (start * B) % Long = Long + x * B
    <3> HIDE DEF x
    <3> QED BY <1>1, <1>5, <1>10, <2>3, WrapsBehind DEF start
  <2>5. start \in start .. blk BY <1>7
  <2>6. Has(start) BY <2>5
  <2>7. Long + x * B < Z BY <2>4, <2>6 DEF Has
  <2>8. FALSE BY <1>1, <1>4, <1>8, <2>2, <2>7
  <2> QED BY <2>8
<1> QED BY <1>5, <1>9, <1>10

-------------------------------------------------------------------------------
(* The inductive invariant: what an open file and its prefetcher are like, *)
(* and that the PerfectPrefetcher never runs past its trace.               *)
AllBlks == 0 .. NumBlks(source.size, blkSizeOf) - 1

OpenSound ==
  /\ Sized
  /\ source.kind \in {"input", "delta", "perfect", "local"}
  /\ source.delta \in -MaxDelta .. MaxDelta
  /\ source.kind = "delta" => source.num \in Nums
  /\ source.trace \in Seq((0 .. NumBlks(source.size, blkSizeOf))
                          \X (0 .. NumBlks(source.size, blkSizeOf)))

InTrace(last) == source.kind = "perfect" => last \in -1 .. Len(source.trace) - 1

ReadInv ==
  /\ source # Closed => OpenSound /\ InTrace(lastIndex)
  /\ source = Closed => lastIndex = -1 /\ ahead = {}
  /\ pos \in Nat
  /\ ReadsExact

(* How much a read returns.                                                *)
LEMMA AmountIs ==
  ASSUME Sized, NEW from \in Nat, NEW count \in Nat, NEW n, n = Amount(from, count)
  PROVE  /\ n \in Nat /\ n <= count
         /\ n > 0 => from + n <= source.size
         /\ from < source.size => from + n <= source.size
         /\ n < count => from + n >= source.size
<1>1. source.size \in Nat BY Sizes
<1> QED BY <1>1 DEF Amount

(* So does every prefetcher, and the trace is not read past its end.       *)
LEMMA PrefetchSound ==
  ASSUME PrefetchFits, OpenSound, NEW from \in Nat, NEW n \in Nat,
         from < source.size => from + n <= source.size,
         NEW last, InTrace(last)
  PROVE  /\ Prefetch(from, n, last).blks \subseteq AllBlks
         /\ InTrace(Prefetch(from, n, last).last)
<1> DEFINE B == blkSizeOf
           all == NumBlks(source.size, B)
           s == StartBlock(from)
           e == EndBlock(from, n)
<1>1. Sized BY DEF OpenSound
<1>2. /\ B \in Nat \ {0} /\ source.size \in Nat /\ Long \in Nat \ {0} BY <1>1, Sizes
<1>3. all \in Nat /\ all * B \in Int /\ source.size <= all * B BY <1>1, BlocksCover
<1>4. CASE source.kind = "delta" /\ from < source.size
  <2>1. Prefetch(from, n, last)
          = [blks |-> GetBlocks(s, e, source.delta, source.num, B, source.size),
             last |-> last]
    BY <1>4 DEF Prefetch
  <2>2. s \in Nat /\ s * B \in Int /\ s * B <= from BY <1>1, <1>4, FirstBlock
  <2>3. s < all
    <3> HIDE DEF s, all, B
    <3>1. s * B < all * B BY <1>2, <1>3, <1>4, <2>2
    <3> QED BY <1>2, <1>3, <2>2, <3>1, Between
  <2>4. e \in Nat /\ e <= all BY <1>1, <1>4, LastBlock
  <2>5. source.delta \in -MaxDelta .. MaxDelta /\ source.num \in Nums
    BY <1>4 DEF OpenSound
  <2>6. s <= all BY <1>3, <2>2, <2>3
  <2>7. GetBlocks(s, e, source.delta, source.num, B, source.size) \subseteq AllBlks
    <3> HIDE DEF s, e
    <3> QED BY <1>1, <2>2, <2>4, <2>5, <2>6, DeltaBlocks DEF AllBlks
  <2> QED BY <1>4, <2>1, <2>7 DEF InTrace
<1>5. CASE source.kind = "perfect" /\ from < source.size /\ ~TraceEnds(last)
  <2>1. Prefetch(from, n, last) = [blks |-> TraceBlocks(last), last |-> last + 1]
    BY <1>5 DEF Prefetch
  <2> DEFINE T == source.trace
  <2>2. T \in Seq((0 .. all) \X (0 .. all)) BY DEF OpenSound
  <2>3. last \in -1 .. Len(T) - 1 /\ last # Len(T) - 1 BY <1>5 DEF InTrace, TraceEnds
  <2>4. last + 2 \in 1 .. Len(T) /\ last + 1 \in -1 .. Len(T) - 1
    <3>1. Len(T) \in Nat BY <2>2
    <3> QED BY <2>3, <3>1
  <2>5. T[last + 2] \in (0 .. all) \X (0 .. all)
    <3> HIDE DEF all
    <3> QED BY <2>2, <2>4
  <2>6. TraceBlocks(last) \subseteq AllBlks
    <3> DEFINE pair == T[last + 2]
    <3>1. pair[1] \in 0 .. all /\ pair[2] \in 0 .. all BY <2>5
    <3>2. TraceBlocks(last) = pair[1] .. pair[2] - 1 BY DEF TraceBlocks
    <3> HIDE DEF pair, all
    <3>3. pair[1] .. pair[2] - 1 \subseteq 0 .. all - 1 BY <1>3, <3>1
    <3> QED BY <3>2, <3>3 DEF AllBlks, all
  <2> QED BY <2>1, <2>4, <2>6 DEF InTrace
<1>6. CASE ~(source.kind = "delta" /\ from < source.size)
           /\ ~(source.kind = "perfect" /\ from < source.size /\ ~TraceEnds(last))
  <2>1. Prefetch(from, n, last) = [blks |-> {}, last |-> last] BY <1>6 DEF Prefetch
  <2> QED BY <2>1
<1> QED BY <1>4, <1>5, <1>6

-------------------------------------------------------------------------------
(* The actions.                                                            *)

(* A file that is opened has the prefetcher that is asked for.             *)
LEMMA OpenKeeps ==
  ASSUME ReadInv, NEW size \in 1 .. MaxSize, NEW configured \in BlkSizes,
         OpenForReads(size, configured)
  PROVE  ReadInv'
<1> DEFINE all == NumBlks(size, BlkSize(size, configured))
           new == source'
<1>1. source = Closed /\ UNCHANGED <<pos, eof, call, ahead, lastIndex>> BY DEF OpenForReads
<1>2. lastIndex' = -1 /\ pos' \in Nat /\ ahead' = {} /\ BytesCopied'
  BY <1>1 DEF ReadInv, ReadsExact, BytesCopied
<1>3. MaxDelta \in Nat /\ 0 \in -MaxDelta .. MaxDelta BY ReadConstants
<1>4. ASSUME new.size = size, new.configured = configured,
             new.kind \in {"input", "delta", "perfect", "local"},
             new.delta \in -MaxDelta .. MaxDelta, new.kind = "delta" => new.num \in Nums,
             new.trace \in Seq((0 .. all) \X (0 .. all))
      PROVE  ReadInv'
  <2>1. new # Closed BY <1>4 DEF Closed
  <2>2. Sized' /\ blkSizeOf' = BlkSize(size, configured) BY <1>4 DEF Sized, blkSizeOf
  <2>3. NumBlks(source.size, blkSizeOf)' = all BY <1>4, <2>2 DEF NumBlks
  <2>4. OpenSound' BY <1>4, <2>2, <2>3 DEF OpenSound
  <2>5. Len(new.trace) \in Nat
    <3> HIDE DEF all
    <3> QED BY <1>4
  <2>6. InTrace(lastIndex)' BY <1>2, <2>5 DEF InTrace
  <2> QED BY <1>2, <2>1, <2>4, <2>6 DEF ReadInv, ReadsExact
<1>5. CASE new = OpenFile("input", size, configured) \/ new = OpenFile("local", size, configured)
  <2>1. <<>> \in Seq((0 .. all) \X (0 .. all)) OBVIOUS
  <2>2. /\ new.size = size /\ new.configured = configured /\ new.kind \in {"input", "local"}
        /\ new.delta = 0 /\ new.trace = <<>>
    BY <1>5 DEF OpenFile
  <2> HIDE DEF all, new
  <2> QED BY <1>3, <1>4, <2>1, <2>2
<1>6. ASSUME NEW d \in -MaxDelta .. MaxDelta, NEW n \in Nums,
             new = [OpenFile("delta", size, configured) EXCEPT !.delta = d, !.num = n]
      PROVE  ReadInv'
  <2>1. <<>> \in Seq((0 .. all) \X (0 .. all)) OBVIOUS
  <2>2. new = [kind |-> "delta", size |-> size, configured |-> configured,
               delta |-> d, num |-> n, trace |-> <<>>]
    BY <1>6 DEF OpenFile
  <2> QED BY <1>4, <2>1, <2>2
<1>7. ASSUME NEW lines \in {<<>>} \cup {<<l>> : l \in Lines(size, configured)},
             new = [OpenFile("perfect", size, configured) EXCEPT !.trace = AccessTrace(lines)]
      PROVE  ReadInv'
  <2>1. new = [kind |-> "perfect", size |-> size, configured |-> configured,
               delta |-> 0, num |-> 0, trace |-> AccessTrace(lines)]
    BY <1>7 DEF OpenFile
  <2>2. size \in Nat \ {0} /\ configured \in Nat \ {0} BY ReadConstants
  <2>3. BlkSize(size, configured) \in Nat \ {0} BY <2>2 DEF BlkSize
  <2>4. all \in Nat BY <2>2, <2>3, Covering DEF NumBlks
  <2>5. lines \in Seq((0 .. all) \X (0 .. all))
    <3>1. CASE lines = <<>> BY <3>1
    <3>2. ASSUME NEW l \in Lines(size, configured), lines = <<l>>
          PROVE  lines \in Seq((0 .. all) \X (0 .. all))
      <4>1. l \in (0 .. all) \X (0 .. all) BY DEF Lines
      <4> HIDE DEF all
      <4> QED BY <3>2, <4>1
    <3> QED BY <3>1, <3>2
  <2>6. AccessTrace(lines) \in Seq((0 .. all) \X (0 .. all))
    <3> HIDE DEF all
    <3>1. <<0, 0>> \in (0 .. all) \X (0 .. all) BY <2>4
    <3> QED BY <2>5, <3>1 DEF AccessTrace
  <2> QED BY <1>3, <1>4, <2>1, <2>6
<1> QED BY <1>1, <1>5, <1>6, <1>7 DEF OpenForReads, OpenInputFile, OpenLocalFile

(* What a call has to leave behind.                                        *)
LEMMA CallKeeps ==
  ASSUME ReadInv, source # Closed, UNCHANGED source, pos' \in Nat, BytesCopied',
         ahead' \subseteq AllBlks, InTrace(lastIndex')
  PROVE  ReadInv'
<1>1. OpenSound' /\ AllBlks' = AllBlks
  BY DEF ReadInv, OpenSound, Sized, AllBlks, blkSizeOf, NumBlks
<1>2. InTrace(lastIndex)' BY DEF InTrace
<1> QED BY <1>1, <1>2 DEF ReadInv, ReadsExact, AllBlks

(* A single read, which fgetc and many an fgets are too.                   *)
LEMMA ReadKeeps ==
  ASSUME PrefetchFits, ReadInv, source # Closed, NEW count \in Nat, Read(count)
  PROVE  ReadInv'
<1> DEFINE n == Amount(pos, count)
           p == Prefetch(pos, n, lastIndex)
<1>1. OpenSound /\ Sized /\ InTrace(lastIndex) /\ pos \in Nat BY DEF ReadInv, OpenSound
<1>2. /\ n \in Nat
      /\ n > 0 => pos + n <= source.size
      /\ pos < source.size => pos + n <= source.size
  BY <1>1, AmountIs
<1>3. /\ pos' = (pos + n) % Long /\ ahead' = p.blks /\ lastIndex' = p.last
      /\ call' = [from |-> pos, n |-> n, stored |-> Stored(pos, n)] /\ UNCHANGED source
  BY DEF Read
<1>4. p.blks \subseteq AllBlks /\ InTrace(p.last)
  <2> HIDE DEF n
  <2> QED BY <1>1, <1>2, PrefetchSound
<1>5. Stored(pos, n) = Bytes(pos, n)
  <2> HIDE DEF n
  <2> QED BY <1>1, <1>2, StoredBytes
<1> HIDE DEF n, p
<1>6. (pos + n) % Long \in Nat /\ (n > 0 => (pos + n) % Long = pos + n)
  <2>1. Long \in Nat \ {0} /\ source.size \in Nat /\ source.size < Long BY <1>1, Sizes
  <2>2. (pos + n) % Long \in 0 .. Long - 1
    <3>1. pos + n \in Int BY <1>1, <1>2
    <3> QED BY <2>1, <3>1, DivMod
  <2>3. CASE n > 0
    <3>1. pos + n \in Int /\ 0 <= pos + n /\ pos + n < Long BY <1>1, <1>2, <2>1, <2>3
    <3> QED BY <2>1, <2>2, <3>1, SmallModulus
  <2> QED BY <1>2, <2>1, <2>2, <2>3
<1>7. BytesCopied' BY <1>3, <1>5, <1>6 DEF BytesCopied, Bytes
<1> QED BY <1>3, <1>4, <1>6, <1>7, CallKeeps

(* Two parts of a read next to each other.                                 *)
LEMMA TwoParts ==
  ASSUME NEW from \in Nat, NEW n1 \in Nat, NEW n2 \in Nat
  PROVE  Bytes(from, n1) \cup {<<n1 + b[1], b[2]>> : b \in Bytes(from + n1, n2)}
           = Bytes(from, n1 + n2)
<1> DEFINE second == {<<n1 + b[1], b[2]>> : b \in Bytes(from + n1, n2)}
<1>1. ASSUME NEW x \in Bytes(from, n1) PROVE x \in Bytes(from, n1 + n2)
  <2>1. PICK i \in 0 .. n1 - 1 : x = <<i, from + i>> BY DEF Bytes
  <2>2. i \in 0 .. (n1 + n2) - 1 OBVIOUS
  <2> QED BY <2>1, <2>2 DEF Bytes
<1>2. ASSUME NEW x \in second PROVE x \in Bytes(from, n1 + n2)
  <2>1. PICK b \in Bytes(from + n1, n2) : x = <<n1 + b[1], b[2]>> OBVIOUS
  <2>2. PICK i \in 0 .. n2 - 1 : b = <<i, from + n1 + i>> BY DEF Bytes
  <2>3. x = <<n1 + i, from + (n1 + i)>> /\ n1 + i \in 0 .. (n1 + n2) - 1
    BY <2>1, <2>2
  <2> QED BY <2>3 DEF Bytes
<1>3. ASSUME NEW x \in Bytes(from, n1 + n2) PROVE x \in Bytes(from, n1) \cup second
  <2>1. PICK i \in 0 .. (n1 + n2) - 1 : x = <<i, from + i>> BY DEF Bytes
  <2>2. CASE i < n1
    <3>1. i \in 0 .. n1 - 1 BY <2>2
    <3> QED BY <2>1, <3>1 DEF Bytes
  <2>3. CASE i >= n1
    <3> DEFINE j == i - n1
               b == <<j, from + n1 + j>>
    <3>1. j \in 0 .. n2 - 1 BY <2>3
    <3>2. b \in Bytes(from + n1, n2) BY <3>1 DEF Bytes
    <3>3. b[1] = j /\ b[2] = from + n1 + j OBVIOUS
    <3>4. n1 + j = i /\ from + n1 + j = from + i BY <2>3
    <3>5. x = <<n1 + b[1], b[2]>> BY <2>1, <3>3, <3>4
    <3> QED BY <3>2, <3>5
  <2> QED BY <2>2, <2>3
<1> QED BY <1>1, <1>2, <1>3

(* The second buffer continues the first one only where that is full.      *)
LEMMA ReadvKeeps ==
  ASSUME PrefetchFits, ReadInv, source # Closed, NEW count1 \in Nat, NEW count2 \in Nat,
         Readv(count1, count2)
  PROVE  ReadInv'
<1> DEFINE n1 == Amount(pos, count1)
           p1 == Prefetch(pos, n1, lastIndex)
           from == pos + n1
           n2 == Amount(from, count2)
           p2 == Prefetch(from, n2, p1.last)
           second == {<<count1 + b[1], b[2]>> : b \in Stored(from, n2)}
<1>1. CASE n1 >= 2
  <2>1. Read(count1) BY <1>1 DEF Readv
  <2> QED BY <2>1, ReadKeeps
<1>2. CASE ~(n1 >= 2)
  <2>1. OpenSound /\ Sized /\ InTrace(lastIndex) /\ pos \in Nat BY DEF ReadInv, OpenSound
  <2>2. /\ n1 \in Nat /\ n1 <= count1
        /\ n1 > 0 => pos + n1 <= source.size
        /\ pos < source.size => pos + n1 <= source.size
        /\ n1 < count1 => pos + n1 >= source.size
        /\ pos >= source.size => n1 = 0
    <3>1. n1 = Amount(pos, count1) OBVIOUS
    <3> HIDE DEF n1
    <3>2. pos >= source.size => n1 = 0 BY <2>1, <3>1, Sizes, SMT DEF Amount
    <3> QED BY <2>1, <3>1, <3>2, AmountIs
  <2>3. from \in Nat BY <2>1, <2>2
  <2>4. /\ n2 \in Nat
        /\ n2 > 0 => from + n2 <= source.size
        /\ from < source.size => from + n2 <= source.size
        /\ from >= source.size => n2 = 0
    <3>1. n2 = Amount(from, count2) OBVIOUS
    <3> HIDE DEF from, n2
    <3>2. from >= source.size => n2 = 0 BY <2>1, <2>3, <3>1, Sizes, SMT DEF Amount
    <3> QED BY <2>1, <2>3, <3>1, <3>2, AmountIs
  <2>5. /\ pos' = (from + n2) % Long /\ ahead' = p1.blks \cup p2.blks
        /\ lastIndex' = p2.last /\ UNCHANGED source
        /\ call' = [from |-> pos, n |-> n1 + n2, stored |-> Stored(pos, n1) \cup second]
    BY <1>2 DEF Readv
  <2>6. p1.blks \subseteq AllBlks /\ InTrace(p1.last)
    <3> HIDE DEF n1
    <3> QED BY <2>1, <2>2, PrefetchSound
  <2>7. p2.blks \subseteq AllBlks /\ InTrace(p2.last)
    <3> HIDE DEF n1, n2, from, p1
    <3> QED BY <2>1, <2>3, <2>4, <2>6, PrefetchSound
  <2>8. Stored(pos, n1) = Bytes(pos, n1) /\ Stored(from, n2) = Bytes(from, n2)
    <3> HIDE DEF n1, n2, from
    <3> QED BY <2>1, <2>2, <2>3, <2>4, StoredBytes
  <2>9. source.size \in Nat /\ Long \in Nat \ {0} /\ source.size < Long BY <2>1, Sizes
  <2>10. n1 < count1 => n2 = 0
    <3> HIDE DEF n1, n2
    <3> QED BY <2>2, <2>4
  <2>11. Stored(pos, n1) \cup second = Bytes(pos, n1 + n2)
    <3> HIDE DEF n1, n2
    <3>1. CASE n1 = count1
      <4>1. second = {<<n1 + b[1], b[2]>> : b \in Bytes(pos + n1, n2)} BY <2>8, <3>1
      <4> HIDE DEF second
      <4> QED BY <2>1, <2>2, <2>4, <2>8, <4>1, TwoParts
    <3>2. CASE n1 # count1
      <4>1. n2 = 0 BY <2>2, <2>10, <3>2
      <4>2. Stored(from, n2) = {} BY <2>8, <4>1 DEF Bytes
      <4>3. second = {} BY <4>2
      <4>4. n1 + n2 = n1 BY <2>2, <4>1
      <4> QED BY <2>8, <4>3, <4>4
    <3> QED BY <3>1, <3>2
  <2> HIDE DEF n1, n2, p1, p2, second
  <2>12. (from + n2) % Long \in Nat /\ (n1 + n2 > 0 => (from + n2) % Long = pos + (n1 + n2))
    <3>1. from + n2 \in Int /\ from + n2 = pos + (n1 + n2) BY <2>1, <2>2, <2>4
    <3>2. (from + n2) % Long \in 0 .. Long - 1
      <4> HIDE DEF from
      <4> QED BY <2>9, <3>1, DivMod
    <3>3. CASE n1 + n2 > 0
      <4>1. 0 <= from + n2 /\ from + n2 < Long BY <2>1, <2>2, <2>4, <2>9, <3>3
      <4>2. (from + n2) % Long = from + n2
        <5> HIDE DEF from
        <5> QED BY <2>9, <3>1, <4>1, SmallModulus
      <4> QED BY <3>1, <3>2, <4>2
    <3> QED BY <3>2, <3>3
  <2> HIDE DEF from
  <2>13. BytesCopied' BY <2>5, <2>11, <2>12 DEF BytesCopied, Bytes
  <2>14. ahead' \subseteq AllBlks BY <2>5, <2>6, <2>7
  <2> QED BY <2>5, <2>7, <2>12, <2>13, <2>14, CallKeeps
<1> QED BY <1>1, <1>2

(* What fgets stores up to the end of a line.                              *)
LEMMA FgetsKeeps ==
  ASSUME PrefetchFits, ReadInv, source # Closed, NEW count \in Nat, NEW line \in Nat \ {0},
         Fgets(count, line)
  PROVE  ReadInv'
<1> DEFINE n == Amount(pos, count)
           p == Prefetch(pos, n, lastIndex)
<1>1. CASE line >= n
  <2>1. Read(count) BY <1>1 DEF Fgets
  <2> QED BY <2>1, ReadKeeps
<1>2. CASE ~(line >= n)
  <2>1. OpenSound /\ Sized /\ InTrace(lastIndex) /\ pos \in Nat BY DEF ReadInv, OpenSound
  <2>2. /\ n \in Nat
        /\ n > 0 => pos + n <= source.size
        /\ pos < source.size => pos + n <= source.size
    BY <2>1, AmountIs
  <2>3. /\ pos' = (pos + line) % Word /\ ahead' = p.blks /\ lastIndex' = p.last
        /\ UNCHANGED source
        /\ call' = [from |-> pos, n |-> line, stored |-> {b \in Stored(pos, n) : b[1] < line}]
    BY <1>2 DEF Fgets
  <2>4. p.blks \subseteq AllBlks /\ InTrace(p.last)
    <3> HIDE DEF n
    <3> QED BY <2>1, <2>2, PrefetchSound
  <2>5. Stored(pos, n) = Bytes(pos, n)
    <3> HIDE DEF n
    <3> QED BY <2>1, <2>2, StoredBytes
  <2> HIDE DEF n, p
  <2>6. (pos + line) % Word = pos + line /\ pos + line \in Nat
    <3>1. Word \in Nat \ {0} /\ source.size \in Nat /\ source.size < Word BY <2>1, Sizes
    <3>2. pos + line \in Int /\ 0 <= pos + line /\ pos + line < Word
      BY <1>2, <2>1, <2>2, <3>1
    <3> QED BY <2>1, <3>1, <3>2, SmallModulus
  <2>7. {b \in Bytes(pos, n) : b[1] < line} = Bytes(pos, line)
    <3>1. ASSUME NEW b \in Bytes(pos, n), b[1] < line PROVE b \in Bytes(pos, line)
      <4>1. PICK i \in 0 .. n - 1 : b = <<i, pos + i>> BY DEF Bytes
      <4>2. i \in 0 .. line - 1 BY <2>2, <3>1, <4>1
      <4> QED BY <4>1, <4>2 DEF Bytes
    <3>2. ASSUME NEW b \in Bytes(pos, line) PROVE b \in Bytes(pos, n) /\ b[1] < line
      <4>1. PICK i \in 0 .. line - 1 : b = <<i, pos + i>> BY DEF Bytes
      <4>2. i \in 0 .. n - 1 /\ i < line BY <1>2, <2>2
      <4> QED BY <4>1, <4>2 DEF Bytes
    <3> QED BY <3>1, <3>2
  <2>8. BytesCopied' BY <2>3, <2>5, <2>6, <2>7 DEF BytesCopied, Bytes
  <2> QED BY <2>3, <2>4, <2>6, <2>8, CallKeeps
<1> QED BY <1>1, <1>2

(* A seek stores nothing.                                                  *)
LEMMA SeekKeeps ==
  ASSUME ReadInv, source # Closed, NEW whence \in {"SEEK_SET", "SEEK_CUR", "SEEK_END"},
         NEW offset \in Nat, Seek(whence, offset)
  PROVE  ReadInv'
<1>1. /\ UNCHANGED <<source, lastIndex>> /\ call' = NoCall /\ ahead' = {}
      /\ pos' = CASE whence = "SEEK_SET" -> offset
                  [] whence = "SEEK_CUR" -> IF (pos + offset) % Long > source.size
                                            THEN source.size ELSE (pos + offset) % Long
                  [] whence = "SEEK_END" -> (source.size + offset) % Long
  BY DEF Seek
<1>2. OpenSound /\ Sized /\ InTrace(lastIndex) /\ pos \in Nat BY DEF ReadInv, OpenSound
<1>3. source.size \in Nat /\ Long \in Nat \ {0} BY <1>2, Sizes
<1>4. (pos + offset) % Long \in Nat /\ (source.size + offset) % Long \in Nat
  <2>1. pos + offset \in Int /\ source.size + offset \in Int BY <1>2, <1>3
  <2>2. (pos + offset) % Long \in 0 .. Long - 1 /\ (source.size + offset) % Long \in 0 .. Long - 1
    BY <1>3, <2>1, DivMod
  <2> QED BY <1>3, <2>2
<1>5. pos' \in Nat BY <1>1, <1>3, <1>4
<1>6. BytesCopied' BY <1>1 DEF BytesCopied, NoCall
<1> QED BY <1>1, <1>2, <1>5, <1>6, CallKeeps

(* Every step keeps the invariant.                                         *)
LEMMA ReadStep ==
  ASSUME PrefetchFits, ReadInv, [ReadNext]_readVars
  PROVE  ReadInv'
<1>1. /\ Counts \subseteq Nat /\ Offsets \subseteq Nat
  BY ReadConstants
<1>2. CASE UNCHANGED readVars
  BY <1>2 DEF readVars, ReadInv, OpenSound, Sized, blkSizeOf, NumBlks, InTrace, ReadsExact,
              BytesCopied
<1>3. ASSUME NEW size \in 1 .. MaxSize, NEW configured \in BlkSizes,
             OpenForReads(size, configured)
      PROVE  ReadInv'
  BY <1>3, OpenKeeps
<1>4. CASE source # Closed /\ Calls
  <2>1. ASSUME NEW count \in Counts, Read(count) PROVE ReadInv'
    BY <1>1, <1>4, <2>1, ReadKeeps
  <2>2. ASSUME NEW count1 \in Counts, NEW count2 \in Counts, Readv(count1, count2)
        PROVE  ReadInv'
    BY <1>1, <1>4, <2>2, ReadvKeeps
  <2>3. CASE Fgetc BY <1>4, <2>3, ReadKeeps DEF Fgetc
  <2>4. ASSUME NEW count \in Counts, NEW line \in Counts \ {0}, Fgets(count, line)
        PROVE  ReadInv'
    BY <1>1, <1>4, <2>4, FgetsKeeps
  <2>5. ASSUME NEW whence \in {"SEEK_SET", "SEEK_CUR", "SEEK_END"}, NEW o \in Offsets,
               Seek(whence, o)
        PROVE  ReadInv'
    BY <1>1, <1>4, <2>5, SeekKeeps
  <2>6. CASE Ftell BY <1>4, <2>6, SeekKeeps DEF Ftell
  <2> QED BY <1>4, <2>1, <2>2, <2>3, <2>4, <2>5, <2>6 DEF Calls
<1> QED BY <1>2, <1>3, <1>4 DEF ReadNext

(* Every call that reads copies exactly the bytes of the file at its       *)
(* position, and no prefetcher asks for a block that the file does not     *)
(* have: copyBlock, getBlockData, GetBlocks of the DeltaPrefetcher and     *)
(* everything that leads to them, for files, blocks and counts of any      *)
(* size that fits.                                                         *)
THEOREM ReadsAreExact ==
  ASSUME PrefetchFits
  PROVE  ReadSpec => []ReadsExact
<1>1. ReadInit => ReadInv
  BY DEF ReadInit, ReadInv, ReadsExact, BytesCopied, NoCall
<1>2. ReadInv /\ [ReadNext]_readVars => ReadInv'
  BY ReadStep
<1>3. ReadInv => ReadsExact
  BY DEF ReadInv
<1> QED BY <1>1, <1>2, <1>3, PTL DEF ReadSpec
===============================================================================
