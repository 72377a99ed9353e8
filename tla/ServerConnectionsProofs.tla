------------------------ MODULE ServerConnectionsProofs ------------------------
(***************************************************************************)
(* The server's connections, for any number of sockets, clients, messages  *)
(* and failures; the end of a client, for any reads and prefetches; and    *)
(* the client's tables of open files, for any threads, files, descriptors  *)
(* and addresses.                                                          *)
(*                                                                         *)
(* A socket that was added is in one slot of its client's Connection until *)
(* it is closed.  A Connection has a user for each of its sockets, and one *)
(* more from the moment when a socket is closed until removeConnection,    *)
(* which takes off one user however many sockets were closed: that is why  *)
(* it is never deleted under an open socket.                               *)
(***************************************************************************)
EXTENDS ServerConnections, ClientCleanup, ClientFiles, FiniteSetTheorems, SequenceTheorems, TLAPS

(* The types of what the variables are made of.                            *)
SlotType == [socket : Sockets \cup {NoSocket}, event : Events]
ConnType == [alive : BOOLEAN, users : Nat, slots : Seq(SlotType),
             inMsgs : -1 .. Cardinality(Sockets), next : Nat]
PollerType == [at : {"none", "queued", "poll", "scan", "serve", "send", "ping", "remove", "gone"},
               socket : Sockets \cup {NoSocket}, closed : Nat, blocks : 0 .. MaxBlocks]

Types ==
  /\ alive \in BOOLEAN /\ main \in {"accept", "terminate", "end"}
  /\ socket \in [Sockets -> {"new", "open", "closed"}] /\ broken \subseteq Sockets
  /\ inbox \in [Sockets -> 0 .. MaxMsgs]
  /\ adder \in [Sockets -> {"none", "queued", "waiting", "done"}]
  /\ active \in [Keys -> {0} \cup Conns]
  /\ conn \in [Conns -> ConnType] /\ poller \in [Conns -> PollerType]

(* The slots that have a socket, and those that are marked.                *)
Occupied(slots) == {j \in DOMAIN slots : slots[j].socket # NoSocket}
Marked(slots)   == {j \in DOMAIN slots : slots[j].event # "none"}
InSlots(slots, s) == \E j \in DOMAIN slots : slots[j].socket = s

(* Only slots with a socket are marked, and no socket is in two slots.     *)
SlotsSound(slots) ==
  /\ \A j \in DOMAIN slots : slots[j].event # "none" => slots[j].socket # NoSocket
  /\ \A j, k \in DOMAIN slots :
       slots[j].socket = slots[k].socket /\ slots[j].socket # NoSocket => j = k

(* A turn of the task in which a socket was closed owes one user.          *)
Owed(p) ==
  IF p.closed > 0 /\ p.at \in {"poll", "scan", "serve", "send", "ping", "remove"} THEN 1 ELSE 0

(* What is true of a Connection c and its task p.                          *)
SlotCount(c) ==
  /\ Len(c.slots) <= Cardinality(Sockets) /\ SlotsSound(c.slots)
  /\ Cardinality(Marked(c.slots)) = IF c.inMsgs > 0 THEN c.inMsgs ELSE 0
TaskSound(c, p) ==
  /\ p.at = "none" => c = NotMade
  /\ p.at # "none" => Len(c.slots) > 0
  /\ p.at \in {"serve", "send", "ping"} =>
       /\ p.socket # NoSocket /\ InSlots(c.slots, p.socket)
       /\ \A j \in DOMAIN c.slots : c.slots[j].socket = p.socket => c.slots[j].event = "none"
  /\ p.at = "send" => p.blocks > 0
  /\ p.at = "remove" => p.closed > 0
UsersSound(c, p) == c.alive => Cardinality(Occupied(c.slots)) + Owed(p) <= c.users
LifeSound(c, p) ==
  /\ alive /\ c.alive => p.at \notin {"none", "gone"}
  /\ main # "end" /\ p.at \notin {"none", "gone"} => c.alive
  /\ main = "end" => p.at \in {"none", "queued", "gone"}
ConnSound(c, p) == SlotCount(c) /\ TaskSound(c, p) /\ UsersSound(c, p) /\ LifeSound(c, p)

(* A socket is in the slots of one Connection, once it was added, and as   *)
(* long as it is open in those of its client's.                            *)
SocketSound(s) ==
  /\ socket[s] = "new" => adder[s] = "none"
  /\ \A i, k \in Conns : InSlots(conn[i].slots, s) /\ InSlots(conn[k].slots, s) => i = k
  /\ adder[s] # "done" => \A i \in Conns : ~InSlots(conn[i].slots, s)
  /\ adder[s] = "waiting" => active[KeyOf[s]] # 0
  /\ socket[s] = "open" /\ adder[s] = "done" =>
       active[KeyOf[s]] # 0 /\ InSlots(conn[active[KeyOf[s]]].slots, s)

KeySound(k) == active[k] # 0 => poller[active[k]].at # "none"

Inv ==
  /\ Types
  /\ \A i \in Conns : ConnSound(conn[i], poller[i])
  /\ \A s \in Sockets : SocketSound(s)
  /\ \A k \in Keys : KeySound(k)

-------------------------------------------------------------------------------
(* Facts about slots.                                                      *)

(* The sets of slots can be counted.                                       *)
LEMMA SlotsFinite ==
  ASSUME NEW slots \in Seq(SlotType)
  PROVE  /\ DOMAIN slots = 1 .. Len(slots) /\ Len(slots) \in Nat
         /\ IsFiniteSet(Occupied(slots)) /\ Cardinality(Occupied(slots)) \in Nat
         /\ IsFiniteSet(Marked(slots)) /\ Cardinality(Marked(slots)) \in Nat
         /\ Cardinality(Marked(slots)) <= Len(slots)
<1>1. DOMAIN slots = 1 .. Len(slots) /\ Len(slots) \in Nat
  BY LenProperties
<1>2. IsFiniteSet(1 .. Len(slots)) /\ Cardinality(1 .. Len(slots)) = Len(slots)
  BY <1>1, FS_Interval
<1>3. Occupied(slots) \subseteq 1 .. Len(slots) /\ Marked(slots) \subseteq 1 .. Len(slots)
  BY <1>1 DEF Occupied, Marked
<1> QED
  BY <1>1, <1>2, <1>3, FS_Subset, FS_CardinalityType

(* A function on the numbers of the slots is slots.                        *)
LEMMA SlotsAre ==
  ASSUME NEW n \in Nat, NEW slots \in [1 .. n -> SlotType]
  PROVE  slots \in Seq(SlotType) /\ Len(slots) = n
<1>1. slots \in Seq(SlotType)
  BY SeqDef
<1>2. Len(slots) \in Nat /\ 1 .. Len(slots) = 1 .. n
  BY <1>1, LenProperties
<1> QED
  BY <1>1, <1>2

(* A slot is cleared.                                                      *)
Emptied(slots, j) == [slots EXCEPT ![j] = Slot(NoSocket)]

(* What is left of the slots then: all but the one socket.                 *)
LEMMA ClearedSlots ==
  ASSUME NEW slots \in Seq(SlotType), NEW j \in DOMAIN slots, SlotsSound(slots)
  PROVE  LET new == Emptied(slots, j)
         IN  /\ new \in Seq(SlotType) /\ Len(new) = Len(slots) /\ SlotsSound(new)
             /\ Occupied(new) = Occupied(slots) \ {j} /\ Marked(new) = Marked(slots) \ {j}
             /\ \A s \in Sockets : InSlots(new, s) <=> InSlots(slots, s) /\ slots[j].socket # s
<1> DEFINE new == Emptied(slots, j)
<1>1. /\ DOMAIN slots = 1 .. Len(slots) /\ Len(slots) \in Nat
      /\ slots \in [1 .. Len(slots) -> SlotType]
  BY LenProperties
<1>2. Slot(NoSocket) \in SlotType
  BY DEF Slot, SlotType, Events
<1>3. new \in [1 .. Len(slots) -> SlotType]
  BY <1>1, <1>2 DEF Emptied
<1>4. new \in Seq(SlotType) /\ Len(new) = Len(slots) /\ DOMAIN new = DOMAIN slots
  BY <1>1, <1>3, SlotsAre
<1>5. /\ new[j].socket = NoSocket /\ new[j].event = "none"
      /\ \A k \in DOMAIN slots : k # j => new[k] = slots[k]
  BY <1>1 DEF Slot, Emptied
<1> HIDE DEF new
<1>6. Occupied(new) = Occupied(slots) \ {j}
  BY <1>4, <1>5 DEF Occupied
<1>7. Marked(new) = Marked(slots) \ {j}
  BY <1>4, <1>5 DEF Marked
<1>8. SlotsSound(new)
  <2>1. \A k \in DOMAIN new : new[k].event # "none" => new[k].socket # NoSocket
    BY <1>4, <1>5 DEF SlotsSound
  <2>2. ASSUME NEW k \in DOMAIN new, NEW l \in DOMAIN new,
               new[k].socket = new[l].socket, new[k].socket # NoSocket
        PROVE  k = l
    BY <1>4, <1>5, <2>2 DEF SlotsSound
  <2> QED
    BY <2>1, <2>2 DEF SlotsSound
<1>9. ASSUME NEW s \in Sockets
      PROVE  InSlots(new, s) <=> InSlots(slots, s) /\ slots[j].socket # s
  <2>1. NoSocket # s
    BY ConnectionConstants
  <2>2. ASSUME InSlots(new, s)
        PROVE  InSlots(slots, s) /\ slots[j].socket # s
    <3>1. PICK k \in DOMAIN slots : k # j /\ slots[k].socket = s
      BY <1>4, <1>5, <2>1, <2>2 DEF InSlots
    <3> QED
      BY <2>1, <3>1 DEF InSlots, SlotsSound
  <2>3. ASSUME InSlots(slots, s), slots[j].socket # s
        PROVE  InSlots(new, s)
    BY <1>4, <1>5, <2>3 DEF InSlots
  <2> QED
    BY <2>2, <2>3
<1> QED
  BY <1>4, <1>6, <1>7, <1>8, <1>9 DEF new

(* There are no more slots than sockets: a slot is only added when all     *)
(* have a socket, and that not the one to be added.                        *)
LEMMA SlotsFewer ==
  ASSUME NEW slots \in Seq(SlotType), NEW s \in Sockets, SlotsSound(slots), ~InSlots(slots, s),
         \A j \in DOMAIN slots : slots[j].socket # NoSocket
  PROVE  Len(slots) + 1 <= Cardinality(Sockets)
<1> DEFINE held == [j \in 1 .. Len(slots) |-> slots[j].socket]
<1>1. /\ DOMAIN slots = 1 .. Len(slots) /\ Len(slots) \in Nat
      /\ \A j \in 1 .. Len(slots) : slots[j] \in SlotType
  BY LenProperties
<1>2. \A j \in 1 .. Len(slots) : held[j] \in Sockets \ {s}
  BY <1>1 DEF InSlots, SlotType
<1>3. \A j, k \in 1 .. Len(slots) : held[j] = held[k] => j = k
  BY <1>1 DEF SlotsSound
<1>4. held \in Injection(1 .. Len(slots), Sockets \ {s})
  <2>1. held \in [1 .. Len(slots) -> Sockets \ {s}]
    BY <1>2
  <2> HIDE DEF held
  <2> QED
    BY <1>3, <2>1 DEF Injection, IsInjective
<1>5. /\ IsFiniteSet(Sockets) /\ IsFiniteSet(Sockets \ {s})
      /\ Cardinality(Sockets \ {s}) = Cardinality(Sockets) - 1
      /\ Cardinality(Sockets) \in Nat
  BY ConnectionConstants, FS_RemoveElement, FS_CardinalityType
<1> HIDE DEF held
<1>6. Cardinality(1 .. Len(slots)) <= Cardinality(Sockets \ {s})
  BY <1>4, <1>5, FS_Injection
<1>7. Cardinality(1 .. Len(slots)) = Len(slots)
  BY <1>1, FS_Interval
<1> QED
  BY <1>1, <1>5, <1>6, <1>7

(* A free slot, if there is one, has a first one.                          *)
LEMMA FirstFree ==
  ASSUME NEW free, free \subseteq Nat, free # {}
  PROVE  (CHOOSE j \in free : \A l \in free : j <= l) \in free
<1> DEFINE R == OpToRel(<, Nat)
<1>1. IsWellFoundedOn(R, Nat)
  BY NatLessThanWellFounded
<1>2. PICK j \in free : \A k \in free : <<k, j>> \notin R
  <2> HIDE DEF R
  <2> QED
    BY <1>1, WFMin
<1>3. \A k \in free : ~(k < j)
  BY <1>2 DEF OpToRel
<1> HIDE DEF R
<1>4. \A k \in free : j <= k
  BY <1>2, <1>3
<1> QED
  BY <1>4

(* A socket is added: into a free slot, or a new one.                      *)
LEMMA AddedSlots ==
  ASSUME NEW slots \in Seq(SlotType), NEW s \in Sockets, SlotsSound(slots), ~InSlots(slots, s),
         Len(slots) <= Cardinality(Sockets), NEW new, new = WithSocket(slots, s)
  PROVE  /\ new \in Seq(SlotType) /\ Len(new) >= Len(slots) /\ SlotsSound(new)
         /\ Len(new) <= Cardinality(Sockets) /\ Len(new) > 0
         /\ Cardinality(Occupied(new)) = Cardinality(Occupied(slots)) + 1
         /\ Marked(new) = Marked(slots)
         /\ \A t \in Sockets : InSlots(new, t) <=> InSlots(slots, t) \/ t = s
<1> DEFINE free == {j \in DOMAIN slots : slots[j].socket = NoSocket}
           first == CHOOSE j \in free : \A l \in free : j <= l
<1>1. /\ DOMAIN slots = 1 .. Len(slots) /\ Len(slots) \in Nat
      /\ slots \in [1 .. Len(slots) -> SlotType]
  BY LenProperties
<1>2. Slot(s) \in SlotType /\ Slot(s).socket = s /\ Slot(s).event = "none" /\ s # NoSocket
  BY ConnectionConstants DEF Slot, SlotType, Events
<1>3. /\ new \in Seq(SlotType) /\ Len(new) >= Len(slots) /\ Len(new) \in Nat
      /\ Len(new) <= Cardinality(Sockets) /\ Len(new) > 0
      /\ \E j \in DOMAIN new : /\ j \notin Occupied(slots) /\ new[j] = Slot(s)
                               /\ DOMAIN new = DOMAIN slots \cup {j}
                               /\ \A k \in DOMAIN slots : k # j => new[k] = slots[k]
  <2>1. CASE free = {}
    <3>1. new = Append(slots, Slot(s))
      BY <2>1 DEF WithSocket
    <3>2. /\ new \in Seq(SlotType) /\ Len(new) = Len(slots) + 1
          /\ new[Len(slots) + 1] = Slot(s)
          /\ \A k \in 1 .. Len(slots) : new[k] = slots[k]
      BY <1>1, <1>2, <3>1
    <3>3. Len(slots) + 1 <= Cardinality(Sockets)
      BY <2>1, SlotsFewer
    <3>4. DOMAIN new = 1 .. Len(slots) + 1
      BY <3>2, LenProperties
    <3>5. /\ Len(slots) + 1 \in DOMAIN new /\ Len(slots) + 1 \notin Occupied(slots)
          /\ DOMAIN new = DOMAIN slots \cup {Len(slots) + 1}
      BY <1>1, <3>4 DEF Occupied
    <3> QED
      BY <1>1, <3>2, <3>3, <3>5
  <2>2. CASE free # {}
    <3>1. first \in free
      <4>1. free \subseteq Nat
        BY <1>1
      <4> HIDE DEF free
      <4> QED
        BY <2>2, <4>1, FirstFree
    <3>2. new = [slots EXCEPT ![first] = Slot(s)]
      BY <2>2 DEF WithSocket
    <3> HIDE DEF first
    <3>3. new \in [1 .. Len(slots) -> SlotType]
      BY <1>1, <1>2, <3>2
    <3>4. new \in Seq(SlotType) /\ Len(new) = Len(slots) /\ DOMAIN new = DOMAIN slots
      BY <1>1, <3>3, SlotsAre
    <3>5. new[first] = Slot(s) /\ first \in DOMAIN new /\ first \notin Occupied(slots)
      BY <1>1, <3>1, <3>2, <3>4 DEF Occupied
    <3>6. \A k \in DOMAIN slots : k # first => new[k] = slots[k]
      BY <3>2
    <3>7. Len(slots) > 0
      BY <1>1, <3>1
    <3> QED
      BY <1>1, <3>1, <3>4, <3>5, <3>6, <3>7
  <2> QED
    BY <2>1, <2>2
<1>4. PICK j \in DOMAIN new : /\ j \notin Occupied(slots) /\ new[j] = Slot(s)
                              /\ DOMAIN new = DOMAIN slots \cup {j}
                              /\ \A k \in DOMAIN slots : k # j => new[k] = slots[k]
  BY <1>3
<1> HIDE DEF free, first
<1>5. Occupied(new) = Occupied(slots) \cup {j}
  BY <1>2, <1>4 DEF Occupied
<1>6. Cardinality(Occupied(new)) = Cardinality(Occupied(slots)) + 1
  BY <1>4, <1>5, SlotsFinite, FS_AddElement
<1>7. Marked(new) = Marked(slots)
  <2>1. j \notin Marked(slots)
    BY <1>4 DEF Marked, Occupied, SlotsSound
  <2> QED
    BY <1>2, <1>4, <2>1 DEF Marked
<1>8. SlotsSound(new)
  <2>1. \A k \in DOMAIN new : new[k].event # "none" => new[k].socket # NoSocket
    BY <1>2, <1>4 DEF SlotsSound
  <2>2. ASSUME NEW k \in DOMAIN new, NEW l \in DOMAIN new,
               new[k].socket = new[l].socket, new[k].socket # NoSocket
        PROVE  k = l
    <3>1. \A m \in DOMAIN new : m # j => new[m].socket # s
      BY <1>4 DEF InSlots
    <3>2. k = j <=> l = j
      BY <1>2, <1>4, <2>2, <3>1
    <3>3. CASE k # j
      BY <1>4, <2>2, <3>2, <3>3 DEF SlotsSound
    <3> QED
      BY <3>2, <3>3
  <2> QED
    BY <2>1, <2>2 DEF SlotsSound
<1>9. \A t \in Sockets : InSlots(new, t) <=> InSlots(slots, t) \/ t = s
  <2> SUFFICES ASSUME NEW t \in Sockets
               PROVE  InSlots(new, t) <=> InSlots(slots, t) \/ t = s
    OBVIOUS
  <2>1. InSlots(new, t) => InSlots(slots, t) \/ t = s
    BY <1>2, <1>4 DEF InSlots
  <2>2. t = s => InSlots(new, t)
    BY <1>2, <1>4 DEF InSlots
  <2>3. ASSUME InSlots(slots, t)
        PROVE  InSlots(new, t)
    <3>1. PICK k \in DOMAIN slots : slots[k].socket = t
      BY <2>3 DEF InSlots
    <3>2. t # NoSocket
      BY ConnectionConstants
    <3>3. k # j
      BY <1>4, <3>1, <3>2 DEF Occupied
    <3> QED
      BY <1>4, <3>1, <3>3 DEF InSlots
  <2> QED
    BY <2>1, <2>2, <2>3
<1> QED
  BY <1>3, <1>6, <1>7, <1>8, <1>9

(* The sockets of the slots stay, whatever is marked.                      *)
LEMMA MarkedSlots ==
  ASSUME NEW slots \in Seq(SlotType), NEW new \in Seq(SlotType), SlotsSound(slots),
         Len(new) = Len(slots),
         \A j \in DOMAIN slots : /\ new[j].socket = slots[j].socket
                                 /\ new[j].event # "none" => new[j].socket # NoSocket
  PROVE  /\ DOMAIN new = DOMAIN slots /\ SlotsSound(new) /\ Occupied(new) = Occupied(slots)
         /\ \A s \in Sockets : InSlots(new, s) <=> InSlots(slots, s)
<1>1. DOMAIN new = DOMAIN slots
  BY LenProperties
<1> QED
  BY <1>1 DEF SlotsSound, Occupied, InSlots

-------------------------------------------------------------------------------
(* Steps of a task on its Connection.                                      *)

(* What remains to be seen for a step of a task: that its own Connection   *)
(* stays sound, and that it loses no socket but those that are closed.     *)
LEMMA PollStep ==
  ASSUME Inv, NEW i \in Conns,
         conn' = [conn EXCEPT ![i] = conn'[i]], poller' = [poller EXCEPT ![i] = poller'[i]],
         conn'[i] \in ConnType, poller'[i] \in PollerType,
         ConnSound(conn[i], poller[i])', poller'[i].at # "none",
         UNCHANGED <<main, adder, active, broken>>,
         alive' \in BOOLEAN, alive' => alive,
         inbox' \in [Sockets -> 0 .. MaxMsgs],
         socket' \in [Sockets -> {"new", "open", "closed"}],
         \A s \in Sockets : InSlots(conn'[i].slots, s) => InSlots(conn[i].slots, s),
         \A s \in Sockets : socket'[s] # "closed" =>
           socket'[s] = socket[s] /\ (InSlots(conn[i].slots, s) => InSlots(conn'[i].slots, s))
  PROVE  Inv'
<1>1. Types'
  BY DEF Inv, Types
<1>2. \A k \in Conns : k # i => conn'[k] = conn[k] /\ poller'[k] = poller[k]
  BY DEF Inv, Types
<1>3. ASSUME NEW k \in Conns
      PROVE  ConnSound(conn[k], poller[k])'
  <2>1. CASE k = i
    BY <2>1
  <2>2. CASE k # i
    BY <1>2, <2>2 DEF Inv, ConnSound, SlotCount, TaskSound, UsersSound, LifeSound
  <2> QED
    BY <2>1, <2>2
<1>4. \A k \in Conns, s \in Sockets : InSlots(conn'[k].slots, s) => InSlots(conn[k].slots, s)
  BY <1>2
<1>5. ASSUME NEW s \in Sockets
      PROVE  SocketSound(s)'
  <2>1. SocketSound(s) /\ active[KeyOf[s]] \in {0} \cup Conns
    BY ConnectionConstants DEF Inv, Types
  <2>2. ASSUME socket'[s] = "open", adder'[s] = "done"
        PROVE  active'[KeyOf[s]] # 0 /\ InSlots(conn'[active'[KeyOf[s]]].slots, s)
    BY <1>2, <2>1, <2>2 DEF SocketSound
  <2>3. socket'[s] = "new" => adder'[s] = "none"
    BY <2>1 DEF SocketSound
  <2> QED
    BY <1>4, <2>1, <2>2, <2>3 DEF SocketSound
<1>6. ASSUME NEW k \in Keys
      PROVE  KeySound(k)'
  BY <1>2 DEF Inv, KeySound, Types
<1> QED
  BY <1>1, <1>3, <1>5, <1>6 DEF Inv

(* What is known of a Connection and its task.                             *)
LEMMA ConnKnown ==
  ASSUME Inv, NEW i \in Conns
  PROVE  /\ conn[i] \in ConnType /\ poller[i] \in PollerType
         /\ ConnSound(conn[i], poller[i]) /\ SlotsSound(conn[i].slots)
         /\ conn[i].slots \in Seq(SlotType)
         /\ Len(conn[i].slots) \in Nat /\ Len(conn[i].slots) <= Cardinality(Sockets)
         /\ DOMAIN conn[i].slots = 1 .. Len(conn[i].slots)
         /\ conn[i].users \in Nat /\ conn[i].inMsgs \in Int /\ conn[i].next \in Nat
         /\ poller[i].closed \in Nat
<1>1. conn[i] \in ConnType /\ poller[i] \in PollerType /\ ConnSound(conn[i], poller[i])
  BY DEF Inv, Types
<1>2. SlotsSound(conn[i].slots) /\ Len(conn[i].slots) <= Cardinality(Sockets)
  BY <1>1 DEF ConnSound, SlotCount
<1>3. conn[i].slots \in Seq(SlotType) /\ conn[i].users \in Nat /\ conn[i].next \in Nat
  BY <1>1 DEF ConnType
<1>4. conn[i].inMsgs \in Int
  <2>1. Cardinality(Sockets) \in Nat
    BY ConnectionConstants, FS_CardinalityType
  <2> QED
    BY <1>1, <2>1 DEF ConnType
<1>5. poller[i].closed \in Nat
  BY <1>1 DEF PollerType
<1> QED
  BY <1>1, <1>2, <1>3, <1>4, <1>5, LenProperties

(* The task's turn begins.                                                 *)
LEMMA BeginSound ==
  ASSUME Inv, NEW i \in Conns, Begin(i)
  PROVE  Inv'
<1>1. /\ UNCHANGED <<alive, main, adder, active, broken, inbox, socket, conn>>
      /\ main # "end" /\ poller[i].at = "queued"
  BY DEF Begin, OnlyPolling, mainVars, clientVars
<1>2. ConnSound(conn[i], poller[i]) /\ conn[i] \in ConnType
  BY ConnKnown
<1>3. poller'[i] = [NotRun EXCEPT !.at = IF alive THEN "poll" ELSE "gone"]
  BY DEF Begin, Inv, Types
<1>4. /\ poller'[i] \in PollerType /\ poller'[i].closed = 0
      /\ poller'[i].at = IF alive THEN "poll" ELSE "gone"
  BY <1>3, ConnectionConstants DEF NotRun, PollerType
<1>5. poller' = [poller EXCEPT ![i] = poller'[i]] /\ conn' = [conn EXCEPT ![i] = conn'[i]]
  BY <1>1, <1>3 DEF Begin, Inv, Types
<1>6. ConnSound(conn[i], poller[i])'
  <2>1. SlotCount(conn[i])'
    BY <1>1, <1>2 DEF ConnSound, SlotCount
  <2>2. TaskSound(conn[i], poller[i])'
    BY <1>1, <1>2, <1>4 DEF ConnSound, TaskSound
  <2>3. UsersSound(conn[i], poller[i])'
    BY <1>1, <1>2, <1>4 DEF ConnSound, UsersSound, Owed
  <2>4. LifeSound(conn[i], poller[i])'
    BY <1>1, <1>2, <1>4 DEF ConnSound, LifeSound
  <2> QED
    BY <2>1, <2>2, <2>3, <2>4 DEF ConnSound
<1> QED
  BY <1>1, <1>2, <1>4, <1>5, <1>6, PollStep DEF Inv, Types

(* poll marks the slots that have an event, if none is left to visit.      *)
LEMMA AskForEventsSound ==
  ASSUME Inv, NEW i \in Conns, AskForEvents(i)
  PROVE  Inv'
<1> DEFINE marked == [j \in DOMAIN conn[i].slots |->
                        [conn[i].slots[j] EXCEPT !.event = EventOf(conn[i].slots[j].socket)]]
           count == Cardinality({j \in DOMAIN marked : marked[j].event # "none"})
<1>1. /\ UNCHANGED <<alive, main, adder, active, broken, inbox, socket>>
      /\ poller[i].at = "poll" /\ poller' = [poller EXCEPT ![i].at = "scan"]
  BY DEF AskForEvents, OnlyPolling, mainVars, clientVars
<1>2. /\ ConnSound(conn[i], poller[i]) /\ conn[i] \in ConnType /\ SlotsSound(conn[i].slots)
      /\ conn[i].slots \in Seq(SlotType) /\ poller[i] \in PollerType
      /\ DOMAIN conn[i].slots = 1 .. Len(conn[i].slots) /\ Len(conn[i].slots) \in Nat
      /\ Len(conn[i].slots) <= Cardinality(Sockets) /\ conn[i].inMsgs \in Int
  BY ConnKnown
<1>3. /\ poller'[i] \in PollerType /\ poller'[i].at = "scan"
      /\ poller'[i].closed = poller[i].closed /\ poller' = [poller EXCEPT ![i] = poller'[i]]
  BY <1>1, <1>2 DEF PollerType, Inv, Types
<1>4. Owed(poller'[i]) = Owed(poller[i])
  BY <1>1, <1>3 DEF Owed
<1>5. /\ conn' = [conn EXCEPT ![i] = conn'[i]] /\ conn'[i] \in ConnType
      /\ SlotCount(conn'[i]) /\ Len(conn'[i].slots) = Len(conn[i].slots)
      /\ Occupied(conn'[i].slots) = Occupied(conn[i].slots)
      /\ conn'[i].users = conn[i].users /\ conn'[i].alive = conn[i].alive
      /\ \A s \in Sockets : InSlots(conn'[i].slots, s) <=> InSlots(conn[i].slots, s)
  <2>1. CASE conn[i].inMsgs >= 0
    <3>1. conn' = conn
      BY <2>1 DEF AskForEvents
    <3> QED
      BY <1>2, <3>1 DEF Inv, Types, ConnSound
  <2>2. CASE ~(conn[i].inMsgs >= 0)
    <3>1. conn' = [conn EXCEPT ![i].slots = marked, ![i].inMsgs = count]
      BY <2>2 DEF AskForEvents
    <3>2. \A j \in DOMAIN conn[i].slots :
            /\ marked[j] \in SlotType /\ marked[j].socket = conn[i].slots[j].socket
            /\ marked[j].event # "none" => marked[j].socket # NoSocket
      <4> SUFFICES ASSUME NEW j \in DOMAIN conn[i].slots
                   PROVE  /\ marked[j] \in SlotType
                          /\ marked[j].socket = conn[i].slots[j].socket
                          /\ marked[j].event # "none" => marked[j].socket # NoSocket
        OBVIOUS
      <4>1. conn[i].slots[j] \in SlotType
        BY <1>2, ElementOfSeq
      <4>2. /\ EventOf(conn[i].slots[j].socket) \in Events
            /\ EventOf(conn[i].slots[j].socket) # "none" => conn[i].slots[j].socket # NoSocket
        BY DEF EventOf, Events
      <4> QED
        BY <4>1, <4>2 DEF SlotType
    <3>3. marked \in [1 .. Len(conn[i].slots) -> SlotType]
      BY <1>2, <3>2
    <3> HIDE DEF marked
    <3>4. marked \in Seq(SlotType) /\ Len(marked) = Len(conn[i].slots)
      BY <1>2, <3>3, SlotsAre
    <3>5. /\ SlotsSound(marked) /\ Occupied(marked) = Occupied(conn[i].slots)
          /\ \A s \in Sockets : InSlots(marked, s) <=> InSlots(conn[i].slots, s)
      BY <1>2, <3>2, <3>4, MarkedSlots
    <3>6. /\ count = Cardinality(Marked(marked)) /\ count \in Nat
          /\ count <= Len(conn[i].slots)
      BY <3>4, SlotsFinite DEF Marked
    <3> HIDE DEF count
    <3>7. conn'[i] = [conn[i] EXCEPT !.slots = marked, !.inMsgs = count]
      BY <3>1 DEF Inv, Types
    <3>8. /\ conn'[i].slots = marked /\ conn'[i].inMsgs = count
          /\ conn'[i].users = conn[i].users /\ conn'[i].alive = conn[i].alive
      BY <1>2, <3>7 DEF ConnType
    <3>9. Cardinality(Sockets) \in Nat
      BY ConnectionConstants, FS_CardinalityType
    <3>10. count \in -1 .. Cardinality(Sockets)
      BY <1>2, <3>6, <3>9
    <3>11. conn'[i] \in ConnType
      BY <1>2, <3>4, <3>7, <3>10 DEF ConnType
    <3>12. SlotCount(conn'[i])
      BY <1>2, <3>4, <3>5, <3>6, <3>8 DEF SlotCount
    <3>13. conn' = [conn EXCEPT ![i] = conn'[i]]
      BY <3>1 DEF Inv, Types
    <3> QED
      BY <3>4, <3>5, <3>8, <3>11, <3>12, <3>13
  <2> QED
    BY <2>1, <2>2
<1>6. ConnSound(conn[i], poller[i])'
  <2>1. SlotCount(conn[i])'
    BY <1>5 DEF SlotCount
  <2>2. TaskSound(conn[i], poller[i])'
    BY <1>1, <1>2, <1>3, <1>5 DEF ConnSound, TaskSound
  <2>3. UsersSound(conn[i], poller[i])'
    BY <1>2, <1>4, <1>5 DEF ConnSound, UsersSound
  <2>4. LifeSound(conn[i], poller[i])'
    BY <1>1, <1>2, <1>3, <1>5 DEF ConnSound, LifeSound
  <2> QED
    BY <2>1, <2>2, <2>3, <2>4 DEF ConnSound
<1> QED
  BY <1>1, <1>3, <1>5, <1>6, PollStep DEF Inv, Types

(* poll fails: all sockets of the Connection are closed.                   *)
LEMMA PollFailsSound ==
  ASSUME Inv, NEW i \in Conns, PollFails(i)
  PROVE  Inv'
<1> DEFINE slots == conn[i].slots
           open  == {slots[j].socket : j \in DOMAIN slots} \ {NoSocket}
           new   == [j \in DOMAIN slots |-> Slot(NoSocket)]
<1>1. /\ UNCHANGED <<alive, main, adder, active, broken, inbox>>
      /\ poller[i].at = "poll"
      /\ poller' = [poller EXCEPT ![i].at = "scan", ![i].closed = @ + Cardinality(open)]
      /\ socket' = [s \in Sockets |-> IF s \in open THEN "closed" ELSE socket[s]]
      /\ conn' = [conn EXCEPT ![i].inMsgs = 0, ![i].slots = new]
  BY DEF PollFails, mainVars, clientVars
<1>2. /\ ConnSound(conn[i], poller[i]) /\ conn[i] \in ConnType /\ SlotsSound(slots)
      /\ slots \in Seq(SlotType) /\ poller[i] \in PollerType
      /\ DOMAIN slots = 1 .. Len(slots) /\ Len(slots) \in Nat
      /\ Len(slots) <= Cardinality(Sockets) /\ conn[i].users \in Nat /\ poller[i].closed \in Nat
  BY ConnKnown
<1>3. IsFiniteSet(open) /\ Cardinality(open) \in Nat
  <2>1. \A j \in DOMAIN slots : slots[j] \in SlotType
    BY <1>2, ElementOfSeq
  <2>2. open \subseteq Sockets
    BY <2>1 DEF SlotType
  <2> HIDE DEF open
  <2> QED
    BY <2>2, ConnectionConstants, FS_Subset, FS_CardinalityType
<1>4. Cardinality(open) > 0 => Cardinality(Occupied(slots)) > 0
  <2>1. ASSUME Occupied(slots) = {}
        PROVE  open = {}
    BY <2>1 DEF Occupied
  <2> HIDE DEF open, slots
  <2> QED
    BY <1>2, <1>3, <2>1, SlotsFinite, FS_EmptySet
<1>5. /\ new \in Seq(SlotType) /\ Len(new) = Len(slots) /\ SlotsSound(new)
      /\ Cardinality(Occupied(new)) = 0 /\ Cardinality(Marked(new)) = 0
      /\ \A s \in Sockets : ~InSlots(new, s)
  <2>1. Slot(NoSocket) \in SlotType
    BY DEF Slot, SlotType, Events
  <2>2. new \in [1 .. Len(slots) -> SlotType]
    BY <1>2, <2>1
  <2>3. \A j \in DOMAIN new : new[j].socket = NoSocket /\ new[j].event = "none"
    BY DEF Slot
  <2> HIDE DEF new
  <2>4. new \in Seq(SlotType) /\ Len(new) = Len(slots)
    BY <1>2, <2>2, SlotsAre
  <2>5. SlotsSound(new)
    BY <2>3 DEF SlotsSound
  <2>6. Occupied(new) = {} /\ Marked(new) = {}
    BY <2>3 DEF Occupied, Marked
  <2>7. \A s \in Sockets : ~InSlots(new, s)
    BY <2>3, ConnectionConstants DEF InSlots
  <2> QED
    BY <2>4, <2>5, <2>6, <2>7, FS_EmptySet
<1>6. \A s \in Sockets : InSlots(slots, s) => s \in open
  BY ConnectionConstants DEF InSlots
<1> HIDE DEF open, new, slots
<1>7. /\ poller' = [poller EXCEPT ![i] = poller'[i]] /\ poller'[i] \in PollerType
      /\ poller'[i].at = "scan" /\ poller'[i].closed = poller[i].closed + Cardinality(open)
  <2>1. poller'[i] = [poller[i] EXCEPT !.at = "scan", !.closed = @ + Cardinality(open)]
    BY <1>1 DEF Inv, Types
  <2>2. poller' = [poller EXCEPT ![i] = poller'[i]]
    BY <1>1, <2>1 DEF Inv, Types
  <2>3. poller[i].closed + Cardinality(open) \in Nat
    BY <1>2, <1>3
  <2> QED
    BY <1>2, <2>1, <2>2, <2>3 DEF PollerType
<1>8. /\ conn' = [conn EXCEPT ![i] = conn'[i]] /\ conn'[i] \in ConnType
      /\ conn'[i].inMsgs = 0 /\ conn'[i].slots = new
      /\ conn'[i].users = conn[i].users /\ conn'[i].alive = conn[i].alive
  <2>1. conn'[i] = [conn[i] EXCEPT !.inMsgs = 0, !.slots = new]
    BY <1>1 DEF Inv, Types
  <2>2. conn' = [conn EXCEPT ![i] = conn'[i]]
    BY <1>1, <2>1 DEF Inv, Types
  <2>3. 0 \in -1 .. Cardinality(Sockets)
    BY ConnectionConstants, FS_CardinalityType
  <2> QED
    BY <1>2, <1>5, <2>1, <2>2, <2>3 DEF ConnType
<1>9. ConnSound(conn[i], poller[i])'
  <2>1. SlotCount(conn[i])'
    BY <1>2, <1>5, <1>8 DEF SlotCount
  <2>2. TaskSound(conn[i], poller[i])'
    <3>1. Len(slots) > 0
      BY <1>1, <1>2 DEF ConnSound, TaskSound, slots
    <3> QED
      BY <1>5, <1>7, <1>8, <3>1 DEF TaskSound
  <2>3. UsersSound(conn[i], poller[i])'
    <3>1. conn[i].alive => Cardinality(Occupied(slots)) + Owed(poller[i]) <= conn[i].users
      BY <1>2 DEF ConnSound, UsersSound, slots
    <3>2. Cardinality(Occupied(slots)) \in Nat
      BY <1>2, SlotsFinite
    <3>3. Owed(poller[i]) = IF poller[i].closed > 0 THEN 1 ELSE 0
      BY <1>1 DEF Owed
    <3>4. Owed(poller'[i]) = IF poller'[i].closed > 0 THEN 1 ELSE 0
      BY <1>7 DEF Owed
    <3>5. conn[i].alive => Owed(poller'[i]) <= conn[i].users
      BY <1>2, <1>3, <1>4, <1>7, <3>1, <3>2, <3>3, <3>4
    <3> QED
      BY <1>2, <1>5, <1>8, <3>4, <3>5 DEF UsersSound
  <2>4. LifeSound(conn[i], poller[i])'
    BY <1>1, <1>2, <1>7, <1>8 DEF ConnSound, LifeSound
  <2> QED
    BY <2>1, <2>2, <2>3, <2>4 DEF ConnSound
<1>10. /\ socket' \in [Sockets -> {"new", "open", "closed"}]
       /\ \A s \in Sockets : socket'[s] # "closed" => socket'[s] = socket[s] /\ s \notin open
  BY <1>1 DEF Inv, Types
<1>11. \A s \in Sockets : /\ InSlots(conn'[i].slots, s) => InSlots(conn[i].slots, s)
                          /\ socket'[s] # "closed" =>
                               socket'[s] = socket[s] /\ ~InSlots(conn[i].slots, s)
  BY <1>5, <1>6, <1>8, <1>10 DEF slots
<1> QED
  BY <1>1, <1>7, <1>8, <1>9, <1>10, <1>11, PollStep DEF Inv, Types

(* A socket of slot j is closed in the task's turn, and a user is owed.    *)
LEMMA ClosedSlotSound ==
  ASSUME Inv, NEW i \in Conns, NEW j \in DOMAIN conn[i].slots,
         conn[i].slots[j].socket # NoSocket,
         conn' = [conn EXCEPT ![i] = conn'[i]], poller' = [poller EXCEPT ![i] = poller'[i]],
         conn'[i].alive = conn[i].alive, conn'[i].users = conn[i].users,
         conn'[i].slots = Cleared(i, j), conn'[i].next \in Nat,
         conn'[i] = [conn[i] EXCEPT !.slots = conn'[i].slots, !.inMsgs = conn'[i].inMsgs,
                                    !.next = conn'[i].next],
         \/ conn'[i].inMsgs = conn[i].inMsgs /\ conn[i].slots[j].event = "none"
         \/ /\ conn'[i].inMsgs = conn[i].inMsgs - 1 /\ conn[i].inMsgs > 0
            /\ conn[i].slots[j].event # "none",
         poller[i].at \in {"poll", "scan", "serve", "send", "ping"},
         poller'[i] \in PollerType, poller'[i].at \in {"poll", "scan"},
         poller'[i].closed = poller[i].closed + 1,
         UNCHANGED <<main, alive, adder, active, broken>>,
         inbox' \in [Sockets -> 0 .. MaxMsgs],
         socket' = [socket EXCEPT ![conn[i].slots[j].socket] = "closed"]
  PROVE  Inv'
<1> DEFINE slots == conn[i].slots
           new   == Cleared(i, j)
<1>1. /\ ConnSound(conn[i], poller[i]) /\ conn[i] \in ConnType /\ SlotsSound(slots)
      /\ slots \in Seq(SlotType) /\ DOMAIN slots = 1 .. Len(slots) /\ Len(slots) \in Nat
      /\ Len(slots) <= Cardinality(Sockets) /\ conn[i].users \in Nat
      /\ conn[i].inMsgs \in Int /\ poller[i].closed \in Nat
  BY ConnKnown
<1>2. /\ new \in Seq(SlotType) /\ Len(new) = Len(slots) /\ SlotsSound(new)
      /\ Occupied(new) = Occupied(slots) \ {j} /\ Marked(new) = Marked(slots) \ {j}
      /\ \A s \in Sockets : InSlots(new, s) <=> InSlots(slots, s) /\ slots[j].socket # s
  <2>1. new = Emptied(slots, j)
    BY DEF Cleared, Emptied
  <2>2. j \in DOMAIN slots /\ slots \in Seq(SlotType) /\ SlotsSound(slots)
    BY <1>1
  <2> HIDE DEF new, slots
  <2> QED
    BY <2>1, <2>2, ClearedSlots
<1>3. /\ Cardinality(Occupied(new)) = Cardinality(Occupied(slots)) - 1
      /\ Cardinality(Occupied(slots)) \in Nat
  <2>1. j \in Occupied(slots)
    BY DEF Occupied
  <2>2. IsFiniteSet(Occupied(slots)) /\ Cardinality(Occupied(slots)) \in Nat
    BY <1>1, SlotsFinite
  <2>3. Cardinality(Occupied(slots) \ {j}) = Cardinality(Occupied(slots)) - 1
    BY <2>1, <2>2, FS_RemoveElement, Zenon
  <2> QED
    BY <1>2, <2>2, <2>3
<1>4. /\ Cardinality(Marked(new)) = IF slots[j].event = "none" THEN Cardinality(Marked(slots))
                                                              ELSE Cardinality(Marked(slots)) - 1
      /\ Cardinality(Marked(slots)) \in Nat
  <2>1. CASE slots[j].event = "none"
    <3>1. Marked(new) = Marked(slots)
      BY <1>2, <2>1 DEF Marked
    <3> QED
      BY <1>1, <2>1, <3>1, SlotsFinite
  <2>2. CASE slots[j].event # "none"
    <3>1. j \in Marked(slots)
      BY <2>2 DEF Marked
    <3>2. IsFiniteSet(Marked(slots)) /\ Cardinality(Marked(slots)) \in Nat
      BY <1>1, SlotsFinite
    <3>3. Cardinality(Marked(slots) \ {j}) = Cardinality(Marked(slots)) - 1
      BY <3>1, <3>2, FS_RemoveElement, Zenon
    <3> QED
      BY <1>2, <2>2, <3>2, <3>3
  <2> QED
    BY <2>1, <2>2
<1>5. slots[j].socket \in Sockets
  <2>1. slots[j] \in SlotType
    BY <1>1, ElementOfSeq
  <2> QED
    BY <2>1 DEF SlotType
<1> HIDE DEF new
<1>6. conn'[i].slots = new
  BY DEF new
<1>7. /\ conn'[i].inMsgs \in -1 .. Cardinality(Sockets)
      /\ Cardinality(Marked(new)) = IF conn'[i].inMsgs > 0 THEN conn'[i].inMsgs ELSE 0
  <2>1. Cardinality(Marked(slots)) = IF conn[i].inMsgs > 0 THEN conn[i].inMsgs ELSE 0
    BY <1>1 DEF ConnSound, SlotCount
  <2>2. conn[i].inMsgs \in -1 .. Cardinality(Sockets) /\ Cardinality(Sockets) \in Nat
    BY <1>1, ConnectionConstants, FS_CardinalityType DEF ConnType
  <2> QED
    BY <1>1, <1>4, <2>1, <2>2
<1>8. conn'[i] \in ConnType
  BY <1>1, <1>2, <1>6, <1>7 DEF ConnType
<1>9. ConnSound(conn[i], poller[i])'
  <2>1. SlotCount(conn[i])'
    BY <1>1, <1>2, <1>6, <1>7 DEF SlotCount
  <2>2. TaskSound(conn[i], poller[i])'
    <3>1. Len(slots) > 0
      BY <1>1
    <3> QED
      BY <1>2, <1>6, <3>1 DEF TaskSound
  <2>3. UsersSound(conn[i], poller[i])'
    <3>1. conn[i].alive => Cardinality(Occupied(slots)) + Owed(poller[i]) <= conn[i].users
      BY <1>1 DEF ConnSound, UsersSound
    <3>2. Owed(poller[i]) \in {0, 1} /\ Owed(poller'[i]) = 1
      BY <1>1 DEF Owed
    <3> QED
      BY <1>1, <1>3, <1>6, <3>1, <3>2 DEF UsersSound
  <2>4. LifeSound(conn[i], poller[i])'
    BY <1>1 DEF ConnSound, LifeSound
  <2> QED
    BY <2>1, <2>2, <2>3, <2>4 DEF ConnSound
<1>10. /\ socket' \in [Sockets -> {"new", "open", "closed"}]
       /\ \A s \in Sockets : socket'[s] # "closed" =>
            socket'[s] = socket[s] /\ s # slots[j].socket
  BY <1>5 DEF Inv, Types
<1>11. \A s \in Sockets :
         /\ InSlots(conn'[i].slots, s) => InSlots(conn[i].slots, s)
         /\ socket'[s] # "closed" =>
              socket'[s] = socket[s] /\ (InSlots(conn[i].slots, s) => InSlots(conn'[i].slots, s))
  BY <1>2, <1>6, <1>10
<1> QED
  BY <1>8, <1>9, <1>10, <1>11, PollStep DEF Inv, Types

(* _nextSocket is taken modulo the number of slots.                        *)
LEMMA ModBound ==
  \A n \in Nat, l \in Nat : l > 0 => n % l \in 0 .. l - 1
OBVIOUS

(* The next slot is visited.                                               *)
LEMMA VisitSound ==
  ASSUME Inv, NEW i \in Conns, Visit(i)
  PROVE  Inv'
<1> DEFINE slots == conn[i].slots
           j == 1 + (conn[i].next % Len(slots))
<1>1. /\ UNCHANGED <<alive, main, adder, active, broken, inbox>>
      /\ poller[i].at = "scan" /\ conn[i].inMsgs > 0
  BY Zenon DEF Visit, OnlyPolling, mainVars, clientVars
<1>2. /\ ConnSound(conn[i], poller[i]) /\ conn[i] \in ConnType /\ SlotsSound(slots)
      /\ slots \in Seq(SlotType) /\ poller[i] \in PollerType
      /\ DOMAIN slots = 1 .. Len(slots) /\ Len(slots) \in Nat
      /\ Len(slots) <= Cardinality(Sockets) /\ conn[i].users \in Nat
      /\ conn[i].next \in Nat /\ conn[i].inMsgs \in Int /\ poller[i].closed \in Nat
  BY ConnKnown
<1>3. Len(slots) > 0
  BY <1>1, <1>2 DEF ConnSound, TaskSound
<1>4. j \in 1 .. Len(slots) /\ j \in Nat
  <2>1. PICK m \in 0 .. Len(slots) - 1 : j = 1 + m
    BY <1>2, <1>3, ModBound
  <2> HIDE DEF j
  <2> QED
    BY <1>2, <1>3, <2>1
<1> HIDE DEF j
<1>5. slots[j] \in SlotType /\ slots[j].event \in {"none", "in", "error"}
  <2>1. slots[j] \in SlotType
    BY <1>2, <1>4, ElementOfSeq
  <2> QED
    BY <2>1 DEF SlotType, Events
<1>6. slots[j].event # "none" => slots[j].socket # NoSocket
  BY <1>2, <1>4 DEF SlotsSound
<1>7. CASE slots[j].event = "none"
  <2>1. conn' = [conn EXCEPT ![i].next = j] /\ UNCHANGED <<socket, poller>>
    BY <1>7 DEF Visit, j
  <2>2. conn'[i] = [conn[i] EXCEPT !.next = j] /\ conn' = [conn EXCEPT ![i] = conn'[i]]
    BY <2>1 DEF Inv, Types
  <2>3. /\ conn'[i] \in ConnType /\ conn'[i].slots = slots /\ conn'[i].inMsgs = conn[i].inMsgs
        /\ conn'[i].users = conn[i].users /\ conn'[i].alive = conn[i].alive
    BY <1>2, <1>4, <2>2 DEF ConnType
  <2>4. ConnSound(conn[i], poller[i])'
    <3>1. SlotCount(conn[i])' /\ UsersSound(conn[i], poller[i])' /\ LifeSound(conn[i], poller[i])'
      BY <1>1, <1>2, <2>1, <2>3 DEF ConnSound, SlotCount, UsersSound, LifeSound
    <3>2. TaskSound(conn[i], poller[i])'
      BY <1>1, <1>3, <2>1, <2>3 DEF TaskSound
    <3> QED
      BY <3>1, <3>2 DEF ConnSound
  <2>5. poller' = [poller EXCEPT ![i] = poller'[i]] /\ poller'[i].at # "none"
    BY <1>1, <2>1 DEF Inv, Types
  <2> QED
    BY <1>1, <1>2, <2>1, <2>2, <2>3, <2>4, <2>5, PollStep DEF Inv, Types
<1>8. CASE slots[j].event = "in"
  <2> DEFINE new == [slots EXCEPT ![j].event = "none"]
  <2>1. /\ conn' = [conn EXCEPT ![i].next = j, ![i].inMsgs = @ - 1, ![i].slots[j].event = "none"]
        /\ poller' = [poller EXCEPT ![i].at = "serve", ![i].socket = slots[j].socket]
        /\ UNCHANGED socket
    BY <1>8 DEF Visit, j
  <2>2. /\ poller'[i] = [poller[i] EXCEPT !.at = "serve", !.socket = slots[j].socket]
        /\ poller' = [poller EXCEPT ![i] = poller'[i]]
    BY <2>1 DEF Inv, Types
  <2>3. /\ poller'[i] \in PollerType /\ poller'[i].at = "serve"
        /\ poller'[i].socket = slots[j].socket /\ poller'[i].closed = poller[i].closed
    BY <1>2, <1>5, <2>2 DEF PollerType, SlotType
  <2>4. /\ conn'[i] = [conn[i] EXCEPT !.next = j, !.inMsgs = @ - 1, !.slots = new]
        /\ conn' = [conn EXCEPT ![i] = conn'[i]]
    BY <2>1 DEF Inv, Types
  <2>5. /\ new[j].event = "none" /\ new[j].socket = slots[j].socket
        /\ \A k \in DOMAIN slots : k # j => new[k] = slots[k]
        /\ new \in Seq(SlotType) /\ Len(new) = Len(slots)
    <3>1. [slots[j] EXCEPT !.event = "none"] \in SlotType
      BY <1>5 DEF SlotType, Events
    <3>2. slots \in [1 .. Len(slots) -> SlotType]
      BY <1>2, LenProperties
    <3>3. new \in [1 .. Len(slots) -> SlotType]
      BY <1>4, <3>1, <3>2
    <3>4. new[j] = [slots[j] EXCEPT !.event = "none"]
      BY <1>4, <3>2
    <3>5. new[j].event = "none" /\ new[j].socket = slots[j].socket
      BY <1>5, <3>4 DEF SlotType
    <3>6. \A k \in DOMAIN slots : k # j => new[k] = slots[k]
      BY <1>2, <3>2
    <3> HIDE DEF new
    <3> QED
      BY <1>2, <3>3, <3>5, <3>6, SlotsAre
  <2> HIDE DEF new
  <2>6. /\ DOMAIN new = DOMAIN slots /\ SlotsSound(new) /\ Occupied(new) = Occupied(slots)
        /\ \A s \in Sockets : InSlots(new, s) <=> InSlots(slots, s)
    <3>1. \A k \in DOMAIN slots : /\ new[k].socket = slots[k].socket
                                  /\ new[k].event # "none" => new[k].socket # NoSocket
      BY <1>2, <2>5 DEF SlotsSound
    <3> QED
      BY <1>2, <2>5, <3>1, MarkedSlots
  <2>7. /\ Cardinality(Marked(new)) = Cardinality(Marked(slots)) - 1
        /\ Cardinality(Marked(slots)) \in Nat
    <3>1. Marked(new) = Marked(slots) \ {j} /\ j \in Marked(slots)
      BY <1>2, <1>4, <1>8, <2>5, <2>6 DEF Marked
    <3>2. IsFiniteSet(Marked(slots)) /\ Cardinality(Marked(slots)) \in Nat
      BY <1>2, SlotsFinite
    <3>3. Cardinality(Marked(slots) \ {j}) = Cardinality(Marked(slots)) - 1
      BY <3>1, <3>2, FS_RemoveElement, Zenon
    <3> QED
      BY <3>1, <3>2, <3>3
  <2>8. /\ conn'[i].slots = new /\ conn'[i].inMsgs = conn[i].inMsgs - 1
        /\ conn'[i].users = conn[i].users /\ conn'[i].alive = conn[i].alive
    BY <1>2, <2>4 DEF ConnType
  <2>9. conn'[i] \in ConnType
    <3>1. conn[i].inMsgs - 1 \in -1 .. Cardinality(Sockets)
      <4>1. Cardinality(Sockets) \in Nat /\ conn[i].inMsgs \in -1 .. Cardinality(Sockets)
        BY <1>2, ConnectionConstants, FS_CardinalityType DEF ConnType
      <4> QED
        BY <1>1, <4>1
    <3> QED
      BY <1>2, <1>4, <2>4, <2>5, <3>1 DEF ConnType
  <2>10. ConnSound(conn[i], poller[i])'
    <3>1. SlotCount(conn[i])'
      <4>1. Cardinality(Marked(slots)) = conn[i].inMsgs
        BY <1>1, <1>2 DEF ConnSound, SlotCount
      <4> QED
        BY <1>1, <1>2, <2>5, <2>6, <2>7, <2>8, <4>1 DEF SlotCount
    <3>2. TaskSound(conn[i], poller[i])'
      <4>1. InSlots(new, slots[j].socket)
        BY <1>2, <1>4, <2>5, <2>6 DEF InSlots
      <4>2. \A k \in DOMAIN new : new[k].socket = slots[j].socket => new[k].event = "none"
        BY <1>2, <1>4, <1>6, <1>8, <2>5, <2>6 DEF SlotsSound
      <4> QED
        BY <1>3, <1>6, <1>8, <2>3, <2>5, <2>8, <4>1, <4>2 DEF TaskSound
    <3>3. UsersSound(conn[i], poller[i])'
      BY <1>1, <1>2, <2>3, <2>6, <2>8 DEF ConnSound, UsersSound, Owed
    <3>4. LifeSound(conn[i], poller[i])'
      BY <1>1, <1>2, <2>3, <2>8 DEF ConnSound, LifeSound
    <3> QED
      BY <3>1, <3>2, <3>3, <3>4 DEF ConnSound
  <2>11. \A s \in Sockets : InSlots(conn'[i].slots, s) <=> InSlots(conn[i].slots, s)
    BY <2>6, <2>8
  <2> QED
    <3>1. poller'[i].at # "none"
      BY <2>3
    <3>2. /\ inbox' \in [Sockets -> 0 .. MaxMsgs] /\ alive' \in BOOLEAN
          /\ socket' \in [Sockets -> {"new", "open", "closed"}]
      BY <1>1, <2>1 DEF Inv, Types
    <3> HIDE DEF slots
    <3> QED
      BY <1>1, <2>1, <2>2, <2>3, <2>4, <2>9, <2>10, <2>11, <3>1, <3>2, PollStep
<1>9. CASE slots[j].event = "error"
  <2>1. /\ conn' = [conn EXCEPT ![i].next = j, ![i].inMsgs = @ - 1, ![i].slots = Cleared(i, j)]
        /\ poller' = [poller EXCEPT ![i].closed = @ + 1]
        /\ socket' = [socket EXCEPT ![slots[j].socket] = "closed"]
    BY <1>9 DEF Visit, j
  <2>2. /\ poller'[i] = [poller[i] EXCEPT !.closed = @ + 1]
        /\ poller' = [poller EXCEPT ![i] = poller'[i]]
    BY <2>1 DEF Inv, Types
  <2>3. /\ poller'[i] \in PollerType /\ poller'[i].at = "scan"
        /\ poller'[i].closed = poller[i].closed + 1
    BY <1>1, <1>2, <2>2 DEF PollerType
  <2>4. /\ conn'[i] = [conn[i] EXCEPT !.next = j, !.inMsgs = @ - 1, !.slots = Cleared(i, j)]
        /\ conn' = [conn EXCEPT ![i] = conn'[i]]
    BY <2>1 DEF Inv, Types
  <2>5. /\ conn'[i].slots = Cleared(i, j) /\ conn'[i].inMsgs = conn[i].inMsgs - 1
        /\ conn'[i].users = conn[i].users /\ conn'[i].alive = conn[i].alive
        /\ conn'[i].next = j
    BY <1>2, <2>4 DEF ConnType
  <2>6. conn'[i] = [conn[i] EXCEPT !.slots = conn'[i].slots, !.inMsgs = conn'[i].inMsgs,
                                   !.next = conn'[i].next]
    BY <1>2, <2>4, <2>5 DEF ConnType
  <2> QED
    <3>1. /\ j \in DOMAIN conn[i].slots /\ conn[i].slots[j].socket # NoSocket
          /\ conn[i].slots[j].event # "none"
          /\ socket' = [socket EXCEPT ![conn[i].slots[j].socket] = "closed"]
      BY <1>2, <1>4, <1>6, <1>9, <2>1
    <3>2. conn'[i].next \in Nat /\ inbox' \in [Sockets -> 0 .. MaxMsgs]
      BY <1>1, <1>4, <2>5 DEF Inv, Types
    <3> HIDE DEF slots
    <3> QED
      BY <1>1, <2>2, <2>3, <2>4, <2>5, <2>6, <3>1, <3>2, ClosedSlotSound
<1> QED
  BY <1>5, <1>7, <1>8, <1>9

(* The socket that is being served is closed.                              *)
LEMMA CloseServedSound ==
  ASSUME Inv, NEW i \in Conns, CloseServed(i, "poll"), poller[i].at \in {"serve", "send", "ping"},
         UNCHANGED <<main, alive, adder, active, broken>>, inbox' \in [Sockets -> 0 .. MaxMsgs]
  PROVE  Inv'
<1> DEFINE s == poller[i].socket
           mine == {j \in DOMAIN conn[i].slots : conn[i].slots[j].socket = s}
           j == CHOOSE j \in mine : TRUE
<1>1. /\ ConnSound(conn[i], poller[i]) /\ conn[i] \in ConnType /\ poller[i] \in PollerType
      /\ conn[i].next \in Nat /\ poller[i].closed \in Nat
  BY ConnKnown
<1>2. /\ s # NoSocket /\ InSlots(conn[i].slots, s)
      /\ \A k \in DOMAIN conn[i].slots : conn[i].slots[k].socket = s => conn[i].slots[k].event = "none"
  BY <1>1 DEF ConnSound, TaskSound
<1>3. j \in mine
  BY <1>2 DEF InSlots
<1>4. /\ poller' = [poller EXCEPT ![i].at = "poll", ![i].socket = NoSocket, ![i].closed = @ + 1]
      /\ conn' = [conn EXCEPT ![i].slots = Cleared(i, j)]
      /\ socket' = [socket EXCEPT ![s] = "closed"]
  BY <1>2 DEF CloseServed
<1> HIDE DEF j
<1>5. /\ poller'[i] = [poller[i] EXCEPT !.at = "poll", !.socket = NoSocket, !.closed = @ + 1]
      /\ poller' = [poller EXCEPT ![i] = poller'[i]]
  BY <1>4 DEF Inv, Types
<1>6. /\ poller'[i] \in PollerType /\ poller'[i].at = "poll"
      /\ poller'[i].closed = poller[i].closed + 1
  <2> DEFINE p == poller[i]
             q == poller'[i]
  <2>1. p \in PollerType /\ p.closed + 1 \in Nat
    BY <1>1
  <2>2. q = [p EXCEPT !.at = "poll", !.socket = NoSocket, !.closed = @ + 1]
    BY <1>5
  <2> HIDE DEF p, q
  <2>3. q \in PollerType /\ q.at = "poll" /\ q.closed = p.closed + 1
    BY <2>1, <2>2 DEF PollerType
  <2> QED
    BY <2>3 DEF p, q
<1>7. /\ conn'[i] = [conn[i] EXCEPT !.slots = Cleared(i, j)]
      /\ conn' = [conn EXCEPT ![i] = conn'[i]]
  BY <1>4 DEF Inv, Types
<1>8. /\ conn'[i].slots = Cleared(i, j) /\ conn'[i].inMsgs = conn[i].inMsgs
      /\ conn'[i].users = conn[i].users /\ conn'[i].alive = conn[i].alive
      /\ conn'[i].next = conn[i].next
      /\ conn'[i] = [conn[i] EXCEPT !.slots = conn'[i].slots, !.inMsgs = conn'[i].inMsgs,
                                    !.next = conn'[i].next]
  BY <1>1, <1>7 DEF ConnType
<1>9. /\ j \in DOMAIN conn[i].slots /\ conn[i].slots[j].socket = s
      /\ conn[i].slots[j].event = "none"
  BY <1>2, <1>3
<1> HIDE DEF s
<1>10. /\ conn[i].slots[j].socket # NoSocket
       /\ socket' = [socket EXCEPT ![conn[i].slots[j].socket] = "closed"]
  BY <1>2, <1>4, <1>9
<1>11. /\ poller[i].at \in {"poll", "scan", "serve", "send", "ping"}
       /\ poller'[i].at \in {"poll", "scan"} /\ conn'[i].next \in Nat
  BY <1>1, <1>6, <1>8
<1> QED
  BY <1>5, <1>6, <1>7, <1>8, <1>9, <1>10, <1>11, ClosedSlotSound

(* A step of the task that leaves its Connection alone.                    *)
LEMMA TaskStep ==
  ASSUME Inv, NEW i \in Conns, NEW p \in PollerType,
         poller' = [poller EXCEPT ![i] = p], p.closed = poller[i].closed,
         poller[i].at \in {"serve", "send", "ping"}, p.at \in {"poll", "send", "ping"},
         p.at # "poll" => p.socket = poller[i].socket,
         p.at = "send" => p.blocks > 0,
         UNCHANGED <<main, adder, active, broken, conn, socket>>,
         alive' \in BOOLEAN, alive' => alive, inbox' \in [Sockets -> 0 .. MaxMsgs]
  PROVE  Inv'
<1>1. ConnSound(conn[i], poller[i]) /\ conn[i] \in ConnType
  BY ConnKnown
<1>2. poller'[i] = p
  BY DEF Inv, Types
<1>3. ConnSound(conn[i], poller[i])'
  <2>1. SlotCount(conn[i])'
    BY <1>1 DEF ConnSound, SlotCount
  <2>2. TaskSound(conn[i], poller[i])'
    BY <1>1, <1>2 DEF ConnSound, TaskSound
  <2>3. UsersSound(conn[i], poller[i])'
    BY <1>1, <1>2 DEF ConnSound, UsersSound, Owed
  <2>4. LifeSound(conn[i], poller[i])'
    BY <1>1, <1>2 DEF ConnSound, LifeSound
  <2> QED
    BY <2>1, <2>2, <2>3, <2>4 DEF ConnSound
<1>4. /\ poller' = [poller EXCEPT ![i] = poller'[i]] /\ conn' = [conn EXCEPT ![i] = conn'[i]]
      /\ conn'[i] \in ConnType /\ poller'[i] \in PollerType /\ poller'[i].at # "none"
  BY <1>1, <1>2 DEF Inv, Types
<1> QED
  BY <1>3, <1>4, PollStep DEF Inv, Types

(* A message is received, or the socket is broken.                         *)
LEMMA ServeSound ==
  ASSUME Inv, NEW i \in Conns, Serve(i)
  PROVE  Inv'
<1> DEFINE s == poller[i].socket
<1>1. UNCHANGED <<main, broken, adder, active>> /\ poller[i].at = "serve"
  BY DEF Serve
<1>2. /\ ConnSound(conn[i], poller[i]) /\ poller[i] \in PollerType
      /\ inbox \in [Sockets -> 0 .. MaxMsgs] /\ alive \in BOOLEAN
  BY ConnKnown DEF Inv, Types
<1>3. s \in Sockets
  BY <1>1, <1>2 DEF ConnSound, TaskSound, PollerType
<1>4. CASE s \in broken /\ CloseServed(i, "poll") /\ UNCHANGED <<alive, inbox>>
  BY <1>1, <1>2, <1>4, CloseServedSound
<1>5. CASE inbox[s] > 0 /\ inbox' = [inbox EXCEPT ![s] = @ - 1]
  <2>1. inbox' \in [Sockets -> 0 .. MaxMsgs]
    BY <1>2, <1>3, <1>5, ConnectionConstants
  <2> HIDE DEF s
  <2>2. CASE /\ \E n \in 1 .. MaxBlocks :
                  poller' = [poller EXCEPT ![i].at = "send", ![i].blocks = n]
             /\ UNCHANGED <<alive, conn, socket>>
    <3>1. PICK n \in 1 .. MaxBlocks :
            poller' = [poller EXCEPT ![i].at = "send", ![i].blocks = n]
      BY <2>2
    <3> DEFINE p == [poller[i] EXCEPT !.at = "send", !.blocks = n]
    <3>2. n \in 0 .. MaxBlocks /\ n > 0
      BY <3>1, ConnectionConstants
    <3>3. /\ p \in PollerType /\ p.at = "send" /\ p.blocks > 0 /\ p.closed = poller[i].closed
          /\ p.socket = poller[i].socket
      BY <1>2, <3>2 DEF PollerType
    <3>4. poller' = [poller EXCEPT ![i] = p]
      BY <3>1 DEF Inv, Types
    <3> HIDE DEF p
    <3> QED
      BY <1>1, <1>2, <2>1, <2>2, <3>3, <3>4, TaskStep
  <2>3. CASE poller' = [poller EXCEPT ![i].at = "ping"] /\ UNCHANGED <<alive, conn, socket>>
    <3> DEFINE p == [poller[i] EXCEPT !.at = "ping"]
    <3>1. p \in PollerType /\ p.at = "ping" /\ p.closed = poller[i].closed /\ p.socket = poller[i].socket
      BY <1>2 DEF PollerType
    <3>2. poller' = [poller EXCEPT ![i] = p]
      BY <2>3 DEF Inv, Types
    <3> HIDE DEF p
    <3> QED
      BY <1>1, <1>2, <2>1, <2>3, <3>1, <3>2, TaskStep
  <2>4. CASE CloseServed(i, "poll") /\ UNCHANGED alive
    BY <1>1, <1>2, <2>1, <2>4, CloseServedSound
  <2>5. CASE alive' = FALSE /\ poller' = [poller EXCEPT ![i].at = "poll"] /\ UNCHANGED <<conn, socket>>
    <3> DEFINE p == [poller[i] EXCEPT !.at = "poll"]
    <3>1. p \in PollerType /\ p.at = "poll" /\ p.closed = poller[i].closed
      BY <1>2 DEF PollerType
    <3>2. poller' = [poller EXCEPT ![i] = p]
      BY <2>5 DEF Inv, Types
    <3> HIDE DEF p
    <3> QED
      BY <1>1, <1>2, <2>1, <2>5, <3>1, <3>2, TaskStep
  <2> QED
    BY <1>5, <2>2, <2>3, <2>4, <2>5, Zenon DEF Serve
<1> QED
  BY <1>4, <1>5 DEF Serve

(* An answer is sent, or fails.                                            *)
LEMMA SendAnswerSound ==
  ASSUME Inv, NEW i \in Conns, SendAnswer(i)
  PROVE  Inv'
<1>1. UNCHANGED <<main, alive, adder, active, broken, inbox>> /\ poller[i].at = "send"
  BY DEF SendAnswer, OnlyPolling, mainVars, clientVars
<1>2. /\ ConnSound(conn[i], poller[i]) /\ poller[i] \in PollerType
      /\ inbox \in [Sockets -> 0 .. MaxMsgs] /\ alive \in BOOLEAN
  BY ConnKnown DEF Inv, Types
<1>3. CASE CloseServed(i, "poll")
  BY <1>1, <1>2, <1>3, CloseServedSound
<1>4. CASE /\ poller' = [poller EXCEPT ![i].blocks = @ - 1,
                ![i].at = IF poller[i].blocks = 1 THEN "poll" ELSE "send"]
           /\ UNCHANGED <<conn, socket>>
  <2> DEFINE p == [poller[i] EXCEPT !.blocks = @ - 1,
                     !.at = IF poller[i].blocks = 1 THEN "poll" ELSE "send"]
  <2>1. poller[i].blocks \in 1 .. MaxBlocks
    BY <1>1, <1>2, ConnectionConstants DEF ConnSound, TaskSound, PollerType
  <2>2. poller[i].blocks - 1 \in 0 .. MaxBlocks
    BY <2>1, ConnectionConstants
  <2>3. /\ p \in PollerType /\ p.closed = poller[i].closed /\ p.socket = poller[i].socket
        /\ p.at = IF poller[i].blocks = 1 THEN "poll" ELSE "send"
        /\ p.blocks = poller[i].blocks - 1
    BY <1>2, <2>2 DEF PollerType
  <2>4. poller' = [poller EXCEPT ![i] = p]
    BY <1>4 DEF Inv, Types
  <2> HIDE DEF p
  <2>5. p.at \in {"poll", "send"} /\ (p.at = "send" => p.blocks > 0)
    BY <2>1, <2>3, ConnectionConstants
  <2> QED
    BY <1>1, <1>2, <1>4, <2>3, <2>4, <2>5, TaskStep
<1> QED
  BY <1>3, <1>4 DEF SendAnswer

(* A ping is answered, and the socket closed.                              *)
LEMMA AnswerPingSound ==
  ASSUME Inv, NEW i \in Conns, AnswerPing(i)
  PROVE  Inv'
<1>1. UNCHANGED <<main, alive, adder, active, broken, inbox>> /\ poller[i].at = "ping"
  BY DEF AnswerPing, OnlyPolling, mainVars, clientVars
<1> QED
  BY <1>1, CloseServedSound DEF AnswerPing, Inv, Types

(* All events were seen to: the lock is given back.                        *)
LEMMA UnlockSound ==
  ASSUME Inv, NEW i \in Conns, Unlock(i)
  PROVE  Inv'
<1>1. /\ UNCHANGED <<alive, main, adder, active, broken, inbox, socket>>
      /\ poller[i].at = "scan" /\ conn[i].inMsgs = 0
      /\ conn' = [conn EXCEPT ![i].inMsgs = -1]
      /\ poller' = [poller EXCEPT ![i].at = IF poller[i].closed > 0 THEN "remove" ELSE "queued"]
  BY DEF Unlock, OnlyPolling, mainVars, clientVars
<1>2. /\ ConnSound(conn[i], poller[i]) /\ conn[i] \in ConnType /\ poller[i] \in PollerType
      /\ poller[i].closed \in Nat /\ conn[i].users \in Nat /\ conn[i].slots \in Seq(SlotType)
  BY ConnKnown
<1>3. conn'[i] = [conn[i] EXCEPT !.inMsgs = -1] /\ conn' = [conn EXCEPT ![i] = conn'[i]]
  BY <1>1 DEF Inv, Types
<1>4. -1 \in -1 .. Cardinality(Sockets)
  BY ConnectionConstants, FS_CardinalityType
<1>5. /\ conn'[i] \in ConnType /\ conn'[i].slots = conn[i].slots /\ conn'[i].inMsgs = -1
      /\ conn'[i].users = conn[i].users /\ conn'[i].alive = conn[i].alive
  BY <1>2, <1>3, <1>4 DEF ConnType
<1>6. /\ poller'[i] = [poller[i] EXCEPT !.at = IF poller[i].closed > 0 THEN "remove" ELSE "queued"]
      /\ poller' = [poller EXCEPT ![i] = poller'[i]]
  BY <1>1 DEF Inv, Types
<1>7. /\ poller'[i] \in PollerType /\ poller'[i].closed = poller[i].closed
      /\ poller'[i].at = IF poller[i].closed > 0 THEN "remove" ELSE "queued"
  BY <1>2, <1>6 DEF PollerType
<1>8. ConnSound(conn[i], poller[i])'
  <2>1. SlotCount(conn[i])'
    BY <1>1, <1>2, <1>5 DEF ConnSound, SlotCount
  <2>2. TaskSound(conn[i], poller[i])'
    BY <1>1, <1>2, <1>5, <1>7 DEF ConnSound, TaskSound
  <2>3. UsersSound(conn[i], poller[i])'
    <3>1. Cardinality(Occupied(conn[i].slots)) \in Nat
      BY <1>2, SlotsFinite
    <3>2. Owed(poller[i]) = IF poller[i].closed > 0 THEN 1 ELSE 0
      BY <1>1 DEF Owed
    <3>3. Owed(poller'[i]) = IF poller[i].closed > 0 THEN 1 ELSE 0
      BY <1>7 DEF Owed
    <3> QED
      BY <1>2, <1>5, <3>1, <3>2, <3>3 DEF ConnSound, UsersSound
  <2>4. LifeSound(conn[i], poller[i])'
    BY <1>1, <1>2, <1>5, <1>7 DEF ConnSound, LifeSound
  <2> QED
    BY <2>1, <2>2, <2>3, <2>4 DEF ConnSound
<1>9. poller'[i].at # "none"
  BY <1>7
<1> QED
  BY <1>1, <1>3, <1>5, <1>6, <1>7, <1>8, <1>9, PollStep DEF Inv, Types

(* A user is taken off, and the Connection deleted with its last, when no  *)
(* slot has a socket any more.                                             *)
LEMMA RemoveConnectionSound ==
  ASSUME Inv, NEW i \in Conns, RemoveConnection(i)
  PROVE  Inv'
<1> DEFINE last == conn[i].users = 1
           open == {conn[i].slots[j].socket : j \in DOMAIN conn[i].slots} \ {NoSocket}
<1>1. /\ UNCHANGED <<alive, main, adder, broken, inbox>>
      /\ poller[i].at = "remove" /\ MutexFree
      /\ poller' = [poller EXCEPT ![i].at = IF last THEN "gone" ELSE "queued"]
      /\ conn' = [conn EXCEPT ![i].users = @ - 1, ![i].alive = ~last]
  BY DEF RemoveConnection, mainVars, clientVars
<1>2. /\ ConnSound(conn[i], poller[i]) /\ conn[i] \in ConnType /\ poller[i] \in PollerType
      /\ poller[i].closed \in Nat /\ conn[i].users \in Nat /\ conn[i].slots \in Seq(SlotType)
  BY ConnKnown
<1>3. IsFiniteSet(Occupied(conn[i].slots)) /\ Cardinality(Occupied(conn[i].slots)) \in Nat
  BY <1>2, SlotsFinite
<1>4. conn[i].alive /\ Cardinality(Occupied(conn[i].slots)) + 1 <= conn[i].users
  <2>1. poller[i].closed > 0 /\ main # "end"
    BY <1>1, <1>2 DEF ConnSound, TaskSound, LifeSound
  <2>2. conn[i].alive /\ Owed(poller[i]) = 1
    BY <1>1, <1>2, <2>1 DEF ConnSound, LifeSound, Owed
  <2> QED
    BY <1>2, <2>2 DEF ConnSound, UsersSound
<1>5. /\ conn'[i] = [conn[i] EXCEPT !.users = @ - 1, !.alive = ~last]
      /\ conn' = [conn EXCEPT ![i] = conn'[i]]
  BY <1>1 DEF Inv, Types
<1>6. conn[i].users - 1 \in Nat /\ (~last) \in BOOLEAN
  <2>1. conn[i].users - 1 \in Nat
    BY <1>2, <1>3, <1>4
  <2> HIDE DEF last
  <2> QED
    BY <2>1, Zenon
<1>7. /\ conn'[i] \in ConnType /\ conn'[i].slots = conn[i].slots
      /\ conn'[i].inMsgs = conn[i].inMsgs
      /\ conn'[i].users = conn[i].users - 1 /\ (conn'[i].alive <=> ~last)
  <2> HIDE DEF last
  <2> QED
    BY <1>2, <1>5, <1>6 DEF ConnType
<1>8. /\ poller'[i] = [poller[i] EXCEPT !.at = IF last THEN "gone" ELSE "queued"]
      /\ poller' = [poller EXCEPT ![i] = poller'[i]]
  BY <1>1 DEF Inv, Types
<1>9. /\ poller'[i] \in PollerType /\ poller'[i].at = IF last THEN "gone" ELSE "queued"
  BY <1>2, <1>8 DEF PollerType
<1>10. ConnSound(conn[i], poller[i])'
  <2>1. SlotCount(conn[i])'
    BY <1>2, <1>7 DEF ConnSound, SlotCount
  <2>2. TaskSound(conn[i], poller[i])'
    BY <1>1, <1>2, <1>7, <1>9 DEF ConnSound, TaskSound
  <2>3. UsersSound(conn[i], poller[i])'
    <3>1. Owed(poller'[i]) = 0
      BY <1>9 DEF Owed
    <3> QED
      BY <1>2, <1>3, <1>4, <1>7, <3>1 DEF UsersSound
  <2>4. LifeSound(conn[i], poller[i])'
    BY <1>1, <1>2, <1>7, <1>9 DEF ConnSound, LifeSound
  <2> QED
    BY <2>1, <2>2, <2>3, <2>4 DEF ConnSound
<1>11. CASE ~last
  <2>1. UNCHANGED <<active, socket>>
    BY <1>11 DEF RemoveConnection
  <2>2. poller'[i].at # "none"
    BY <1>9
  <2> HIDE DEF last
  <2> QED
    BY <1>1, <1>5, <1>7, <1>8, <1>9, <1>10, <2>1, <2>2, PollStep DEF Inv, Types
<1>12. CASE last
  <2>1. /\ active' = [k \in Keys |-> IF active[k] = i THEN 0 ELSE active[k]]
        /\ socket' = [s \in Sockets |-> IF s \in open THEN "closed" ELSE socket[s]]
    BY <1>12 DEF RemoveConnection
  <2>2. Occupied(conn[i].slots) = {}
    <3>1. Cardinality(Occupied(conn[i].slots)) = 0
      BY <1>2, <1>3, <1>4, <1>12
    <3> QED
      BY <1>3, <3>1, FS_EmptySet
  <2>3. \A s \in Sockets : ~InSlots(conn[i].slots, s)
    BY <2>2, ConnectionConstants DEF InSlots, Occupied
  <2>4. socket' = socket
    <3>1. open = {}
      BY <2>2 DEF Occupied
    <3> HIDE DEF open
    <3> QED
      BY <2>1, <3>1 DEF Inv, Types
  <2>5. /\ active' \in [Keys -> {0} \cup Conns]
        /\ \A k \in Keys : active'[k] # 0 => active'[k] = active[k] /\ active[k] # i
        /\ \A k \in Keys : active[k] # i => active'[k] = active[k]
    BY <2>1 DEF Inv, Types
  <2> HIDE DEF last, open
  <2>6. \A k \in Conns : k # i => conn'[k] = conn[k] /\ poller'[k] = poller[k]
    BY <1>5, <1>8 DEF Inv, Types
  <2>7. Types'
    BY <1>1, <1>5, <1>7, <1>8, <1>9, <2>4, <2>5 DEF Inv, Types
  <2>8. ASSUME NEW k \in Conns
        PROVE  ConnSound(conn[k], poller[k])'
    <3>1. CASE k # i
      <4>1. ConnSound(conn[k], poller[k]) /\ conn'[k] = conn[k] /\ poller'[k] = poller[k]
        BY <2>6, <3>1 DEF Inv
      <4> QED
        BY <1>1, <4>1 DEF ConnSound, SlotCount, TaskSound, UsersSound, LifeSound
    <3> QED
      BY <1>10, <3>1
  <2>9. ASSUME NEW s \in Sockets
        PROVE  SocketSound(s)'
    <3>1. SocketSound(s) /\ KeyOf[s] \in Keys /\ active[KeyOf[s]] \in {0} \cup Conns
      BY ConnectionConstants DEF Inv, Types
    <3>2. \A k \in Conns : conn'[k].slots = conn[k].slots
      BY <1>7, <2>6
    <3>3. adder[s] # "waiting"
      BY <1>1 DEF MutexFree
    <3>4. socket[s] = "open" /\ adder[s] = "done" =>
            /\ active'[KeyOf[s]] = active[KeyOf[s]] /\ active[KeyOf[s]] # 0
            /\ InSlots(conn[active[KeyOf[s]]].slots, s)
      BY <2>3, <2>5, <3>1 DEF SocketSound
    <3> QED
      BY <1>1, <2>4, <3>1, <3>2, <3>3, <3>4 DEF SocketSound
  <2>10. ASSUME NEW k \in Keys
         PROVE  KeySound(k)'
    BY <2>5, <2>6 DEF Inv, KeySound, Types
  <2> QED
    BY <2>7, <2>8, <2>9, <2>10 DEF Inv
<1> QED
  BY <1>11, <1>12

-------------------------------------------------------------------------------
(* Steps of clients, of main and of the tasks that add sockets.            *)

(* A Connection that is left alone stays sound.                            *)
LEMMA SameConn ==
  ASSUME NEW k, ConnSound(conn[k], poller[k]), conn'[k] = conn[k], poller'[k] = poller[k],
         UNCHANGED alive, main' = "end" <=> main = "end"
  PROVE  ConnSound(conn[k], poller[k])'
<1>1. LifeSound(conn[k], poller[k])'
  BY DEF ConnSound, LifeSound
<1>2. SlotCount(conn[k])' /\ TaskSound(conn[k], poller[k])' /\ UsersSound(conn[k], poller[k])'
  BY DEF ConnSound, SlotCount, TaskSound, UsersSound
<1> QED
  BY <1>1, <1>2 DEF ConnSound

(* A step that does not reach the Connections.                             *)
LEMMA QuietStep ==
  ASSUME Inv, Types', UNCHANGED <<alive, conn, poller, active>>, main' = "end" <=> main = "end",
         \A s \in Sockets : SocketSound(s)'
  PROVE  Inv'
<1>1. \A k \in Conns : ConnSound(conn[k], poller[k])'
  BY SameConn DEF Inv
<1>2. \A k \in Keys : KeySound(k)'
  BY DEF Inv, KeySound
<1> QED
  BY <1>1, <1>2 DEF Inv

(* A message arrives.                                                      *)
LEMMA ArriveSound ==
  ASSUME Inv, NEW s \in Sockets, Arrive(s)
  PROVE  Inv'
<1>1. UNCHANGED <<alive, main, socket, broken, adder, active, conn, poller>>
  BY DEF Arrive, mainVars
<1>2. Types'
  <2>1. inbox' \in [Sockets -> 0 .. MaxMsgs]
    BY ConnectionConstants DEF Arrive, Inv, Types
  <2> QED
    BY <1>1, <2>1 DEF Inv, Types
<1>3. \A t \in Sockets : SocketSound(t)'
  BY <1>1 DEF Inv, SocketSound
<1> QED
  BY <1>1, <1>2, <1>3, QuietStep

(* A client hangs up.                                                      *)
LEMMA HangUpSound ==
  ASSUME Inv, NEW s \in Sockets, HangUp(s)
  PROVE  Inv'
<1>1. UNCHANGED <<alive, main, socket, inbox, adder, active, conn, poller>>
  BY DEF HangUp, mainVars
<1>2. Types'
  BY <1>1 DEF HangUp, Inv, Types
<1>3. \A t \in Sockets : SocketSound(t)'
  BY <1>1 DEF Inv, SocketSound
<1> QED
  BY <1>1, <1>2, <1>3, QuietStep

(* main accepts a socket, which nobody knew before.                        *)
LEMMA AcceptSound ==
  ASSUME Inv, NEW s \in Sockets, Accept(s)
  PROVE  Inv'
<1>1. /\ UNCHANGED <<alive, main, inbox, broken, active, conn, poller>>
      /\ socket[s] = "new" /\ socket' = [socket EXCEPT ![s] = "open"]
      /\ adder' = [adder EXCEPT ![s] = "queued"]
  BY DEF Accept, mainVars, clientVars
<1>2. Types'
  BY <1>1 DEF Inv, Types
<1>3. ASSUME NEW t \in Sockets
      PROVE  SocketSound(t)'
  <2>1. SocketSound(t)
    BY DEF Inv
  <2>2. /\ socket'[t] = IF t = s THEN "open" ELSE socket[t]
        /\ adder'[t] = IF t = s THEN "queued" ELSE adder[t]
    BY <1>1 DEF Inv, Types
  <2> QED
    BY <1>1, <2>1, <2>2 DEF SocketSound
<1> QED
  BY <1>1, <1>2, <1>3, QuietStep

(* main stops to accept.                                                   *)
LEMMA StopAcceptingSound ==
  ASSUME Inv, StopAccepting
  PROVE  Inv'
<1>1. /\ UNCHANGED <<alive, socket, inbox, broken, adder, active, conn, poller>>
      /\ main = "accept" /\ main' = "terminate"
  BY DEF StopAccepting, clientVars
<1>2. Types'
  BY <1>1 DEF Inv, Types
<1>3. \A t \in Sockets : SocketSound(t)'
  BY <1>1 DEF Inv, SocketSound
<1> QED
  BY <1>1, <1>2, <1>3, QuietStep

(* A socket waits for the Connection of its client.                        *)
LEMMA FindConnectionSound ==
  ASSUME Inv, NEW s \in Sockets, FindConnection(s)
  PROVE  Inv'
<1>1. /\ UNCHANGED <<alive, main, socket, inbox, broken, active, conn, poller>>
      /\ adder[s] = "queued" /\ active[KeyOf[s]] # 0
      /\ adder' = [adder EXCEPT ![s] = "waiting"]
  BY DEF FindConnection, mainVars, clientVars
<1>2. Types'
  BY <1>1 DEF Inv, Types
<1>3. ASSUME NEW t \in Sockets
      PROVE  SocketSound(t)'
  <2>1. SocketSound(t)
    BY DEF Inv
  <2>2. adder'[t] = IF t = s THEN "waiting" ELSE adder[t]
    BY <1>1 DEF Inv, Types
  <2> QED
    BY <1>1, <2>1, <2>2 DEF SocketSound
<1> QED
  BY <1>1, <1>2, <1>3, QuietStep

(* The slots of Connection i get socket s, and all others stay.            *)
LEMMA SocketAdded ==
  ASSUME Inv, NEW s \in Sockets, NEW i \in Conns, Types',
         conn' = [conn EXCEPT ![i] = conn'[i]], poller' = [poller EXCEPT ![i] = poller'[i]],
         ConnSound(conn[i], poller[i])', poller'[i].at # "none",
         \A t \in Sockets : InSlots(conn'[i].slots, t) <=> InSlots(conn[i].slots, t) \/ t = s,
         adder[s] \in {"queued", "waiting"}, adder' = [adder EXCEPT ![s] = "done"],
         active' = [active EXCEPT ![KeyOf[s]] = i], active[KeyOf[s]] \in {0, i},
         UNCHANGED <<alive, main, socket>>
  PROVE  Inv'
<1>1. /\ \A k \in Conns : k # i => conn'[k] = conn[k] /\ poller'[k] = poller[k]
      /\ \A t \in Sockets : adder'[t] = IF t = s THEN "done" ELSE adder[t]
      /\ \A k \in Keys : active'[k] = IF k = KeyOf[s] THEN i ELSE active[k]
      /\ i # 0 /\ \A t \in Sockets : KeyOf[t] \in Keys
  <2>1. i # 0 /\ \A t \in Sockets : KeyOf[t] \in Keys
    BY ConnectionConstants DEF Conns
  <2>2. \A k \in Conns : k # i => conn'[k] = conn[k] /\ poller'[k] = poller[k]
    BY DEF Inv, Types
  <2>3. \A t \in Sockets : adder'[t] = IF t = s THEN "done" ELSE adder[t]
    BY DEF Inv, Types
  <2>4. \A k \in Keys : active'[k] = IF k = KeyOf[s] THEN i ELSE active[k]
    BY DEF Inv, Types
  <2> QED
    BY <2>1, <2>2, <2>3, <2>4
<1>2. ASSUME NEW k \in Conns
      PROVE  ConnSound(conn[k], poller[k])'
  <2>1. CASE k # i
    BY <1>1, <2>1, SameConn DEF Inv
  <2> QED
    BY <2>1
<1>3. ASSUME NEW t \in Sockets
      PROVE  SocketSound(t)'
  <2>1. SocketSound(t) /\ SocketSound(s) /\ active[KeyOf[t]] \in {0} \cup Conns
    BY <1>1 DEF Inv, Types
  <2>2. \A k \in Conns : ~InSlots(conn[k].slots, s)
    BY <2>1 DEF SocketSound
  <2>3. \A k \in Conns : InSlots(conn'[k].slots, t) <=>
                           InSlots(conn[k].slots, t) \/ (t = s /\ k = i)
    <3> SUFFICES ASSUME NEW k \in Conns
                 PROVE  InSlots(conn'[k].slots, t) <=>
                          InSlots(conn[k].slots, t) \/ (t = s /\ k = i)
      OBVIOUS
    <3>1. CASE k = i
      BY <3>1
    <3>2. CASE k # i
      BY <1>1, <3>2
    <3> QED
      BY <3>1, <3>2
  <2>4. \A k, l \in Conns : InSlots(conn'[k].slots, t) /\ InSlots(conn'[l].slots, t) => k = l
    BY <2>1, <2>2, <2>3 DEF SocketSound
  <2>5. adder'[t] # "done" => \A k \in Conns : ~InSlots(conn'[k].slots, t)
    BY <1>1, <2>1, <2>3 DEF SocketSound
  <2>6. adder'[t] = "waiting" => active'[KeyOf[t]] # 0
    BY <1>1, <2>1 DEF SocketSound
  <2>7. socket'[t] = "open" /\ adder'[t] = "done" =>
          active'[KeyOf[t]] # 0 /\ InSlots(conn'[active'[KeyOf[t]]].slots, t)
    <3>1. CASE t = s
      BY <1>1, <2>3, <3>1
    <3>2. CASE t # s
      BY <1>1, <2>1, <2>3, <3>2 DEF SocketSound
    <3> QED
      BY <3>1, <3>2
  <2>8. socket'[t] = "new" => adder'[t] = "none"
    BY <1>1, <2>1 DEF SocketSound
  <2> QED
    BY <2>4, <2>5, <2>6, <2>7, <2>8 DEF SocketSound
<1>4. ASSUME NEW k \in Keys
      PROVE  KeySound(k)'
  BY <1>1 DEF Inv, KeySound, Types
<1> QED
  BY <1>2, <1>3, <1>4 DEF Inv

(* The first socket of a client: a Connection is made for it.              *)
LEMMA CreateConnectionSound ==
  ASSUME Inv, NEW s \in Sockets, CreateConnection(s)
  PROVE  Inv'
<1>1. PICK i \in Unmade :
        /\ active' = [active EXCEPT ![KeyOf[s]] = i]
        /\ conn' = [conn EXCEPT ![i] = [NotMade EXCEPT
                      !.alive = TRUE, !.users = 1, !.slots = <<Slot(s)>>]]
        /\ poller' = [poller EXCEPT ![i].at = "queued"]
  BY DEF CreateConnection
<1>2. /\ UNCHANGED <<alive, main, socket, inbox, broken>> /\ main # "end"
      /\ adder[s] = "queued" /\ adder' = [adder EXCEPT ![s] = "done"]
      /\ active[KeyOf[s]] = 0
  BY DEF CreateConnection, mainVars, clientVars
<1>3. i \in Conns /\ poller[i].at = "none"
  BY DEF Unmade
<1>4. /\ ConnSound(conn[i], poller[i]) /\ poller[i] \in PollerType
      /\ conn[i] = NotMade
  BY <1>3, ConnKnown DEF ConnSound, TaskSound
<1> DEFINE new == <<Slot(s)>>
<1>5. ~InSlots(conn[i].slots, s) /\ conn[i].slots = <<>> /\ <<>> \in Seq(SlotType)
  BY <1>4 DEF NotMade, InSlots
<1>6. new = WithSocket(<<>>, s)
  <2>1. {j \in DOMAIN <<>> : <<>>[j].socket = NoSocket} = {}
    OBVIOUS
  <2> QED
    BY <2>1 DEF WithSocket
<1>7. Cardinality(Occupied(<<>>)) = 0 /\ Marked(<<>>) = {} /\ Cardinality(Marked(<<>>)) = 0
  <2>1. Occupied(<<>>) = {} /\ Marked(<<>>) = {}
    BY DEF Occupied, Marked
  <2> QED
    BY <2>1, FS_EmptySet
<1>8. /\ new \in Seq(SlotType) /\ SlotsSound(new) /\ Len(new) <= Cardinality(Sockets)
      /\ Len(new) > 0 /\ Cardinality(Occupied(new)) = 1 /\ Cardinality(Marked(new)) = 0
      /\ \A t \in Sockets : InSlots(new, t) <=> InSlots(<<>>, t) \/ t = s
  <2>1. SlotsSound(<<>>) /\ Len(<<>>) <= Cardinality(Sockets)
    BY ConnectionConstants, FS_CardinalityType DEF SlotsSound
  <2> DEFINE none == conn[i].slots
  <2>2. /\ none \in Seq(SlotType) /\ SlotsSound(none) /\ Len(none) <= Cardinality(Sockets)
        /\ ~InSlots(none, s) /\ new = WithSocket(none, s)
        /\ Cardinality(Occupied(none)) = 0 /\ Cardinality(Marked(none)) = 0
    BY <1>5, <1>6, <1>7, <2>1
  <2> HIDE DEF none, new
  <2>3. /\ new \in Seq(SlotType) /\ SlotsSound(new) /\ Len(new) <= Cardinality(Sockets)
        /\ Len(new) > 0 /\ Cardinality(Occupied(new)) = Cardinality(Occupied(none)) + 1
        /\ Marked(new) = Marked(none)
        /\ \A t \in Sockets : InSlots(new, t) <=> InSlots(none, t) \/ t = s
    BY <2>2, AddedSlots
  <2>4. none = <<>>
    BY <1>5 DEF none
  <2> QED
    BY <2>2, <2>3, <2>4
<1> HIDE DEF new
<1>9. /\ conn'[i] = [NotMade EXCEPT !.alive = TRUE, !.users = 1, !.slots = new]
      /\ conn' = [conn EXCEPT ![i] = conn'[i]]
  BY <1>1, <1>3 DEF Inv, Types, new
<1>10. /\ conn'[i].alive = TRUE /\ conn'[i].users = 1 /\ conn'[i].slots = new
       /\ conn'[i].inMsgs = -1 /\ conn'[i] \in ConnType
  <2>1. -1 \in -1 .. Cardinality(Sockets)
    BY ConnectionConstants, FS_CardinalityType
  <2>2. conn'[i] = [alive |-> TRUE, users |-> 1, slots |-> new, inMsgs |-> -1, next |-> 0]
    BY <1>9 DEF NotMade
  <2> QED
    BY <1>8, <2>1, <2>2 DEF ConnType
<1>11. poller'[i] = [poller[i] EXCEPT !.at = "queued"] /\ poller' = [poller EXCEPT ![i] = poller'[i]]
  BY <1>1, <1>3 DEF Inv, Types
<1>12. poller'[i] \in PollerType /\ poller'[i].at = "queued"
  BY <1>4, <1>11 DEF PollerType
<1>13. ConnSound(conn[i], poller[i])'
  <2>1. SlotCount(conn[i])'
    BY <1>8, <1>10 DEF SlotCount
  <2>2. TaskSound(conn[i], poller[i])'
    BY <1>8, <1>10, <1>12 DEF TaskSound
  <2>3. UsersSound(conn[i], poller[i])'
    BY <1>8, <1>10, <1>12 DEF UsersSound, Owed
  <2>4. LifeSound(conn[i], poller[i])'
    BY <1>2, <1>10, <1>12 DEF LifeSound
  <2> QED
    BY <2>1, <2>2, <2>3, <2>4 DEF ConnSound
<1>14. Types'
  <2>1. active' \in [Keys -> {0} \cup Conns]
    BY <1>1, <1>3 DEF Inv, Types
  <2>2. adder' \in [Sockets -> {"none", "queued", "waiting", "done"}]
    BY <1>2 DEF Inv, Types
  <2> QED
    BY <1>2, <1>3, <1>9, <1>10, <1>11, <1>12, <2>1, <2>2 DEF Inv, Types
<1>15. \A t \in Sockets : InSlots(conn'[i].slots, t) <=> InSlots(conn[i].slots, t) \/ t = s
  BY <1>5, <1>8, <1>10
<1> QED
  BY <1>1, <1>2, <1>3, <1>9, <1>11, <1>12, <1>13, <1>14, <1>15, SocketAdded

(* Another socket of a client: it counts as a user.                        *)
LEMMA AddSocketSound ==
  ASSUME Inv, NEW s \in Sockets, AddSocket(s)
  PROVE  Inv'
<1>1. /\ SocketSound(s) /\ active[KeyOf[s]] \in {0} \cup Conns /\ KeyOf[s] \in Keys
      /\ adder[s] = "waiting"
  BY ConnectionConstants DEF Inv, Types, AddSocket
<1>2. PICK i \in Conns : i = active[KeyOf[s]]
  BY <1>1 DEF SocketSound
<1> DEFINE new == WithSocket(conn[i].slots, s)
<1>3. /\ UNCHANGED <<alive, main, socket, inbox, broken, active, poller>>
      /\ adder[s] = "waiting" /\ adder' = [adder EXCEPT ![s] = "done"] /\ ~Locked(i)
      /\ conn' = [conn EXCEPT ![i].slots = new, ![i].users = @ + 1]
  BY <1>2 DEF AddSocket, mainVars, clientVars
<1>4. (\A k \in Conns : ~InSlots(conn[k].slots, s)) /\ poller[i].at # "none"
  BY <1>1, <1>2, <1>3 DEF SocketSound, Inv, KeySound, Conns
<1>5. /\ ConnSound(conn[i], poller[i]) /\ poller[i] \in PollerType /\ conn[i] \in ConnType
      /\ conn[i].slots \in Seq(SlotType) /\ conn[i].users \in Nat
      /\ SlotsSound(conn[i].slots) /\ Len(conn[i].slots) <= Cardinality(Sockets)
  BY ConnKnown
<1>6. /\ new \in Seq(SlotType) /\ SlotsSound(new) /\ Len(new) <= Cardinality(Sockets)
      /\ Len(new) > 0 /\ Cardinality(Occupied(new)) = Cardinality(Occupied(conn[i].slots)) + 1
      /\ Marked(new) = Marked(conn[i].slots)
      /\ \A t \in Sockets : InSlots(new, t) <=> InSlots(conn[i].slots, t) \/ t = s
  <2>1. ~InSlots(conn[i].slots, s)
    BY <1>4
  <2> QED
    BY <1>5, <2>1, AddedSlots
<1> HIDE DEF new
<1>7. /\ conn'[i] = [conn[i] EXCEPT !.slots = new, !.users = @ + 1]
      /\ conn' = [conn EXCEPT ![i] = conn'[i]]
  BY <1>3, <1>4 DEF Inv, Types
<1>8. /\ conn'[i].slots = new /\ conn'[i].users = conn[i].users + 1
      /\ conn'[i].alive = conn[i].alive /\ conn'[i].inMsgs = conn[i].inMsgs
      /\ conn'[i] \in ConnType
  <2> DEFINE c == conn[i]
             d == conn'[i]
  <2>1. c \in ConnType /\ c.users + 1 \in Nat
    BY <1>5
  <2>2. d = [c EXCEPT !.slots = new, !.users = @ + 1]
    BY <1>7
  <2> HIDE DEF c, d
  <2>3. /\ d.slots = new /\ d.users = c.users + 1 /\ d.alive = c.alive
        /\ d.inMsgs = c.inMsgs /\ d \in ConnType
    BY <1>6, <2>1, <2>2 DEF ConnType
  <2> QED
    BY <2>3 DEF c, d
<1>9. ConnSound(conn[i], poller[i])'
  <2>1. SlotCount(conn[i])'
    BY <1>5, <1>6, <1>8 DEF ConnSound, SlotCount
  <2>2. TaskSound(conn[i], poller[i])'
    <3>1. poller[i].at \notin {"none", "serve", "send", "ping"}
      BY <1>3, <1>4 DEF Locked
    <3> QED
      BY <1>3, <1>5, <1>6, <1>8, <3>1 DEF ConnSound, TaskSound
  <2>3. UsersSound(conn[i], poller[i])'
    <3>1. Cardinality(Occupied(conn[i].slots)) \in Nat
      BY <1>5, SlotsFinite
    <3>2. Owed(poller[i]) \in Nat
      BY DEF Owed
    <3> QED
      BY <1>3, <1>5, <1>6, <1>8, <3>1, <3>2 DEF ConnSound, UsersSound
  <2>4. LifeSound(conn[i], poller[i])'
    BY <1>3, <1>5, <1>8 DEF ConnSound, LifeSound
  <2> QED
    BY <2>1, <2>2, <2>3, <2>4 DEF ConnSound
<1>10. Types'
  <2>1. adder' \in [Sockets -> {"none", "queued", "waiting", "done"}]
    BY <1>3 DEF Inv, Types
  <2> QED
    BY <1>3, <1>4, <1>7, <1>8, <2>1 DEF Inv, Types
<1>11. /\ active' = [active EXCEPT ![KeyOf[s]] = i] /\ active[KeyOf[s]] \in {0, i}
       /\ poller' = [poller EXCEPT ![i] = poller'[i]] /\ poller'[i].at # "none"
  BY <1>2, <1>3, <1>4 DEF Inv, Types
<1>12. \A t \in Sockets : InSlots(conn'[i].slots, t) <=> InSlots(conn[i].slots, t) \/ t = s
  BY <1>6, <1>8
<1> QED
  BY <1>3, <1>4, <1>7, <1>9, <1>10, <1>11, <1>12, SocketAdded

(* The server ends: the Connections that are left are deleted.             *)
LEMMA CloseAllConnectionsSound ==
  ASSUME Inv, CloseAllConnections
  PROVE  Inv'
<1> DEFINE gone == {i \in Conns : \E k \in Keys : active[k] = i}
<1>1. /\ UNCHANGED <<alive, inbox, broken, adder, active, poller>>
      /\ main' = "end" /\ Running = {}
      /\ \A s \in Sockets : adder[s] \in {"none", "queued", "done"}
      /\ conn' = [i \in Conns |-> IF i \in gone THEN [conn[i] EXCEPT !.alive = FALSE] ELSE conn[i]]
      /\ socket' = [s \in Sockets |->
            IF \E i \in gone : \E j \in DOMAIN conn[i].slots : conn[i].slots[j].socket = s
            THEN "closed" ELSE socket[s]]
  BY DEF CloseAllConnections, clientVars
<1>2. \A s \in Sockets : socket'[s] # "closed" =>
        socket'[s] = socket[s] /\ \A i \in gone : ~InSlots(conn[i].slots, s)
  BY <1>1 DEF InSlots
<1>3. socket' \in [Sockets -> {"new", "open", "closed"}]
  BY <1>1 DEF Inv, Types
<1> HIDE DEF gone
<1>4. ASSUME NEW i \in Conns
      PROVE  /\ conn'[i] \in ConnType /\ conn'[i].slots = conn[i].slots
             /\ conn'[i].users = conn[i].users /\ conn'[i].inMsgs = conn[i].inMsgs
             /\ conn'[i].alive => conn[i].alive
             /\ i \notin gone => conn'[i] = conn[i]
  <2>1. conn[i] \in ConnType
    BY DEF Inv, Types
  <2>2. CASE i \in gone
    <3>1. conn'[i] = [conn[i] EXCEPT !.alive = FALSE]
      BY <1>1, <2>2
    <3> QED
      BY <2>1, <2>2, <3>1 DEF ConnType
  <2>3. CASE i \notin gone
    <3>1. conn'[i] = conn[i]
      BY <1>1, <2>3
    <3> QED
      BY <2>1, <3>1
  <2> QED
    BY <2>2, <2>3
<1>5. Types'
  <2>1. conn' \in [Conns -> ConnType]
    <3>1. DOMAIN conn' = Conns /\ \A i \in Conns : conn'[i] \in ConnType
      BY <1>1, <1>4
    <3>2. conn' = [i \in Conns |-> conn'[i]]
      BY <1>1
    <3> QED
      BY <3>1, <3>2
  <2> QED
    BY <1>1, <1>3, <2>1 DEF Inv, Types
<1>6. ASSUME NEW i \in Conns
      PROVE  ConnSound(conn[i], poller[i])'
  <2>1. ConnSound(conn[i], poller[i]) /\ poller'[i] = poller[i] /\ poller[i] \in PollerType
    BY <1>1 DEF Inv, Types
  <2>2. SlotCount(conn[i])'
    BY <1>4, <2>1 DEF ConnSound, SlotCount
  <2>3. TaskSound(conn[i], poller[i])'
    <3>1. poller[i].at = "none" => i \notin gone
      BY DEF gone, Inv, KeySound, Conns
    <3> QED
      BY <1>4, <2>1, <3>1 DEF ConnSound, TaskSound
  <2>4. UsersSound(conn[i], poller[i])'
    BY <1>4, <2>1 DEF ConnSound, UsersSound
  <2>5. LifeSound(conn[i], poller[i])'
    <3>1. poller[i].at \in {"none", "queued", "gone"}
      BY <1>1, <2>1 DEF Running, PollerType
    <3> QED
      BY <1>1, <1>4, <2>1, <3>1 DEF ConnSound, LifeSound
  <2> QED
    BY <2>2, <2>3, <2>4, <2>5 DEF ConnSound
<1>7. ASSUME NEW s \in Sockets
      PROVE  SocketSound(s)'
  <2>1. SocketSound(s) /\ KeyOf[s] \in Keys /\ active[KeyOf[s]] \in {0} \cup Conns
    BY ConnectionConstants DEF Inv, Types
  <2>2. ~(socket'[s] = "open" /\ adder[s] = "done")
    <3>1. ASSUME socket'[s] = "open", adder[s] = "done"
          PROVE  FALSE
      <4>1. active[KeyOf[s]] \in Conns /\ InSlots(conn[active[KeyOf[s]]].slots, s)
        BY <1>2, <2>1, <3>1 DEF SocketSound
      <4>2. active[KeyOf[s]] \in gone
        BY <2>1, <4>1 DEF gone
      <4> QED
        BY <1>2, <3>1, <4>1, <4>2
    <3> QED
      BY <3>1
  <2> QED
    BY <1>1, <1>2, <1>4, <2>1, <2>2 DEF SocketSound
<1>8. ASSUME NEW k \in Keys
      PROVE  KeySound(k)'
  BY <1>1 DEF Inv, KeySound
<1> QED
  BY <1>5, <1>6, <1>7, <1>8 DEF Inv

-------------------------------------------------------------------------------
(* The whole of it.                                                        *)

(* Nothing was accepted yet.                                               *)
LEMMA InitInv ==
  ASSUME Init
  PROVE  Inv
<1>1. Cardinality(Sockets) \in Nat /\ -1 \in -1 .. Cardinality(Sockets)
  BY ConnectionConstants, FS_CardinalityType
<1>2. NotMade \in ConnType
  BY <1>1 DEF NotMade, ConnType
<1>3. NotRun \in PollerType
  BY ConnectionConstants DEF NotRun, PollerType
<1>4. Types
  BY <1>2, <1>3, ConnectionConstants DEF Init, Types
<1>5. ConnSound(NotMade, NotRun)
  <2>1. Occupied(<<>>) = {} /\ Marked(<<>>) = {} /\ SlotsSound(<<>>)
    BY DEF Occupied, Marked, SlotsSound
  <2>2. Cardinality(Marked(<<>>)) = 0
    BY <2>1, FS_EmptySet
  <2>3. SlotCount(NotMade)
    BY <1>1, <2>1, <2>2 DEF SlotCount, NotMade
  <2>4. TaskSound(NotMade, NotRun)
    BY DEF TaskSound, NotRun
  <2>5. UsersSound(NotMade, NotRun) /\ LifeSound(NotMade, NotRun)
    BY DEF UsersSound, LifeSound, NotMade, NotRun
  <2> QED
    BY <2>3, <2>4, <2>5 DEF ConnSound
<1>6. \A i \in Conns : conn[i] = NotMade /\ poller[i] = NotRun
  BY DEF Init
<1>7. \A s \in Sockets : SocketSound(s)
  BY <1>6 DEF Init, SocketSound, InSlots, NotMade
<1>8. \A k \in Keys : KeySound(k)
  BY DEF Init, KeySound
<1> QED
  BY <1>4, <1>5, <1>6, <1>7, <1>8 DEF Inv

(* Every step keeps it.                                                    *)
LEMMA NextInv ==
  ASSUME Inv, [Next]_vars
  PROVE  Inv'
<1>1. ASSUME NEW s \in Sockets, Arrive(s) \/ HangUp(s) \/ Accept(s) \/ Adding(s)
      PROVE  Inv'
  BY <1>1, ArriveSound, HangUpSound, AcceptSound, CreateConnectionSound, FindConnectionSound,
     AddSocketSound DEF Adding
<1>2. ASSUME NEW i \in Conns, Polling(i)
      PROVE  Inv'
  BY <1>2, BeginSound, AskForEventsSound, PollFailsSound, VisitSound, ServeSound,
     SendAnswerSound, AnswerPingSound, UnlockSound, RemoveConnectionSound DEF Polling
<1>3. CASE StopAccepting \/ CloseAllConnections
  BY <1>3, StopAcceptingSound, CloseAllConnectionsSound
<1>4. CASE UNCHANGED vars
  <2>1. UNCHANGED <<alive, main, socket, inbox, broken, adder, active, conn, poller>>
    BY <1>4 DEF vars, mainVars, clientVars
  <2>2. Types' /\ \A s \in Sockets : SocketSound(s)'
    BY <2>1 DEF Inv, Types, SocketSound
  <2> QED
    BY <2>1, <2>2, QuietStep
<1> QED
  BY <1>1, <1>2, <1>3, <1>4 DEF Next

(* What holds of the server's connections, always.                         *)
THEOREM AlwaysInv == Spec => []Inv
<1>1. Init => Inv
  BY InitInv
<1>2. Inv /\ [Next]_vars => Inv'
  BY NextInv
<1> QED
  BY <1>1, <1>2, PTL DEF Spec

(* A socket's slots are those of one Connection, its client's.             *)
LEMMA HeldOnce ==
  ASSUME Inv, NEW s \in Sockets, socket[s] = "open", adder[s] = "done"
  PROVE  \E i, j \in Conns : Holding(s) = {<<i, j>>} /\ active[KeyOf[s]] = i
<1>1. /\ SocketSound(s) /\ active[KeyOf[s]] \in {0} \cup Conns
      /\ s # NoSocket /\ Cardinality(Sockets) \in Nat
  BY ConnectionConstants, FS_CardinalityType DEF Inv, Types
<1>2. PICK i \in Conns : active[KeyOf[s]] = i /\ InSlots(conn[i].slots, s)
  BY <1>1 DEF SocketSound
<1>3. /\ DOMAIN conn[i].slots = 1 .. Len(conn[i].slots) /\ Len(conn[i].slots) \in Nat
      /\ Len(conn[i].slots) <= Cardinality(Sockets) /\ SlotsSound(conn[i].slots)
  BY ConnKnown
<1>4. PICK j \in DOMAIN conn[i].slots : conn[i].slots[j].socket = s
  BY <1>2 DEF InSlots
<1>5. j \in Conns
  BY <1>1, <1>3, <1>4 DEF Conns
<1>6. \A k \in Conns, l \in Conns :
        l \in DOMAIN conn[k].slots /\ conn[k].slots[l].socket = s <=> k = i /\ l = j
  <2> SUFFICES ASSUME NEW k \in Conns, NEW l \in Conns
               PROVE  l \in DOMAIN conn[k].slots /\ conn[k].slots[l].socket = s
                        <=> k = i /\ l = j
    OBVIOUS
  <2>1. ASSUME l \in DOMAIN conn[k].slots, conn[k].slots[l].socket = s
        PROVE  k = i /\ l = j
    <3>1. k = i
      BY <1>1, <1>2, <2>1 DEF SocketSound, InSlots
    <3> QED
      BY <1>1, <1>3, <1>4, <2>1, <3>1 DEF SlotsSound
  <2> QED
    BY <1>4, <2>1
<1>7. Holding(s) = {<<i, j>>}
  BY <1>5, <1>6 DEF Holding
<1> QED
  BY <1>2, <1>5, <1>7

(* Every variable has its type, in particular the number of events left    *)
(* to visit and the unsigned counter of a Connection's users.              *)
THEOREM TypeCorrect == Spec => []TypeOK
<1>1. Inv => TypeOK
  BY ConnectionConstants DEF Inv, Types, ConnType, PollerType, SlotType, TypeOK
<1> QED
  BY <1>1, AlwaysInv, PTL

(* addSocket, closeSocket and removeConnection: an open socket that was    *)
(* added is in one slot of its client's Connection and nowhere else.       *)
THEOREM OpenSocketsAreHeld == Spec => []SocketsPolled
<1>1. Inv => SocketsPolled
  BY HeldOnce DEF SocketsPolled
<1> QED
  BY <1>1, AlwaysInv, PTL

(* removeConnection takes off one user for a turn, however many sockets    *)
(* were closed in it: a Connection has as many users as open sockets, at   *)
(* least.                                                                  *)
THEOREM ConnectionsHaveUsers == Spec => []UsersCoverSockets
<1>1. ASSUME Inv, NEW i \in Conns, conn[i].alive
      PROVE  Cardinality(Occupied(conn[i].slots)) <= conn[i].users
  <2>1. /\ ConnSound(conn[i], poller[i]) /\ conn[i].users \in Nat
        /\ conn[i].slots \in Seq(SlotType)
    BY <1>1, ConnKnown
  <2>2. Cardinality(Occupied(conn[i].slots)) \in Nat
    BY <2>1, SlotsFinite
  <2> QED
    BY <1>1, <2>1, <2>2 DEF ConnSound, UsersSound, Owed
<1>2. Inv => UsersCoverSockets
  BY <1>1 DEF UsersCoverSockets, Occupied
<1> QED
  BY <1>2, AlwaysInv, PTL

(* pollMsg: _inMsgs is the number of slots that are marked, over all calls *)
(* of it and all sockets closed in between.                                *)
THEOREM EventsAreCounted == Spec => []EventsCounted
<1>1. Inv => EventsCounted
  BY DEF Inv, ConnSound, SlotCount, Marked, EventsCounted
<1> QED
  BY <1>1, AlwaysInv, PTL

(* pollConnection works with a Connection that was not deleted, and queues *)
(* itself again as long as there is one.                                   *)
THEOREM AliveAndPolled == Spec => []PolledWhileAlive
<1>1. Inv => PolledWhileAlive
  BY DEF Inv, ConnSound, LifeSound, PolledWhileAlive, Running
<1> QED
  BY <1>1, AlwaysInv, PTL

(* serveSend and its like end with the first answer that fails: none is    *)
(* sent to a socket that was closed.                                       *)
THEOREM AnswersToOpenSockets == Spec => []SendsToOpenSocket
<1>1. Inv => SendsToOpenSocket
  BY DEF Inv, ConnSound, TaskSound, SendsToOpenSocket
<1> QED
  BY <1>1, AlwaysInv, PTL

-------------------------------------------------------------------------------
(* The end of a client.  What keeps everything that is deleted free of     *)
(* users: a task is queued or runs only while the one who asked waits for  *)
(* it, nobody asks once the prefetches were joined, and then nothing more  *)
(* is written once the writes have settled.                                *)
Askers == {"new", "queued", "ask", "test", "wait", "end"}
Tasks == {"none", "queued", "run", "tail", "done"}
Early == {"run", "settle", "drain", "join"}
Stages == Early \cup {"settle again", "levels", "decompression", "transfers", "gone"}

CleanupTypes ==
  /\ asker \in [Jobs -> Askers] /\ transfer \in [Jobs -> Tasks] /\ unpack \in [Jobs -> Tasks]
  /\ writeBack \in [Jobs -> Tasks] /\ ready \in [Jobs -> BOOLEAN]
  /\ objects \subseteq Objects /\ cleanup \in Stages

(* What becomes of one block.                                              *)
Asks(j) == asker[j] \in {"ask", "test", "wait"}
UnderWay(task, j) == task[j] \in {"queued", "run"}

JobSound(j) ==
  /\ asker[j] = "queued" => j \notin Reads
  /\ asker[j] \in {"new", "queued", "ask"} => transfer[j] = "none"
  /\ asker[j] # "end" => writeBack[j] = "none"
  /\ transfer[j] \in {"none", "queued", "run"} => unpack[j] = "none" /\ ~ready[j]
  /\ UnderWay(unpack, j) => ~ready[j]
  /\ UnderWay(transfer, j) \/ UnderWay(unpack, j) => asker[j] \in {"test", "wait"}

(* What is there at each stage, and who may still use it.                  *)
StageSound ==
  /\ "prefetchPool" \in objects <=> cleanup \in Early
  /\ "writePool" \in objects <=> cleanup \in Early \cup {"settle again"}
  /\ "caches" \in objects <=> cleanup \in Early \cup {"settle again", "levels"}
  /\ "decompressionPool" \in objects
       <=> cleanup \in Early \cup {"settle again", "levels", "decompression"}
  /\ "transferPool" \in objects <=> cleanup # "gone"
  /\ cleanup # "run" => \A j \in Reads : ~Asks(j)
  /\ cleanup \notin Early => \A j \in Jobs : ~Asks(j)
  /\ cleanup \notin Early \cup {"settle again"} => \A j \in Jobs : ~UnderWay(writeBack, j)

CleanupInv == CleanupTypes /\ StageSound /\ \A j \in Jobs : JobSound(j)

LEMMA CleanupInitSound == CleanupInit => CleanupInv
BY DEF CleanupInit, CleanupInv, CleanupTypes, StageSound, JobSound, Every, Askers, Tasks, Early,
       Stages, Asks, UnderWay, Jobs, Objects

(* A step of one who asks leaves the other blocks alone.                   *)
LEMMA AskerStep ==
  ASSUME CleanupInv, NEW j \in Jobs, NEW a \in Askers, NEW t \in Tasks, NEW w \in Tasks,
         asker' = Put(asker, j, a), transfer' = Put(transfer, j, t),
         writeBack' = Put(writeBack, j, w), UNCHANGED <<unpack, ready, objects, cleanup>>,
         JobSound(j)',
         a \in {"ask", "test", "wait"} => Asks(j) \/ cleanup = "run" \/ (j \notin Reads /\ cleanup \in Early),
         w \in {"queued", "run"} => UnderWay(writeBack, j) \/ Asks(j)
  PROVE  CleanupInv'
<1>1. /\ asker' \in [Jobs -> Askers] /\ asker'[j] = a
      /\ \A k \in Jobs : k # j => asker'[k] = asker[k]
  BY DEF CleanupInv, CleanupTypes, Put
<1>2. /\ transfer' \in [Jobs -> Tasks] /\ transfer'[j] = t
      /\ \A k \in Jobs : k # j => transfer'[k] = transfer[k]
  BY DEF CleanupInv, CleanupTypes, Put
<1>3. /\ writeBack' \in [Jobs -> Tasks] /\ writeBack'[j] = w
      /\ \A k \in Jobs : k # j => writeBack'[k] = writeBack[k]
  BY DEF CleanupInv, CleanupTypes, Put
<1>4. CleanupTypes'
  BY <1>1, <1>2, <1>3 DEF CleanupInv, CleanupTypes
<1>5. ASSUME NEW k \in Jobs PROVE JobSound(k)'
  <2>1. CASE k = j
    BY <2>1
  <2>2. CASE k # j
    BY <1>1, <1>2, <1>3, <2>2 DEF CleanupInv, JobSound, UnderWay
  <2> QED
    BY <2>1, <2>2
<1>6. \A k \in Jobs : Asks(k)' => Asks(k) \/ cleanup = "run" \/ (k \notin Reads /\ cleanup \in Early)
  BY <1>1 DEF Asks
<1>7. \A k \in Jobs : UnderWay(writeBack, k)' => UnderWay(writeBack, k) \/ Asks(k)
  BY <1>3 DEF UnderWay
<1>8. StageSound'
  BY <1>6, <1>7 DEF CleanupInv, StageSound, Early, Jobs
<1> QED
  BY <1>4, <1>5, <1>8 DEF CleanupInv

(* And so does a step of a task.                                           *)
LEMMA DeliveryStep ==
  ASSUME CleanupInv, NEW j \in Jobs, NEW t \in Tasks, NEW u \in Tasks, NEW r \in BOOLEAN,
         transfer' = Put(transfer, j, t), unpack' = Put(unpack, j, u),
         ready' = Put(ready, j, r), UNCHANGED <<asker, writeBack, objects, cleanup>>,
         JobSound(j)'
  PROVE  CleanupInv'
<1>1. /\ transfer' \in [Jobs -> Tasks] /\ transfer'[j] = t
      /\ \A k \in Jobs : k # j => transfer'[k] = transfer[k]
  BY DEF CleanupInv, CleanupTypes, Put
<1>2. /\ unpack' \in [Jobs -> Tasks] /\ unpack'[j] = u
      /\ \A k \in Jobs : k # j => unpack'[k] = unpack[k]
  BY DEF CleanupInv, CleanupTypes, Put
<1>3. /\ ready' \in [Jobs -> BOOLEAN] /\ \A k \in Jobs : k # j => ready'[k] = ready[k]
  BY DEF CleanupInv, CleanupTypes, Put
<1>4. CleanupTypes'
  BY <1>1, <1>2, <1>3 DEF CleanupInv, CleanupTypes
<1>5. ASSUME NEW k \in Jobs PROVE JobSound(k)'
  <2>1. CASE k = j
    BY <2>1
  <2>2. CASE k # j
    BY <1>1, <1>2, <1>3, <2>2 DEF CleanupInv, JobSound, UnderWay
  <2> QED
    BY <2>1, <2>2
<1>6. StageSound'
  BY DEF CleanupInv, StageSound, Asks, UnderWay
<1> QED
  BY <1>4, <1>5, <1>6 DEF CleanupInv

(* The reads and prefetches, from the asking to the block's being there.   *)
LEMMA AskersKeep ==
  ASSUME CleanupInv, NEW j \in Jobs,
         StartRead(j) \/ AddPrefetch(j) \/ TakePrefetch(j) \/ Asker(j)
  PROVE  CleanupInv'
<1> USE DEF Askers, Tasks, Early
<1>t. CleanupTypes /\ JobSound(j) /\ StageSound
  BY DEF CleanupInv
<1>s. /\ transfer[j] \in Tasks /\ transfer = Put(transfer, j, transfer[j])
      /\ writeBack[j] \in Tasks /\ writeBack = Put(writeBack, j, writeBack[j])
  BY <1>t DEF CleanupTypes, Put
<1>d. \A a \in Askers : Put(asker, j, a)[j] = a
  BY <1>t DEF CleanupTypes, Put
<1>e. \A x \in Tasks : Put(transfer, j, x)[j] = x /\ Put(writeBack, j, x)[j] = x
  BY <1>t DEF CleanupTypes, Put
<1>1. CASE StartRead(j)
  <2>1. JobSound(j)'
    BY <1>1, <1>t, <1>d DEF StartRead, JobSound, UnderWay
  <2> QED
    BY <1>1, <1>s, <2>1, AskerStep DEF StartRead, UnderWay
<1>2. CASE AddPrefetch(j)
  <2>1. JobSound(j)'
    BY <1>2, <1>t, <1>d, CleanupConstants DEF AddPrefetch, JobSound, UnderWay
  <2> QED
    BY <1>2, <1>s, <2>1, AskerStep DEF AddPrefetch, UnderWay
<1>3. CASE TakePrefetch(j)
  <2>1. JobSound(j)'
    BY <1>3, <1>t, <1>d DEF TakePrefetch, JobSound, UnderWay
  <2>2. j \notin Reads /\ cleanup \in Early
    BY <1>3, <1>t DEF TakePrefetch, JobSound, StageSound
  <2> QED
    BY <1>3, <1>s, <2>1, <2>2, AskerStep DEF TakePrefetch, UnderWay
<1>4. ASSUME BufferWrite(j), UNCHANGED <<transfer, unpack, ready, objects, cleanup>>, Asks(j),
             asker[j] = "ask" \/ ready[j] \/ Delivered(j)
      PROVE  CleanupInv'
  <2>1. JobSound(j)'
    BY <1>4, <1>t, <1>d, <1>e DEF BufferWrite, JobSound, UnderWay, Delivered, CleanupTypes
  <2> QED
    BY <1>4, <1>s, <2>1, AskerStep DEF BufferWrite
<1>5. CASE Ask(j)
  <2>1. CASE BufferWrite(j) /\ UNCHANGED transfer
    BY <1>4, <1>5, <2>1 DEF Ask, Asks
  <2>2. CASE asker' = Put(asker, j, "test") /\ transfer' = Put(transfer, j, "queued")
             /\ UNCHANGED writeBack
    <3>1. JobSound(j)'
      BY <1>5, <2>2, <1>t, <1>d, <1>e DEF Ask, JobSound, UnderWay
    <3> QED
      BY <1>5, <2>2, <1>s, <3>1, AskerStep DEF Ask, Asks
  <2> QED
    BY <1>5, <2>1, <2>2 DEF Ask
<1>6. CASE Test(j)
  <2>1. CASE ready[j] /\ BufferWrite(j)
    BY <1>4, <1>6, <2>1 DEF Test, Asks
  <2>2. CASE asker' = Put(asker, j, "wait") /\ UNCHANGED writeBack
    <3>1. JobSound(j)'
      BY <1>6, <2>2, <1>t, <1>d DEF Test, JobSound, UnderWay
    <3> QED
      BY <1>6, <2>2, <1>s, <3>1, AskerStep DEF Test, Asks
  <2> QED
    BY <1>6, <2>1, <2>2 DEF Test
<1>7. CASE GetBlock(j)
  BY <1>4, <1>7 DEF GetBlock, Asks
<1> QED
  BY <1>1, <1>2, <1>3, <1>5, <1>6, <1>7 DEF Asker

(* The transfers and decompressions.                                       *)
LEMMA TasksKeep ==
  ASSUME CleanupInv, NEW j \in Jobs, TransferStep(j) \/ UnpackStep(j)
  PROVE  CleanupInv'
<1> USE DEF Tasks
<1>t. CleanupTypes /\ JobSound(j)
  BY DEF CleanupInv
<1>s. /\ transfer[j] \in Tasks /\ transfer = Put(transfer, j, transfer[j])
      /\ unpack[j] \in Tasks /\ unpack = Put(unpack, j, unpack[j])
      /\ ready[j] \in BOOLEAN /\ ready = Put(ready, j, ready[j])
  BY <1>t DEF CleanupTypes, Put
<1>e. \A x \in Tasks : Put(transfer, j, x)[j] = x /\ Put(unpack, j, x)[j] = x
  BY <1>t DEF CleanupTypes, Put
<1>r. Put(ready, j, TRUE)[j] = TRUE
  BY <1>t DEF CleanupTypes, Put
<1>1. CASE TakeTransfer(j)
  <2>1. JobSound(j)'
    BY <1>1, <1>t, <1>e DEF TakeTransfer, Queue, JobSound, UnderWay
  <2> QED
    BY <1>1, <1>s, <2>1, DeliveryStep DEF TakeTransfer
<1>2. CASE Receive(j)
  <2>1. JobSound(j)'
    BY <1>2, <1>t, <1>e, <1>r DEF Receive, JobSound, UnderWay
  <2> QED
    BY <1>2, <1>s, <2>1, DeliveryStep DEF Receive
<1>3. CASE EndTransfer(j)
  <2>1. JobSound(j)'
    BY <1>3, <1>t, <1>e DEF EndTransfer, JobSound, UnderWay
  <2> QED
    BY <1>3, <1>s, <2>1, DeliveryStep DEF EndTransfer
<1>4. CASE TakeUnpack(j)
  <2>1. JobSound(j)'
    BY <1>4, <1>t, <1>e DEF TakeUnpack, Queue, JobSound, UnderWay
  <2> QED
    BY <1>4, <1>s, <2>1, DeliveryStep DEF TakeUnpack
<1>5. CASE Decompress(j)
  <2>1. JobSound(j)'
    BY <1>5, <1>t, <1>e, <1>r DEF Decompress, JobSound, UnderWay
  <2> QED
    BY <1>5, <1>s, <2>1, DeliveryStep DEF Decompress
<1>6. CASE EndUnpack(j)
  <2>1. JobSound(j)'
    BY <1>6, <1>t, <1>e DEF EndUnpack, JobSound, UnderWay
  <2> QED
    BY <1>6, <1>s, <2>1, DeliveryStep DEF EndUnpack
<1> QED
  BY <1>1, <1>2, <1>3, <1>4, <1>5, <1>6 DEF TransferStep, UnpackStep

(* The writes to the caches.                                               *)
LEMMA WritesKeep ==
  ASSUME CleanupInv, NEW j \in Jobs, WriteStep(j)
  PROVE  CleanupInv'
<1> USE DEF Askers, Tasks
<1>t. CleanupTypes /\ JobSound(j)
  BY DEF CleanupInv
<1>s. /\ transfer[j] \in Tasks /\ transfer = Put(transfer, j, transfer[j])
      /\ asker[j] \in Askers /\ asker = Put(asker, j, asker[j])
  BY <1>t DEF CleanupTypes, Put
<1>e. \A x \in Tasks : Put(writeBack, j, x)[j] = x
  BY <1>t DEF CleanupTypes, Put
<1>1. CASE TakeWrite(j)
  <2>1. JobSound(j)'
    BY <1>1, <1>t, <1>e DEF TakeWrite, Queue, JobSound, UnderWay
  <2>2. UnderWay(writeBack, j)
    BY <1>1 DEF TakeWrite, Queue, UnderWay
  <2> QED
    BY <1>1, <1>s, <2>1, <2>2, AskerStep DEF TakeWrite, Asks
<1>2. CASE EndWrite(j)
  <2>1. JobSound(j)'
    BY <1>2, <1>t, <1>e DEF EndWrite, JobSound, UnderWay
  <2> QED
    BY <1>2, <1>s, <2>1, AskerStep DEF EndWrite, Asks
<1> QED
  BY <1>1, <1>2 DEF WriteStep

(* The stages, one after the other.                                        *)
LEMMA StagesKeep ==
  ASSUME CleanupInv, Exit \/ Cleanup
  PROVE  CleanupInv'
<1>t. CleanupTypes /\ StageSound /\ \A j \in Jobs : JobSound(j)
  BY DEF CleanupInv
<1>1. UNCHANGED <<asker, transfer, unpack, writeBack, ready>>
  BY DEF Exit, Cleanup, Settle, DrainPrefetches, JoinPrefetches, SettleAgain, DeleteLevels,
         DeletePools, DeletePool, Cleans
<1>2. \A j \in Jobs : JobSound(j)'
  BY <1>1, <1>t DEF JobSound, UnderWay
<1>3. CleanupTypes' /\ StageSound'
  <2> USE <1>t, <1>1 DEF CleanupTypes, StageSound, Asks, UnderWay, Early, Stages, Cleans, Deletes
  <2>1. CASE Exit
    BY <2>1 DEF Exit, Asking, Jobs
  <2>2. CASE Settle
    BY <2>2 DEF Settle
  <2>3. CASE DrainPrefetches
    BY <2>3 DEF DrainPrefetches
  <2>4. CASE JoinPrefetches
    BY <2>4 DEF JoinPrefetches, Asking
  <2>5. CASE SettleAgain
    BY <2>5 DEF SettleAgain, Settled
  <2>6. CASE DeleteLevels
    BY <2>6 DEF DeleteLevels
  <2>7. CASE DeletePools
    BY <2>7 DEF DeletePools, DeletePool
  <2> QED
    BY <2>1, <2>2, <2>3, <2>4, <2>5, <2>6, <2>7 DEF Cleanup
<1> QED
  BY <1>2, <1>3 DEF CleanupInv

LEMMA CleanupStep == CleanupInv /\ [CleanupNext]_cleanupVars => CleanupInv'
<1> SUFFICES ASSUME CleanupInv, [CleanupNext]_cleanupVars PROVE CleanupInv'
  OBVIOUS
<1>1. CASE UNCHANGED cleanupVars
  BY <1>1 DEF cleanupVars, CleanupInv, CleanupTypes, StageSound, JobSound, Asks, UnderWay
<1>2. CASE CleanupNext
  BY <1>2, AskersKeep, TasksKeep, WritesKeep, StagesKeep DEF CleanupNext
<1> QED
  BY <1>1, <1>2

LEMMA OutlivedFromInvariant == CleanupInv => UsersOutlived
<1> SUFFICES ASSUME CleanupInv, NEW j \in Jobs PROVE Uses(j) \subseteq objects
  BY DEF UsersOutlived
<1>1. CleanupTypes /\ StageSound /\ JobSound(j)
  BY DEF CleanupInv
<1>2. Asks(j) => Objects \ {"prefetchPool"} \subseteq objects
  BY <1>1 DEF StageSound, Early, Objects
<1>3. UnderWay(transfer, j) \/ UnderWay(unpack, j) => Objects \ {"prefetchPool"} \subseteq objects
  BY <1>1, <1>2 DEF JobSound, Asks
<1>4. UnderWay(writeBack, j) => {"writePool", "caches"} \subseteq objects
  BY <1>1 DEF StageSound, Early
<1>5. "tail" \in {transfer[j], unpack[j]} /\ asker[j] # "end" => Asks(j)
  BY <1>1 DEF JobSound, Asks, CleanupTypes, Askers
<1> QED
  BY <1>1, <1>2, <1>3, <1>4, <1>5 DEF Uses, Asks, UnderWay, Objects

(* tazerCleanup deletes nothing that a read, a prefetch or one of their    *)
(* tasks still uses, however they interleave with it.                      *)
THEOREM UsersAreOutlived == CleanupSpec => []UsersOutlived
<1> QED
  BY CleanupInitSound, CleanupStep, OutlivedFromInvariant, PTL DEF CleanupSpec

-------------------------------------------------------------------------------
(* The client's tables of files.  What the variables are made of.          *)
FileEntry == [obj : Nat, users : Nat]
DescEntry == [obj : Nat, index : Nat, users : Nat]
StreamEntry == [fd : Fds, users : Nat]
FileObject == [meta : Metas, alive : BOOLEAN, pos : Seq(Nat), moves : Nat]
FilePlaces == {"idle", "stat", "addfile", "newindex", "adddesc", "addstream", "open", "lookup",
               "load", "store", "removefile", "removedesc", "kernelclose", "removestream"}
Descriptor == [meta : Metas \cup {None}, fd : Fds \cup {None}, addr : Addrs \cup {None},
               obj : Nat \cup {None}, index : Nat \cup {None}]
FileThread == [pc : FilePlaces, op : {"none", "read", "close"}, mine : Descriptor,
               fd : Fds \cup {None}, obj : Nat \cup {None}, index : Nat \cup {None},
               moves : Nat, reads : Nat]

FileTypes ==
  /\ opened \in [Fds -> Metas \cup {None}] /\ used \subseteq Addrs /\ opens \in Nat
  /\ file \in [Metas -> FileEntry \cup {None}] /\ desc \in [Fds -> DescEntry \cup {None}]
  /\ stream \in [Addrs -> StreamEntry \cup {None}]
  /\ objs \in Seq(FileObject) /\ th \in [Threads -> FileThread] /\ strayed \in BOOLEAN

(* Where a thread has a descriptor of the system, where it is a user of    *)
(* its file, and where its descriptor and its stream are in the tables.    *)
InUse == {"open", "lookup", "load", "store", "removefile"}
UserPlaces == {"newindex", "adddesc", "addstream"} \cup InUse
EntryPlaces == {"addstream", "removedesc"} \cup InUse
HoldPlaces == {"addfile", "removedesc", "kernelclose"} \cup UserPlaces
InPlace(t, places) == th[t].pc \in places
FileUser(t, m) == InPlace(t, UserPlaces) /\ Mine(t).meta = m
FileUsers(m) == {t \in Threads : FileUser(t, m)}
HasEntry(t, d) == InPlace(t, EntryPlaces) /\ Mine(t).fd = d
HasStream(t) ==
  /\ t \in Streaming
  /\ \/ InPlace(t, {"removedesc", "removestream"} \cup InUse)
     \/ InPlace(t, {"kernelclose"}) /\ th[t].fd # None
StreamUsers(a) == {t \in Threads : HasStream(t) /\ Mine(t).addr = a}

(* A thread that opened a file: what it has, and what it looked up.        *)
ThreadSound(t) ==
  /\ InPlace(t, HoldPlaces \cup {"removestream"}) =>
       Mine(t).meta \in Metas /\ Mine(t).fd \in Fds /\ (t \in Streaming => Mine(t).addr \in Addrs)
  /\ InPlace(t, {"addfile"}) => th[t].fd = None
  /\ InPlace(t, {"addstream", "removestream"}) => t \in Streaming
  /\ InPlace(t, UserPlaces \cup {"removedesc"}) => Mine(t).obj \in Nat
  /\ InPlace(t, EntryPlaces \cup {"adddesc"}) => Mine(t).index \in Nat
  /\ InPlace(t, {"lookup", "load", "store", "removefile", "removedesc"}) => th[t].fd = Mine(t).fd
  /\ InPlace(t, {"load", "store", "removefile"}) =>
       th[t].obj = Mine(t).obj /\ th[t].index = Mine(t).index
  /\ InPlace(t, HoldPlaces) => opened[Mine(t).fd] # None
  /\ InPlace(t, UserPlaces) =>
       file[Mine(t).meta] # None /\ file[Mine(t).meta].obj = Mine(t).obj
  /\ InPlace(t, EntryPlaces) =>
       desc[Mine(t).fd] = [obj |-> Mine(t).obj, index |-> Mine(t).index, users |-> 1]
  /\ HasStream(t) => stream[Mine(t).addr] # None /\ stream[Mine(t).addr].fd = Mine(t).fd

(* A descriptor of the system is with one thread.                          *)
Apart == \A s, t \in Threads :
  InPlace(s, HoldPlaces) /\ InPlace(t, HoldPlaces) /\ Mine(s).fd = Mine(t).fd => s = t

(* A name that is there counts its users, and its object is alive.         *)
FileCounted(m) ==
  /\ IsFiniteSet(FileUsers(m))
  /\ file[m] = None => FileUsers(m) = {}
  /\ file[m] # None => /\ file[m].users = Cardinality(FileUsers(m)) /\ file[m].users > 0
                       /\ file[m].obj \in DOMAIN objs /\ objs[file[m].obj].alive
                       /\ objs[file[m].obj].meta = m

(* The entry of a stream counts all that have it, those included that got  *)
(* the address while the one before them was about to take it out.         *)
StreamCounted(a) ==
  /\ IsFiniteSet(StreamUsers(a))
  /\ stream[a] = None => StreamUsers(a) = {}
  /\ stream[a] # None => stream[a].users = Cardinality(StreamUsers(a)) /\ stream[a].users > 0

(* An object that is alive is the one of one name.                         *)
ObjectsNamed ==
  /\ \A m, n \in Metas : file[m] # None /\ file[n] # None /\ file[m].obj = file[n].obj => m = n
  /\ \A o \in DOMAIN objs : objs[o].alive => \E m \in Metas : file[m] # None /\ file[m].obj = o

(* Nobody else's descriptors are in the table.                             *)
EntriesOwned == \A d \in Fds : desc[d] # None => \E t \in Threads : HasEntry(t, d)

FilesInv ==
  /\ FileTypes /\ Apart /\ ObjectsNamed /\ EntriesOwned
  /\ \A t \in Threads : ThreadSound(t)
  /\ \A m \in Metas : FileCounted(m)
  /\ \A a \in Addrs : StreamCounted(a)

LEMMA FilesInitSound == FilesInit => FilesInv
<1> SUFFICES ASSUME FilesInit PROVE FilesInv
  OBVIOUS
<1>1. Idle \in FileThread
  BY DEF Idle, FileThread, Descriptor, Nothing, FilePlaces
<1>s. strayed \in BOOLEAN
  BY DEF FilesInit
<1>2. FileTypes
  BY <1>1, <1>s DEF FilesInit, FileTypes
<1>3. \A t \in Threads : th[t].pc = "idle"
  BY DEF FilesInit, Idle
<1> USE DEF InPlace, UserPlaces, EntryPlaces, HoldPlaces, InUse
<1>4. Apart /\ \A t \in Threads : ThreadSound(t)
  BY <1>3 DEF Apart, ThreadSound, HasStream
<1>5. \A m \in Metas : FileUsers(m) = {}
  BY <1>3 DEF FileUsers, FileUser
<1>6. \A m \in Metas : FileCounted(m)
  BY <1>5, FS_EmptySet DEF FileCounted, FilesInit
<1>8. \A a \in Addrs : StreamUsers(a) = {}
  BY <1>3 DEF StreamUsers, HasStream
<1>9. \A a \in Addrs : StreamCounted(a)
  BY <1>8, FS_EmptySet DEF StreamCounted, FilesInit
<1>7. ObjectsNamed /\ EntriesOwned
  BY DEF FilesInit, ObjectsNamed, EntriesOwned
<1> QED
  BY <1>2, <1>4, <1>6, <1>7, <1>9 DEF FilesInv

(* A thread goes on: nothing but its place changes.                        *)
LEMMA GotoEffect ==
  ASSUME FileTypes, NEW t \in Threads, NEW pc \in FilePlaces, Goto(t, pc)
  PROVE  /\ th' \in [Threads -> FileThread] /\ \A s \in Threads : s # t => th'[s] = th[s]
         /\ th'[t].pc = pc /\ th'[t].mine = th[t].mine /\ th'[t].fd = th[t].fd
         /\ th'[t].obj = th[t].obj /\ th'[t].index = th[t].index
<1>1. th[t] \in FileThread
  BY DEF FileTypes
<1>2. [th[t] EXCEPT !.pc = pc] \in FileThread
  BY <1>1 DEF FileThread
<1>3. th' = [th EXCEPT ![t] = [th[t] EXCEPT !.pc = pc]]
  BY DEF Goto
<1>4. th' \in [Threads -> FileThread] /\ \A s \in Threads : s # t => th'[s] = th[s]
  BY <1>2, <1>3 DEF FileTypes
<1>5. th'[t] = [th[t] EXCEPT !.pc = pc]
  BY <1>3 DEF FileTypes
<1> QED
  BY <1>1, <1>4, <1>5 DEF FileThread

(* A call is over.                                                         *)
LEMMA ReturnEffect ==
  ASSUME FileTypes, NEW t \in Threads, Return(t)
  PROVE  /\ th' \in [Threads -> FileThread] /\ \A s \in Threads : s # t => th'[s] = th[s]
         /\ th'[t].pc = "idle"
BY DEF FileTypes, Return, Idle, FileThread, Descriptor, Nothing, FilePlaces

(* The other threads keep what they have when their entries stay.          *)
LEMMA OtherSound ==
  ASSUME NEW s, ThreadSound(s), th'[s] = th[s],
         InPlace(s, HoldPlaces) => opened'[Mine(s).fd] = opened[Mine(s).fd],
         InPlace(s, UserPlaces) => /\ file'[Mine(s).meta] # None
                                   /\ file'[Mine(s).meta].obj = file[Mine(s).meta].obj,
         InPlace(s, EntryPlaces) => desc'[Mine(s).fd] = desc[Mine(s).fd],
         HasStream(s) => /\ stream'[Mine(s).addr] # None
                         /\ stream'[Mine(s).addr].fd = stream[Mine(s).addr].fd
  PROVE  ThreadSound(s)'
BY DEF ThreadSound, InPlace, HasStream, Mine

(* The streams stay, and so do those who have them.                        *)
LEMMA StreamsSame ==
  ASSUME \A a \in Addrs : StreamCounted(a), stream' = stream,
         \A s \in Threads : HasStream(s)' <=> HasStream(s),
         \A s \in Threads : HasStream(s) => Mine(s)'.addr = Mine(s).addr
  PROVE  \A a \in Addrs : StreamCounted(a)'
<1>1. \A a \in Addrs : StreamUsers(a)' = StreamUsers(a)
  BY DEF StreamUsers
<1> QED
  BY <1>1 DEF StreamCounted

(* A step that changes nothing in the tables, nor who is in them.          *)
LEMMA CallStep ==
  ASSUME FilesInv, NEW t \in Threads,
         th' \in [Threads -> FileThread], \A s \in Threads : s # t => th'[s] = th[s],
         UNCHANGED <<opened, used, tables, opens, strayed>>,
         objs' \in Seq(FileObject), DOMAIN objs' = DOMAIN objs,
         \A o \in DOMAIN objs : objs'[o].alive = objs[o].alive /\ objs'[o].meta = objs[o].meta,
         InPlace(t, UserPlaces)' <=> InPlace(t, UserPlaces),
         InPlace(t, EntryPlaces)' <=> InPlace(t, EntryPlaces),
         HasStream(t)' <=> HasStream(t),
         InPlace(t, HoldPlaces \cup {"removestream"})' =>
           /\ InPlace(t, HoldPlaces) /\ Mine(t)'.meta = Mine(t).meta
           /\ Mine(t)'.fd = Mine(t).fd /\ Mine(t)'.addr = Mine(t).addr,
         ThreadSound(t)'
  PROVE  FilesInv'
<1> USE DEF FilesInv, tables
<1>1. FileTypes'
  BY DEF FileTypes
<1>2. ASSUME NEW s \in Threads PROVE ThreadSound(s)'
  <2>1. CASE s = t
    BY <2>1
  <2>2. CASE s # t
    BY <2>2, OtherSound DEF ThreadSound
  <2> QED
    BY <2>1, <2>2
<1>3. Apart'
  BY DEF Apart, InPlace, Mine
<1>4. \A s \in Threads : \A m : FileUser(s, m)' <=> FileUser(s, m)
  BY DEF FileUser, InPlace, Mine, HoldPlaces
<1>5. \A m \in Metas : FileUsers(m)' = FileUsers(m)
  BY <1>4 DEF FileUsers
<1>6. ASSUME NEW m \in Metas PROVE FileCounted(m)'
  BY <1>5 DEF FileCounted
<1>7. ObjectsNamed'
  BY DEF ObjectsNamed
<1>8. \A s \in Threads : \A d : HasEntry(s, d)' <=> HasEntry(s, d)
  BY DEF HasEntry, InPlace, Mine, HoldPlaces, EntryPlaces, UserPlaces
<1>9. \A s \in Threads :
        (HasStream(s)' <=> HasStream(s)) /\ (HasStream(s) => Mine(s)'.addr = Mine(s).addr)
  BY DEF HasStream, InPlace, Mine, HoldPlaces, UserPlaces, InUse
<1>10. EntriesOwned'
  BY <1>8 DEF EntriesOwned
<1>11. \A a \in Addrs : StreamCounted(a)'
  BY <1>9, StreamsSame
<1> QED
  BY <1>1, <1>2, <1>3, <1>6, <1>7, <1>10, <1>11

(* What happens to a position is nothing to the life of the object.        *)
LEMMA ObjectPut ==
  ASSUME objs \in Seq(FileObject), NEW o \in DOMAIN objs, NEW x \in FileObject,
         x.alive = objs[o].alive, x.meta = objs[o].meta, objs' = [objs EXCEPT ![o] = x]
  PROVE  /\ objs' \in Seq(FileObject) /\ DOMAIN objs' = DOMAIN objs
         /\ \A p \in DOMAIN objs : objs'[p].alive = objs[p].alive /\ objs'[p].meta = objs[p].meta
<1> HIDE DEF FileObject
<1> QED
  OBVIOUS

LEMMA PositionMoved ==
  ASSUME objs \in Seq(FileObject), NEW o \in DOMAIN objs, NEW i,
         objs' = objs \/ objs' = [objs EXCEPT ![o].pos[i] = @ + 1]
  PROVE  /\ objs' \in Seq(FileObject) /\ DOMAIN objs' = DOMAIN objs
         /\ \A p \in DOMAIN objs : objs'[p].alive = objs[p].alive /\ objs'[p].meta = objs[p].meta
<1>1. CASE objs' = objs
  BY <1>1
<1>2. CASE objs' = [objs EXCEPT ![o].pos[i] = @ + 1]
  <2> DEFINE q == [objs[o].pos EXCEPT ![i] = @ + 1]
  <2> DEFINE B == BOOLEAN
  <2>o. objs[o] \in FileObject
    OBVIOUS
  <2>1. objs[o] \in [meta : Metas, alive : B, pos : Seq(Nat), moves : Nat]
    BY <2>o DEF FileObject
  <2>2. q \in Seq(Nat)
    <3> DEFINE n == Len(objs[o].pos)
    <3>1. n \in Nat /\ objs[o].pos \in [1 .. n -> Nat]
      BY <2>1
    <3>2. \A k \in 1 .. n : objs[o].pos[k] \in Nat /\ objs[o].pos[k] + 1 \in Nat
      BY <3>1
    <3> HIDE DEF n
    <3>3. q = [k \in 1 .. n |-> IF k = i THEN objs[o].pos[k] + 1 ELSE objs[o].pos[k]]
      BY <3>1
    <3>4. q \in [1 .. n -> Nat]
      BY <3>2, <3>3
    <3> QED
      BY <3>1, <3>4
  <2> HIDE DEF q, B
  <2>3. /\ [objs[o] EXCEPT !.pos = q] \in [meta : Metas, alive : B, pos : Seq(Nat), moves : Nat]
        /\ [objs[o] EXCEPT !.pos = q].alive = objs[o].alive
        /\ [objs[o] EXCEPT !.pos = q].meta = objs[o].meta
    BY <2>1, <2>2
  <2>4. objs' = [objs EXCEPT ![o] = [objs[o] EXCEPT !.pos = q]]
    BY <1>2 DEF q
  <2> QED
    BY <2>3, <2>4, ObjectPut DEF FileObject, B
<1> QED
  BY <1>1, <1>2

(* The steps that look something up, or move a position.                   *)
LEMMA LookupsKeep ==
  ASSUME FilesInv, NEW t \in Threads,
         \/ \E op \in {"read", "close"} : LookupStream(t, op)
         \/ LookupDescriptor(t) \/ LoadPosition(t) \/ StorePosition(t)
  PROVE  FilesInv'
<1>t. FileTypes /\ ThreadSound(t) /\ th[t] \in FileThread
  BY DEF FilesInv, FileTypes
<1>o. objs \in Seq(FileObject)
  BY <1>t DEF FileTypes
<1> USE DEF tables
<1>1. ASSUME NEW op \in {"read", "close"}, LookupStream(t, op) PROVE FilesInv'
  <2> DEFINE new == [th[t] EXCEPT !.pc = "lookup", !.op = op, !.fd = Mine(t).fd]
  <2>1. InPlace(t, {"open"})
    BY <1>1 DEF LookupStream, At, InPlace
  <2>2. t \in Streaming =>
          stream[Mine(t).addr] # None /\ stream[Mine(t).addr].fd = Mine(t).fd
    BY <1>t, <2>1 DEF ThreadSound, HasStream, InPlace, InUse
  <2>b. th' = [th EXCEPT ![t].pc = "lookup", ![t].op = op, ![t].fd = Mine(t).fd]
    BY <1>1, <2>2 DEF LookupStream
  <2>4. th' = [th EXCEPT ![t] = new]
    BY <1>t, <2>b DEF FileTypes
  <2>5. new \in FileThread
    BY <1>t DEF FileThread, FilePlaces, Mine, Descriptor
  <2>6. /\ th' \in [Threads -> FileThread] /\ \A s \in Threads : s # t => th'[s] = th[s]
        /\ th'[t] = new
    BY <1>t, <2>4, <2>5 DEF FileTypes
  <2>7. new.pc = "lookup" /\ new.mine = th[t].mine /\ new.fd = th[t].mine.fd
    BY <1>t DEF FileThread, Mine
  <2> HIDE DEF new
  <2> USE DEF InPlace, InUse, UserPlaces, EntryPlaces, HoldPlaces
  <2>8. UNCHANGED <<opened, used, tables, objs, opens, strayed>>
    BY <1>1 DEF LookupStream
  <2>9. ThreadSound(t)'
    BY <1>t, <2>1, <2>6, <2>7, <2>8 DEF ThreadSound, HasStream, Mine
  <2>10. HasStream(t)' <=> HasStream(t)
    BY <2>1, <2>6, <2>7 DEF HasStream
  <2> QED
    BY <1>o, <2>1, <2>6, <2>7, <2>8, <2>9, <2>10, CallStep DEF Mine
<1>2. CASE LookupDescriptor(t)
  <2> DEFINE place == IF th[t].op = "read" THEN "load" ELSE "removefile"
  <2> DEFINE new == [th[t] EXCEPT !.pc = place, !.obj = Mine(t).obj, !.index = Mine(t).index]
  <2>1. InPlace(t, {"lookup"})
    BY <1>2 DEF LookupDescriptor, At, InPlace
  <2>2. /\ desc[Mine(t).fd] = [obj |-> Mine(t).obj, index |-> Mine(t).index, users |-> 1]
        /\ th[t].fd = Mine(t).fd /\ Mine(t).fd \in Fds /\ Mine(t).obj \in Nat
        /\ Mine(t).index \in Nat
    BY <1>t, <2>1 DEF ThreadSound, InPlace, InUse, UserPlaces, EntryPlaces, HoldPlaces
  <2>3. desc[Mine(t).fd] # None /\ th[t].fd # None
    <3>1. desc[Mine(t).fd] \in [obj : Nat, index : Nat, users : Nat]
      BY <2>2
    <3> QED
      BY <2>2, <3>1, ClientFilesConstants
  <2>4. /\ desc[th[t].fd].obj = Mine(t).obj /\ desc[th[t].fd].index = Mine(t).index
    BY <2>2
  <2>5. th' = [th EXCEPT ![t].pc = place, ![t].obj = Mine(t).obj, ![t].index = Mine(t).index]
    BY <1>2, <2>2, <2>3, <2>4 DEF LookupDescriptor
  <2>6. th' = [th EXCEPT ![t] = new]
    BY <1>t, <2>5 DEF FileTypes
  <2>7. new \in FileThread
    BY <1>t, <2>2 DEF FileThread, FilePlaces
  <2>8. /\ th' \in [Threads -> FileThread] /\ \A s \in Threads : s # t => th'[s] = th[s]
        /\ th'[t] = new
    BY <1>t, <2>6, <2>7 DEF FileTypes
  <2>9. /\ new.pc \in {"load", "removefile"} /\ new.mine = th[t].mine /\ new.fd = th[t].fd
        /\ new.obj = Mine(t).obj /\ new.index = Mine(t).index
    BY <1>t DEF FileThread
  <2> HIDE DEF new
  <2> USE DEF InPlace, InUse, UserPlaces, EntryPlaces, HoldPlaces
  <2>10. UNCHANGED <<opened, used, tables, objs, opens, strayed>>
    BY <1>2 DEF LookupDescriptor
  <2>11. ThreadSound(t)'
    BY <1>t, <2>1, <2>2, <2>8, <2>9, <2>10 DEF ThreadSound, HasStream, Mine
  <2>12. HasStream(t)' <=> HasStream(t)
    BY <2>1, <2>8, <2>9 DEF HasStream
  <2> QED
    BY <1>o, <2>1, <2>8, <2>9, <2>10, <2>11, <2>12, CallStep DEF Mine
<1>3. InPlace(t, {"load", "store"}) => th[t].obj \in DOMAIN objs
  <2>1. InPlace(t, {"load", "store"}) =>
          Mine(t).meta \in Metas /\ file[Mine(t).meta] # None /\ file[Mine(t).meta].obj = th[t].obj
    BY <1>t DEF ThreadSound, InPlace, InUse, UserPlaces, HoldPlaces
  <2> QED
    BY <2>1 DEF FilesInv, FileCounted
<1>4. CASE LoadPosition(t)
  <2> DEFINE new == [th[t] EXCEPT !.pc = "store", !.moves = objs[th[t].obj].moves]
  <2>1. InPlace(t, {"load"})
    BY <1>4 DEF LoadPosition, At, InPlace
  <2>2. objs[th[t].obj].moves \in Nat
    <3>1. objs[th[t].obj] \in FileObject
      BY <1>3, <1>o, <2>1 DEF InPlace
    <3> QED
      BY <3>1 DEF FileObject
  <2>3. th' = [th EXCEPT ![t] = new]
    BY <1>4, <1>t DEF LoadPosition, FileTypes
  <2>4. new \in FileThread
    BY <1>t, <2>2 DEF FileThread, FilePlaces
  <2>5. /\ th' \in [Threads -> FileThread] /\ \A s \in Threads : s # t => th'[s] = th[s]
        /\ th'[t] = new
    BY <1>t, <2>3, <2>4 DEF FileTypes
  <2>6. /\ new.pc = "store" /\ new.mine = th[t].mine /\ new.fd = th[t].fd
        /\ new.obj = th[t].obj /\ new.index = th[t].index
    BY <1>t DEF FileThread
  <2> HIDE DEF new
  <2> USE DEF InPlace, InUse, UserPlaces, EntryPlaces, HoldPlaces
  <2>7. UNCHANGED <<opened, used, tables, objs, opens, strayed>>
    BY <1>4 DEF LoadPosition
  <2>8. ThreadSound(t)'
    BY <1>t, <2>1, <2>5, <2>6, <2>7 DEF ThreadSound, HasStream, Mine
  <2>9. HasStream(t)' <=> HasStream(t)
    BY <2>1, <2>5, <2>6 DEF HasStream
  <2> QED
    BY <1>o, <2>1, <2>5, <2>6, <2>7, <2>8, <2>9, CallStep DEF Mine
<1>5. CASE StorePosition(t)
  <2> DEFINE new == [th[t] EXCEPT !.pc = "open", !.moves = 0, !.reads = @ + 1]
  <2>1. InPlace(t, {"store"})
    BY <1>5 DEF StorePosition, At, InPlace
  <2>2. /\ objs' \in Seq(FileObject) /\ DOMAIN objs' = DOMAIN objs
        /\ \A o \in DOMAIN objs : objs'[o].alive = objs[o].alive /\ objs'[o].meta = objs[o].meta
    BY <1>5, <1>3, <1>o, <2>1, PositionMoved DEF StorePosition, InPlace
  <2>3. th' = [th EXCEPT ![t] = new]
    BY <1>5, <1>t DEF StorePosition, FileTypes
  <2>4. new \in FileThread
    <3>1. th[t].reads \in Nat /\ th[t].reads + 1 \in Nat
      BY <1>t DEF FileThread
    <3> QED
      BY <1>t, <3>1 DEF FileThread, FilePlaces
  <2>5. /\ th' \in [Threads -> FileThread] /\ \A s \in Threads : s # t => th'[s] = th[s]
        /\ th'[t] = new
    BY <1>t, <2>3, <2>4 DEF FileTypes
  <2>6. new.pc = "open" /\ new.mine = th[t].mine
    BY <1>t DEF FileThread
  <2> HIDE DEF new
  <2> USE DEF InPlace, InUse, UserPlaces, EntryPlaces, HoldPlaces
  <2>7. UNCHANGED <<opened, used, tables, opens, strayed>>
    BY <1>5 DEF StorePosition
  <2>8. ThreadSound(t)'
    BY <1>t, <2>1, <2>5, <2>6, <2>7 DEF ThreadSound, HasStream, Mine
  <2>9. HasStream(t)' <=> HasStream(t)
    BY <2>1, <2>5, <2>6 DEF HasStream
  <2> QED
    BY <2>1, <2>2, <2>5, <2>6, <2>7, <2>8, <2>9, CallStep DEF Mine
<1> QED
  BY <1>1, <1>2, <1>4, <1>5

(* An fopen that no server answers, and a call of stat.                    *)
LEMMA OthersKeep ==
  ASSUME FilesInv, NEW t \in Threads,
         \/ AddFileFails(t) \/ StatAnswer(t) \/ \E m \in Metas : StatLookup(t, m)
  PROVE  FilesInv'
<1>t. FileTypes /\ ThreadSound(t) /\ th[t] \in FileThread /\ objs \in Seq(FileObject)
  BY DEF FilesInv, FileTypes
<1> USE DEF tables
<1>1. CASE AddFileFails(t)
  <2>1. /\ InPlace(t, {"addfile"}) /\ Goto(t, "kernelclose")
        /\ UNCHANGED <<opened, used, tables, objs, opens, strayed>>
    BY <1>1 DEF AddFileFails, At, InPlace
  <2>2. /\ th' \in [Threads -> FileThread] /\ \A s \in Threads : s # t => th'[s] = th[s]
        /\ th'[t].pc = "kernelclose" /\ th'[t].mine = th[t].mine /\ th'[t].fd = th[t].fd
    BY <1>t, <2>1, GotoEffect DEF FilePlaces
  <2> USE DEF InPlace, InUse, UserPlaces, EntryPlaces, HoldPlaces
  <2>3. ~HasStream(t) /\ ~HasStream(t)'
    BY <1>t, <2>1, <2>2 DEF HasStream, ThreadSound, Mine
  <2>4. ThreadSound(t)'
    BY <1>t, <2>1, <2>2, <2>3 DEF ThreadSound, Mine
  <2> QED
    BY <1>t, <2>1, <2>2, <2>3, <2>4, CallStep DEF Mine
<1>2. CASE StatAnswer(t) \/ \E m \in Metas : StatLookup(t, m)
  <2>1. /\ InPlace(t, {"idle", "stat"}) /\ UNCHANGED <<opened, used, tables, objs, opens, strayed>>
    BY <1>2 DEF StatAnswer, StatLookup, At, InPlace
  <2>2. /\ th' \in [Threads -> FileThread] /\ \A s \in Threads : s # t => th'[s] = th[s]
        /\ th'[t].pc \in {"idle", "stat"}
    <3>1. CASE StatAnswer(t)
      BY <1>t, <3>1, ReturnEffect DEF StatAnswer
    <3>2. ASSUME NEW m \in Metas, StatLookup(t, m)
          PROVE  /\ th' \in [Threads -> FileThread] /\ \A s \in Threads : s # t => th'[s] = th[s]
                 /\ th'[t].pc \in {"idle", "stat"}
      <4> DEFINE new == [th[t] EXCEPT !.pc = "stat", !.obj = file[m].obj]
      <4>1. file[m] \in FileEntry
        BY <1>t, <3>2 DEF StatLookup, FileTypes
      <4>2. file[m].obj \in Nat
        BY <4>1 DEF FileEntry
      <4>3. new \in FileThread /\ new.pc = "stat"
        BY <1>t, <4>2 DEF FileThread, FilePlaces
      <4>4. th' = [th EXCEPT ![t] = new]
        BY <1>t, <3>2 DEF StatLookup, FileTypes
      <4> HIDE DEF new
      <4> QED
        BY <1>t, <4>3, <4>4 DEF FileTypes
    <3> QED
      BY <1>2, <3>1, <3>2
  <2> USE DEF InPlace, InUse, UserPlaces, EntryPlaces, HoldPlaces
  <2>3. ~HasStream(t) /\ ~HasStream(t)' /\ ThreadSound(t)'
    BY <2>1, <2>2 DEF HasStream, ThreadSound
  <2> QED
    BY <1>t, <2>1, <2>2, <2>3, CallStep
<1> QED
  BY <1>1, <1>2

(* A new position in the object: its life goes on.                         *)
LEMMA NewFilePosIndexKeeps ==
  ASSUME FilesInv, NEW t \in Threads, NewFilePosIndex(t)
  PROVE  FilesInv'
<1>t. FileTypes /\ ThreadSound(t) /\ th[t] \in FileThread /\ objs \in Seq(FileObject)
  BY DEF FilesInv, FileTypes
<1> DEFINE o == Mine(t).obj
<1> DEFINE p == Append(objs[o].pos, 0)
<1> DEFINE n == Len(objs[o].pos) + 1
<1> DEFINE moved == IF Len(objs[o].pos) \in {1, 2, 4, 8} THEN objs[o].moves + 1 ELSE objs[o].moves
<1> DEFINE B == BOOLEAN
<1>1. InPlace(t, {"newindex"}) /\ UNCHANGED <<opened, used, tables, opens, strayed>>
  BY DEF NewFilePosIndex, At, InPlace
<1>2. o \in DOMAIN objs
  <2>1. Mine(t).meta \in Metas /\ file[Mine(t).meta] # None /\ file[Mine(t).meta].obj = o
    BY <1>t, <1>1 DEF ThreadSound, InPlace, UserPlaces, HoldPlaces
  <2> QED
    BY <2>1 DEF FilesInv, FileCounted
<1>3. objs[o] \in FileObject
  BY <1>t, <1>2
<1>4. objs[o] \in [meta : Metas, alive : B, pos : Seq(Nat), moves : Nat]
  BY <1>3 DEF FileObject
<1>5. p \in Seq(Nat) /\ n \in Nat /\ moved \in Nat
  BY <1>4
<1>6. /\ objs' = [objs EXCEPT ![o].pos = p, ![o].moves = moved]
      /\ th' = [th EXCEPT ![t].pc = "adddesc", ![t].mine.index = n]
  BY <1>t, <1>2 DEF NewFilePosIndex
<1> HIDE DEF o, p, n, moved, B
<1> DEFINE x == [objs[o] EXCEPT !.pos = p, !.moves = moved]
<1>7. /\ x \in [meta : Metas, alive : B, pos : Seq(Nat), moves : Nat]
      /\ x.alive = objs[o].alive /\ x.meta = objs[o].meta
  BY <1>4, <1>5
<1>8. objs' = [objs EXCEPT ![o] = x]
  BY <1>t, <1>2, <1>6
<1>9. x \in FileObject
  BY <1>7 DEF FileObject, B
<1> HIDE DEF x
<1>10. /\ objs' \in Seq(FileObject) /\ DOMAIN objs' = DOMAIN objs
       /\ \A q \in DOMAIN objs : objs'[q].alive = objs[q].alive /\ objs'[q].meta = objs[q].meta
  BY <1>t, <1>2, <1>7, <1>8, <1>9, ObjectPut
<1> DEFINE mine == [th[t].mine EXCEPT !.index = n]
<1> DEFINE new == [th[t] EXCEPT !.pc = "adddesc", !.mine = mine]
<1>11. /\ mine \in Descriptor /\ mine.index = n /\ mine.meta = th[t].mine.meta
       /\ mine.fd = th[t].mine.fd /\ mine.addr = th[t].mine.addr /\ mine.obj = th[t].mine.obj
  BY <1>t, <1>5 DEF FileThread, Descriptor
<1>12. th' = [th EXCEPT ![t] = new]
  BY <1>t, <1>6 DEF FileTypes, FileThread
<1> HIDE DEF mine
<1>13. new \in FileThread /\ new.pc = "adddesc" /\ new.mine = mine
  BY <1>t, <1>11 DEF FileThread, FilePlaces
<1> HIDE DEF new
<1>14. /\ th' \in [Threads -> FileThread] /\ \A s \in Threads : s # t => th'[s] = th[s]
       /\ th'[t] = new
  BY <1>t, <1>12, <1>13 DEF FileTypes
<1> USE DEF InPlace, InUse, UserPlaces, EntryPlaces, HoldPlaces
<1>15. ~HasStream(t) /\ ~HasStream(t)'
  BY <1>1, <1>13, <1>14 DEF HasStream
<1>16. ThreadSound(t)'
  BY <1>t, <1>1, <1>5, <1>11, <1>13, <1>14, <1>15 DEF ThreadSound, Mine, tables
<1> QED
  BY <1>t, <1>1, <1>10, <1>11, <1>13, <1>14, <1>15, <1>16, CallStep DEF Mine

(* A step that leaves the files alone, and the entries of other threads.   *)
LEMMA TableStep ==
  ASSUME FilesInv, NEW t \in Threads, FileTypes', UNCHANGED <<file, objs>>,
         \A s \in Threads : s # t => th'[s] = th[s],
         InPlace(t, UserPlaces)' <=> InPlace(t, UserPlaces),
         InPlace(t, UserPlaces)' => Mine(t)'.meta = Mine(t).meta,
         \A s \in Threads : s # t /\ InPlace(s, HoldPlaces) =>
           /\ InPlace(t, HoldPlaces)' => Mine(s).fd # Mine(t)'.fd
           /\ opened'[Mine(s).fd] = opened[Mine(s).fd] /\ desc'[Mine(s).fd] = desc[Mine(s).fd],
         \A s \in Threads : s # t /\ HasStream(s) =>
           /\ stream'[Mine(s).addr] # None
           /\ stream'[Mine(s).addr].fd = stream[Mine(s).addr].fd,
         EntriesOwned', \A a \in Addrs : StreamCounted(a)', ThreadSound(t)'
  PROVE  FilesInv'
<1> USE DEF FilesInv
<1>1. \A s \in Threads : InPlace(s, EntryPlaces) \/ InPlace(s, UserPlaces) => InPlace(s, HoldPlaces)
  BY DEF InPlace, EntryPlaces, UserPlaces, HoldPlaces
<1>2. ASSUME NEW s \in Threads PROVE ThreadSound(s)'
  <2>1. CASE s = t
    BY <2>1
  <2>2. CASE s # t
    BY <1>1, <2>2, OtherSound DEF ThreadSound
  <2> QED
    BY <2>1, <2>2
<1>3. Apart'
  BY DEF Apart, InPlace, Mine
<1>4. \A s \in Threads : \A m : FileUser(s, m)' <=> FileUser(s, m)
  BY DEF FileUser, InPlace, Mine
<1>5. \A m \in Metas : FileUsers(m)' = FileUsers(m)
  BY <1>4 DEF FileUsers
<1>6. ASSUME NEW m \in Metas PROVE FileCounted(m)'
  BY <1>5 DEF FileCounted
<1>7. ObjectsNamed'
  BY DEF ObjectsNamed
<1> QED
  BY <1>2, <1>3, <1>6, <1>7

(* A step that leaves the streams alone as well.                           *)
LEMMA DescriptorStep ==
  ASSUME FilesInv, NEW t \in Threads, FileTypes', UNCHANGED <<file, objs, stream>>,
         \A s \in Threads : s # t => th'[s] = th[s],
         InPlace(t, UserPlaces)' <=> InPlace(t, UserPlaces),
         InPlace(t, UserPlaces)' => Mine(t)'.meta = Mine(t).meta,
         \A s \in Threads : s # t /\ InPlace(s, HoldPlaces) =>
           /\ InPlace(t, HoldPlaces)' => Mine(s).fd # Mine(t)'.fd
           /\ opened'[Mine(s).fd] = opened[Mine(s).fd] /\ desc'[Mine(s).fd] = desc[Mine(s).fd],
         HasStream(t)' <=> HasStream(t), HasStream(t) => Mine(t)'.addr = Mine(t).addr,
         EntriesOwned', ThreadSound(t)'
  PROVE  FilesInv'
<1>1. \A s \in Threads :
        (HasStream(s)' <=> HasStream(s)) /\ (HasStream(s) => Mine(s)'.addr = Mine(s).addr)
  BY DEF HasStream, InPlace, Mine
<1>2. \A a \in Addrs : StreamCounted(a)'
  BY <1>1, StreamsSame DEF FilesInv
<1>3. \A s \in Threads : HasStream(s) => stream[Mine(s).addr] # None
  BY DEF FilesInv, ThreadSound
<1> QED
  BY <1>2, <1>3, TableStep

(* The meta file is opened, with a descriptor that nobody else has.        *)
LEMMA OpenKeeps ==
  ASSUME FilesInv, NEW t \in Threads, NEW m \in Metas, Open(t, m)
  PROVE  FilesInv'
<1>t. FileTypes /\ (\A s \in Threads : ThreadSound(s)) /\ EntriesOwned
  BY DEF FilesInv
<1>1. PICK d \in {e \in Fds : opened[e] = None},
           a \in IF t \in Streaming THEN Addrs \ used ELSE {None} :
        /\ opened' = [opened EXCEPT ![d] = m] /\ used' = used \cup ({a} \ {None})
        /\ th' = [th EXCEPT ![t] = [Idle EXCEPT !.pc = "addfile",
             !.mine = [Nothing EXCEPT !.meta = m, !.fd = d, !.addr = a]]]
  BY DEF Open
<1>2. At(t, "idle") /\ opens' = opens + 1 /\ UNCHANGED <<file, desc, stream, objs, strayed>>
  BY DEF Open, tables
<1> DEFINE new == [Idle EXCEPT !.pc = "addfile",
                     !.mine = [Nothing EXCEPT !.meta = m, !.fd = d, !.addr = a]]
<1>3. /\ new \in FileThread /\ new.pc = "addfile" /\ new.fd = None
      /\ new.mine.meta = m /\ new.mine.fd = d /\ new.mine.addr = a
  BY DEF Idle, Nothing, FileThread, Descriptor, FilePlaces
<1>4. th' = [th EXCEPT ![t] = new]
  BY <1>1
<1> HIDE DEF new
<1>5. /\ th' \in [Threads -> FileThread] /\ \A s \in Threads : s # t => th'[s] = th[s]
      /\ th'[t] = new
  BY <1>t, <1>3, <1>4 DEF FileTypes
<1>6. FileTypes'
  <2>1. opened' \in [Fds -> Metas \cup {None}]
    BY <1>t, <1>1 DEF FileTypes
  <2>2. used' \subseteq Addrs /\ opens' \in Nat
    BY <1>t, <1>1, <1>2 DEF FileTypes
  <2> QED
    BY <1>t, <1>2, <1>5, <2>1, <2>2 DEF FileTypes
<1>7. opened'[d] = m /\ m # None /\ opened[d] = None /\ \A e \in Fds : e # d => opened'[e] = opened[e]
  BY <1>t, <1>1, ClientFilesConstants DEF FileTypes
<1>8. ASSUME NEW s \in Threads, s # t, InPlace(s, HoldPlaces)
      PROVE  Mine(s).fd # d /\ opened'[Mine(s).fd] = opened[Mine(s).fd]
  <2>1. opened[Mine(s).fd] # None /\ Mine(s).fd \in Fds
    BY <1>t, <1>8 DEF ThreadSound, InPlace
  <2> QED
    BY <1>7, <2>1
<1> USE DEF InPlace, InUse, UserPlaces, EntryPlaces, HoldPlaces
<1>9. ThreadSound(t)'
  BY <1>1, <1>3, <1>5, <1>7 DEF ThreadSound, HasStream, Mine
<1>10. ~InPlace(t, EntryPlaces) /\ ~InPlace(t, EntryPlaces)' /\ ~HasStream(t) /\ ~HasStream(t)'
  BY <1>2, <1>3, <1>5 DEF HasStream, At
<1>11. \A s \in Threads, e \in Fds : HasEntry(s, e) => HasEntry(s, e)'
  BY <1>5, <1>10 DEF HasEntry, HasStream, Mine
<1>12. EntriesOwned'
  BY <1>t, <1>2, <1>11 DEF EntriesOwned
<1>13. ~InPlace(t, UserPlaces) /\ ~InPlace(t, UserPlaces)' /\ Mine(t)'.fd = d
  BY <1>2, <1>3, <1>5 DEF At, Mine
<1> QED
  BY <1>2, <1>5, <1>6, <1>8, <1>9, <1>10, <1>12, <1>13, DescriptorStep

(* It is closed, after the entry of the descriptor was removed.            *)
LEMMA KernelCloseKeeps ==
  ASSUME FilesInv, NEW t \in Threads, KernelClose(t)
  PROVE  FilesInv'
<1>t. FileTypes /\ (\A s \in Threads : ThreadSound(s)) /\ EntriesOwned /\ Apart
  BY DEF FilesInv
<1>1. /\ At(t, "kernelclose") /\ opened' = [opened EXCEPT ![Mine(t).fd] = None]
      /\ used' = used \ {Mine(t).addr} /\ UNCHANGED <<file, desc, stream, objs, opens, strayed>>
  BY DEF KernelClose, tables
<1>2. /\ th' \in [Threads -> FileThread] /\ \A s \in Threads : s # t => th'[s] = th[s]
      /\ IF t \in Streaming /\ th[t].fd # None
         THEN th'[t].pc = "removestream" /\ th'[t].mine = th[t].mine ELSE th'[t].pc = "idle"
  <2>1. CASE t \in Streaming /\ th[t].fd # None
    BY <1>t, <2>1, GotoEffect DEF KernelClose, FilePlaces
  <2>2. CASE ~(t \in Streaming /\ th[t].fd # None)
    BY <1>t, <2>2, ReturnEffect DEF KernelClose
  <2> QED
    BY <2>1, <2>2
<1>3. FileTypes'
  BY <1>t, <1>1, <1>2 DEF FileTypes
<1>4. ASSUME NEW s \in Threads, s # t, InPlace(s, HoldPlaces)
      PROVE  opened'[Mine(s).fd] = opened[Mine(s).fd]
  <2>1. InPlace(t, HoldPlaces)
    BY <1>1 DEF InPlace, At, HoldPlaces
  <2>2. Mine(s).fd # Mine(t).fd /\ Mine(s).fd \in Fds
    BY <1>t, <1>4, <2>1 DEF Apart, ThreadSound, InPlace
  <2> QED
    BY <1>t, <1>1, <2>2 DEF FileTypes
<1> USE DEF InPlace, InUse, UserPlaces, EntryPlaces, HoldPlaces
<1>5. HasStream(t)' <=> HasStream(t)
  BY <1>1, <1>2 DEF HasStream, At, Mine
<1>6. HasStream(t) => Mine(t)' = Mine(t)
  BY <1>1, <1>2 DEF HasStream, At, Mine
<1>7. ThreadSound(t)'
  BY <1>t, <1>1, <1>2, <1>5, <1>6 DEF ThreadSound, At, Mine
<1>8. \A s \in Threads, e \in Fds : HasEntry(s, e) => HasEntry(s, e)'
  BY <1>1, <1>2 DEF HasEntry, HasStream, At, Mine
<1>9. EntriesOwned'
  BY <1>t, <1>1, <1>8 DEF EntriesOwned
<1>10. ~InPlace(t, UserPlaces) /\ ~InPlace(t, UserPlaces)' /\ ~InPlace(t, HoldPlaces)'
  BY <1>1, <1>2 DEF At
<1> QED
  BY <1>1, <1>2, <1>3, <1>4, <1>5, <1>6, <1>7, <1>9, <1>10, DescriptorStep

(* Nobody has an entry under a descriptor that was just opened: it would   *)
(* be of a thread that has the same descriptor of the system.              *)
LEMMA AddDescriptorKeeps ==
  ASSUME FilesInv, NEW t \in Threads, AddDescriptor(t)
  PROVE  FilesInv'
<1>t. FileTypes /\ (\A s \in Threads : ThreadSound(s)) /\ EntriesOwned /\ Apart
  BY DEF FilesInv
<1> DEFINE d == Mine(t).fd
<1> DEFINE new == [obj |-> Mine(t).obj, index |-> Mine(t).index, users |-> 1]
<1>1. /\ At(t, "adddesc") /\ UNCHANGED <<opened, used, file, stream, objs, opens, strayed>>
      /\ Goto(t, IF t \in Streaming THEN "addstream" ELSE "open")
  BY DEF AddDescriptor
<1>2. /\ th' \in [Threads -> FileThread] /\ \A s \in Threads : s # t => th'[s] = th[s]
      /\ th'[t].pc = IF t \in Streaming THEN "addstream" ELSE "open"
      /\ th'[t].mine = th[t].mine
  BY <1>t, <1>1, GotoEffect DEF FilePlaces
<1>3. d \in Fds /\ Mine(t).obj \in Nat /\ Mine(t).index \in Nat
  BY <1>t, <1>1 DEF ThreadSound, InPlace, At, HoldPlaces, UserPlaces
<1>4. ASSUME NEW s \in Threads, s # t, InPlace(s, HoldPlaces)
      PROVE  Mine(s).fd # d
  <2>1. InPlace(t, HoldPlaces)
    BY <1>1 DEF InPlace, At, HoldPlaces, UserPlaces
  <2> QED
    BY <1>t, <1>4, <2>1 DEF Apart
<1>5. desc[d] = None
  <2>1. SUFFICES ASSUME desc[d] # None PROVE FALSE
    OBVIOUS
  <2>2. PICK s \in Threads : HasEntry(s, d)
    BY <1>t, <1>3, <2>1 DEF EntriesOwned
  <2>3. s # t /\ InPlace(s, HoldPlaces)
    BY <1>1, <2>2 DEF HasEntry, InPlace, At, EntryPlaces, HoldPlaces, UserPlaces, InUse
  <2> QED
    BY <1>4, <2>2, <2>3 DEF HasEntry
<1>6. desc' = [desc EXCEPT ![d] = new]
  BY <1>5, <1>t, <1>3 DEF AddDescriptor, FileTypes
<1>7. new \in DescEntry
  BY <1>3 DEF DescEntry
<1> HIDE DEF new
<1>8. /\ desc' \in [Fds -> DescEntry \cup {None}] /\ desc'[d] = new
      /\ \A e \in Fds : e # d => desc'[e] = desc[e]
  BY <1>t, <1>3, <1>6, <1>7 DEF FileTypes
<1>9. FileTypes'
  BY <1>t, <1>1, <1>2, <1>8 DEF FileTypes
<1> USE DEF InPlace, InUse, UserPlaces, EntryPlaces, HoldPlaces
<1>10. ~HasStream(t) /\ ~HasStream(t)'
  BY <1>1, <1>2 DEF HasStream, At
<1>11. ThreadSound(t)'
  BY <1>t, <1>1, <1>2, <1>8, <1>10 DEF ThreadSound, At, Mine, new
<1>12. ASSUME NEW s \in Threads, s # t, InPlace(s, HoldPlaces)
       PROVE  /\ Mine(s).fd # Mine(t)'.fd /\ opened'[Mine(s).fd] = opened[Mine(s).fd]
              /\ desc'[Mine(s).fd] = desc[Mine(s).fd]
  <2>1. Mine(s).fd \in Fds /\ Mine(s).fd # d
    BY <1>t, <1>4, <1>12 DEF ThreadSound
  <2>2. Mine(t)'.fd = d
    BY <1>2 DEF Mine
  <2> QED
    BY <1>1, <1>8, <2>1, <2>2
<1>13. /\ \A s \in Threads, e \in Fds : HasEntry(s, e) => HasEntry(s, e)'
       /\ InPlace(t, EntryPlaces)' /\ Mine(t)'.fd = d
  BY <1>1, <1>2, <1>10 DEF HasEntry, HasStream, At, Mine
<1>14. EntriesOwned'
  <2>1. ASSUME NEW e \in Fds, desc'[e] # None PROVE \E s \in Threads : HasEntry(s, e)'
    <3>1. CASE e = d
      BY <1>13, <3>1 DEF HasEntry
    <3>2. CASE e # d
      <4>1. PICK s \in Threads : HasEntry(s, e)
        BY <1>t, <1>8, <2>1, <3>2 DEF EntriesOwned
      <4> QED
        BY <1>13, <4>1
    <3> QED
      BY <3>1, <3>2
  <2> QED
    BY <1>t, <1>1, <1>13, <2>1 DEF EntriesOwned
<1>15. InPlace(t, UserPlaces) /\ InPlace(t, UserPlaces)' /\ Mine(t)' = Mine(t)
  BY <1>1, <1>2 DEF At, Mine
<1> QED
  BY <1>1, <1>2, <1>9, <1>10, <1>11, <1>12, <1>14, <1>15, DescriptorStep

(* The entry that goes is the thread's own, with one user.                 *)
LEMMA RemoveDescriptorKeeps ==
  ASSUME FilesInv, NEW t \in Threads, RemoveDescriptor(t)
  PROVE  FilesInv'
<1>t. FileTypes /\ (\A s \in Threads : ThreadSound(s)) /\ EntriesOwned /\ Apart
  BY DEF FilesInv
<1> DEFINE d == Mine(t).fd
<1>1. /\ At(t, "removedesc") /\ UNCHANGED <<opened, used, file, stream, objs, opens, strayed>>
      /\ Goto(t, "kernelclose")
  BY DEF RemoveDescriptor
<1>2. /\ th' \in [Threads -> FileThread] /\ \A s \in Threads : s # t => th'[s] = th[s]
      /\ th'[t].pc = "kernelclose" /\ th'[t].mine = th[t].mine /\ th'[t].fd = th[t].fd
  BY <1>t, <1>1, GotoEffect DEF FilePlaces
<1>3. d \in Fds /\ Mine(t).obj \in Nat /\ th[t].fd = d /\ desc[d].users = 1
  <2>1. d \in Fds /\ Mine(t).obj \in Nat /\ th[t].fd = d
    BY <1>t, <1>1 DEF ThreadSound, InPlace, At, HoldPlaces
  <2>2. desc[d] = [obj |-> Mine(t).obj, index |-> Mine(t).index, users |-> 1]
    BY <1>t, <1>1 DEF ThreadSound, InPlace, At, EntryPlaces
  <2> QED
    BY <2>1, <2>2
<1>4. desc' = [desc EXCEPT ![d] = None]
  BY <1>t, <1>3 DEF RemoveDescriptor, Less, FileTypes
<1>5. /\ desc' \in [Fds -> DescEntry \cup {None}] /\ desc'[d] = None
      /\ \A e \in Fds : e # d => desc'[e] = desc[e]
  BY <1>t, <1>3, <1>4 DEF FileTypes
<1>6. FileTypes'
  BY <1>t, <1>1, <1>2, <1>5 DEF FileTypes
<1> USE DEF InPlace, InUse, UserPlaces, EntryPlaces, HoldPlaces
<1>7. ASSUME NEW s \in Threads, s # t, InPlace(s, HoldPlaces)
      PROVE  /\ Mine(s).fd # Mine(t)'.fd /\ opened'[Mine(s).fd] = opened[Mine(s).fd]
             /\ desc'[Mine(s).fd] = desc[Mine(s).fd]
  <2>1. InPlace(t, HoldPlaces)
    BY <1>1 DEF At
  <2>2. Mine(s).fd \in Fds /\ Mine(s).fd # d
    BY <1>t, <1>7, <2>1 DEF Apart, ThreadSound
  <2>3. Mine(t)'.fd = d
    BY <1>2 DEF Mine
  <2> QED
    BY <1>1, <1>5, <2>2, <2>3
<1>8. (HasStream(t)' <=> HasStream(t)) /\ Mine(t)' = Mine(t)
  BY <1>1, <1>2, <1>3, ClientFilesConstants DEF HasStream, At, Mine
<1>9. ThreadSound(t)'
  BY <1>t, <1>1, <1>2, <1>8 DEF ThreadSound, At
<1>10. \A s \in Threads, e \in Fds : HasEntry(s, e) /\ e # d => HasEntry(s, e)'
  BY <1>1, <1>2 DEF HasEntry, HasStream, At, Mine
<1>11. EntriesOwned'
  BY <1>t, <1>1, <1>5, <1>10 DEF EntriesOwned
<1>12. ~InPlace(t, UserPlaces) /\ ~InPlace(t, UserPlaces)'
  BY <1>1, <1>2 DEF At
<1> QED
  BY <1>1, <1>2, <1>6, <1>7, <1>8, <1>9, <1>11, <1>12, DescriptorStep

(* The thread joins the entry of its address if there is one, which is of  *)
(* its descriptor unless it strays.                                        *)
LEMMA AddStreamKeeps ==
  ASSUME FilesInv, ~strayed', NEW t \in Threads, AddStream(t)
  PROVE  FilesInv'
<1>t. /\ FileTypes /\ (\A s \in Threads : ThreadSound(s)) /\ EntriesOwned /\ Apart
      /\ \A b \in Addrs : StreamCounted(b)
  BY DEF FilesInv
<1>a. PICK a : a = Mine(t).addr
  OBVIOUS
<1> DEFINE S == StreamUsers(a)
           f == IF stream[a] = None THEN [fd |-> Mine(t).fd, users |-> 1]
                ELSE [stream[a] EXCEPT !.users = @ + 1]
<1>1. /\ At(t, "addstream") /\ UNCHANGED <<opened, used, file, desc, objs, opens>>
      /\ Goto(t, "open") /\ strayed' \in BOOLEAN
      /\ stream[a] # None => stream[a].fd = Mine(t).fd
  BY <1>a DEF AddStream
<1>2. /\ th' \in [Threads -> FileThread] /\ \A s \in Threads : s # t => th'[s] = th[s]
      /\ th'[t].pc = "open" /\ th'[t].mine = th[t].mine
  BY <1>t, <1>1, GotoEffect DEF FilePlaces
<1>3. t \in Streaming /\ a \in Addrs /\ Mine(t).fd \in Fds
  BY <1>a, <1>t, <1>1 DEF ThreadSound, InPlace, At, HoldPlaces, UserPlaces
<1> USE DEF InPlace, InUse, UserPlaces, EntryPlaces, HoldPlaces
<1>5. ~HasStream(t) /\ HasStream(t)' /\ Mine(t)' = Mine(t)
  BY <1>1, <1>2, <1>3 DEF HasStream, At, Mine
<1>6. stream' = [stream EXCEPT ![a] = f]
  BY <1>a DEF AddStream
<1>7. IsFiniteSet(S) /\ Cardinality(S) \in Nat
  BY <1>t, <1>3, FS_CardinalityType DEF StreamCounted
<1>8. f \in StreamEntry /\ f.fd = Mine(t).fd /\ f.users = Cardinality(S) + 1
  <2>1. CASE stream[a] = None
    BY <1>t, <1>3, <2>1, FS_EmptySet DEF StreamCounted, StreamEntry
  <2>2. CASE stream[a] # None
    <3>1. stream[a] \in StreamEntry /\ stream[a].users = Cardinality(S)
      BY <1>t, <1>3, <2>2 DEF StreamCounted, FileTypes
    <3> QED
      BY <1>1, <1>7, <2>2, <3>1 DEF StreamEntry
  <2> QED
    BY <2>1, <2>2
<1>n. f # None
  BY <1>8, ClientFilesConstants DEF StreamEntry
<1> HIDE DEF f
<1>9. /\ stream' \in [Addrs -> StreamEntry \cup {None}] /\ stream'[a] = f
      /\ \A b \in Addrs : b # a => stream'[b] = stream[b]
  BY <1>t, <1>3, <1>6, <1>8 DEF FileTypes
<1>10. FileTypes'
  BY <1>t, <1>1, <1>2, <1>9 DEF FileTypes
<1>11. ThreadSound(t)'
  BY <1>t, <1>a, <1>1, <1>2, <1>n, <1>5, <1>8, <1>9 DEF ThreadSound, At
<1>12. ASSUME NEW s \in Threads, s # t, InPlace(s, HoldPlaces)
       PROVE  Mine(s).fd # Mine(t)'.fd
  <2>1. InPlace(t, HoldPlaces)
    BY <1>1 DEF At
  <2> QED
    BY <1>t, <1>5, <1>12, <2>1 DEF Apart
<1>13. \A s \in Threads, e \in Fds : HasEntry(s, e) => HasEntry(s, e)'
  BY <1>1, <1>2, <1>5 DEF HasEntry, At, Mine
<1>14. EntriesOwned'
  BY <1>t, <1>1, <1>13 DEF EntriesOwned
<1>15. /\ StreamUsers(a)' = S \cup {t} /\ t \notin S
       /\ \A b : b # a => StreamUsers(b)' = StreamUsers(b)
  <2>1. \A s \in Threads : s # t => (HasStream(s)' <=> HasStream(s)) /\ Mine(s)' = Mine(s)
    BY <1>2 DEF HasStream, Mine
  <2> QED
    BY <1>a, <1>5, <2>1 DEF StreamUsers
<1>16. ASSUME NEW b \in Addrs PROVE StreamCounted(b)'
  <2>1. CASE b = a
    <3>1. IsFiniteSet(S \cup {t}) /\ Cardinality(S \cup {t}) = Cardinality(S) + 1
      BY <1>7, <1>15, FS_AddElement
    <3>2. f.users > 0
      BY <1>7, <1>8
    <3> QED
      BY <1>n, <1>8, <1>9, <1>15, <2>1, <3>1, <3>2 DEF StreamCounted
  <2>2. CASE b # a
    BY <1>t, <1>9, <1>15, <2>2 DEF StreamCounted
  <2> QED
    BY <2>1, <2>2
<1>17. ASSUME NEW s \in Threads, s # t, HasStream(s)
       PROVE  /\ stream'[Mine(s).addr] # None
              /\ stream'[Mine(s).addr].fd = stream[Mine(s).addr].fd
  <2>1. Mine(s).addr \in Addrs /\ stream[Mine(s).addr] # None
    BY <1>t, <1>17 DEF ThreadSound, HasStream
  <2> QED
    BY <1>n, <1>1, <1>8, <1>9, <2>1
<1>18. InPlace(t, UserPlaces) /\ InPlace(t, UserPlaces)'
  BY <1>1, <1>2 DEF At
<1> QED
  BY <1>1, <1>2, <1>5, <1>10, <1>11, <1>12, <1>14, <1>16, <1>17, <1>18, TableStep

(* The entry stays as long as somebody has it.                             *)
LEMMA RemoveStreamKeeps ==
  ASSUME FilesInv, NEW t \in Threads, RemoveStream(t)
  PROVE  FilesInv'
<1>t. /\ FileTypes /\ (\A s \in Threads : ThreadSound(s)) /\ EntriesOwned /\ Apart
      /\ \A b \in Addrs : StreamCounted(b)
  BY DEF FilesInv
<1>a. PICK a : a = Mine(t).addr
  OBVIOUS
<1> DEFINE S == StreamUsers(a)
<1>1. /\ At(t, "removestream") /\ UNCHANGED <<opened, used, file, desc, objs, opens, strayed>>
      /\ Return(t) /\ stream' = [stream EXCEPT ![a] = Less(@)]
  BY <1>a DEF RemoveStream
<1>2. /\ th' \in [Threads -> FileThread] /\ \A s \in Threads : s # t => th'[s] = th[s]
      /\ th'[t].pc = "idle"
  BY <1>t, <1>1, ReturnEffect
<1>3. t \in Streaming /\ a \in Addrs
  BY <1>t, <1>a, <1>1 DEF ThreadSound, InPlace, At
<1> USE DEF InPlace, InUse, UserPlaces, EntryPlaces, HoldPlaces
<1>5. HasStream(t) /\ ~HasStream(t)'
  BY <1>1, <1>2, <1>3 DEF HasStream, At
<1>6. /\ stream[a] # None /\ stream[a] \in StreamEntry /\ IsFiniteSet(S)
      /\ Cardinality(S) \in Nat /\ stream[a].users = Cardinality(S)
  BY <1>t, <1>a, <1>3, <1>5, FS_CardinalityType DEF ThreadSound, StreamCounted, FileTypes
<1>7. /\ StreamUsers(a)' = S \ {t} /\ t \in S
      /\ \A b : b # a => StreamUsers(b)' = StreamUsers(b)
  <2>1. \A s \in Threads : s # t => (HasStream(s)' <=> HasStream(s)) /\ Mine(s)' = Mine(s)
    BY <1>2 DEF HasStream, Mine
  <2> QED
    BY <1>a, <1>5, <2>1 DEF StreamUsers
<1>8. IsFiniteSet(S \ {t}) /\ Cardinality(S \ {t}) = Cardinality(S) - 1
  BY <1>6, <1>7, FS_RemoveElement
<1>9. /\ stream' \in [Addrs -> StreamEntry \cup {None}] /\ stream'[a] = Less(stream[a])
      /\ \A b \in Addrs : b # a => stream'[b] = stream[b]
  <2>1. Less(stream[a]) \in StreamEntry \cup {None}
    <3>1. stream[a].users # 1 => stream[a].users - 1 \in Nat
      BY <1>6, <1>8, FS_CardinalityType
    <3> QED
      BY <1>6, <3>1 DEF Less, StreamEntry
  <2> QED
    BY <1>t, <1>1, <1>3, <2>1 DEF FileTypes
<1>10. FileTypes'
  BY <1>t, <1>1, <1>2, <1>9 DEF FileTypes
<1>11. /\ Less(stream[a]) = None => S \ {t} = {}
       /\ Less(stream[a]) # None => /\ Less(stream[a]).users = Cardinality(S \ {t})
                                    /\ Less(stream[a]).users > 0
                                    /\ Less(stream[a]).fd = stream[a].fd
  <2>1. CASE stream[a].users = 1
    <3>1. S \ {t} = {}
      BY <1>6, <1>8, <2>1, FS_EmptySet
    <3> QED
      BY <2>1, <3>1 DEF Less
  <2>2. CASE stream[a].users # 1
    <3> DEFINE f == [stream[a] EXCEPT !.users = @ - 1]
    <3>1. Less(stream[a]) = f
      BY <1>6, <2>2 DEF Less
    <3>2. f.users = Cardinality(S) - 1 /\ f.fd = stream[a].fd
      BY <1>6 DEF StreamEntry
    <3>3. f \in [fd : Fds, users : Nat]
      BY <1>6, <1>8, <3>2, FS_CardinalityType DEF StreamEntry
    <3>4. f # None
      BY <3>3, ClientFilesConstants
    <3>5. Cardinality(S) - 1 > 0
      BY <1>6, <1>8, <2>2, FS_CardinalityType
    <3> HIDE DEF f
    <3> QED
      BY <1>8, <3>1, <3>2, <3>4, <3>5
  <2> QED
    BY <2>1, <2>2
<1>12. ASSUME NEW b \in Addrs PROVE StreamCounted(b)'
  <2>1. CASE b = a
    BY <1>7, <1>8, <1>9, <1>11, <2>1 DEF StreamCounted
  <2>2. CASE b # a
    BY <1>t, <1>7, <1>9, <2>2 DEF StreamCounted
  <2> QED
    BY <2>1, <2>2
<1>13. ASSUME NEW s \in Threads, s # t, HasStream(s)
       PROVE  /\ stream'[Mine(s).addr] # None
              /\ stream'[Mine(s).addr].fd = stream[Mine(s).addr].fd
  <2>1. Mine(s).addr \in Addrs /\ stream[Mine(s).addr] # None
    BY <1>t, <1>13 DEF ThreadSound, HasStream
  <2>2. Mine(s).addr = a => s \in S \ {t}
    BY <1>13 DEF StreamUsers
  <2> QED
    BY <1>9, <1>11, <2>1, <2>2
<1>14. ThreadSound(t)'
  BY <1>2, <1>5 DEF ThreadSound
<1>15. \A s \in Threads, e \in Fds : HasEntry(s, e) => HasEntry(s, e)'
  BY <1>1, <1>2 DEF HasEntry, At, Mine
<1>16. EntriesOwned'
  BY <1>t, <1>1, <1>15 DEF EntriesOwned
<1>17. ~InPlace(t, UserPlaces) /\ ~InPlace(t, UserPlaces)' /\ ~InPlace(t, HoldPlaces)'
  BY <1>1, <1>2 DEF At
<1> QED
  BY <1>1, <1>2, <1>10, <1>12, <1>13, <1>14, <1>16, <1>17, TableStep

(* A step of a thread with its own file.                                   *)
LEMMA FileStep ==
  ASSUME FilesInv, NEW t \in Threads, NEW m \in Metas, FileTypes',
         UNCHANGED <<opened, desc, stream>>, \A s \in Threads : s # t => th'[s] = th[s],
         Mine(t).meta = m, Mine(t)'.meta = m,
         Mine(t)'.fd = Mine(t).fd, Mine(t)'.addr = Mine(t).addr,
         InPlace(t, HoldPlaces), InPlace(t, EntryPlaces)' <=> InPlace(t, EntryPlaces),
         HasStream(t)' <=> HasStream(t), ThreadSound(t)',
         \A n \in Metas : n # m => /\ file'[n] = file[n]
                                   /\ file[n] # None => /\ file[n].obj \in DOMAIN objs'
                                                        /\ objs'[file[n].obj].alive
                                                        /\ objs'[file[n].obj].meta = n,
         \A s \in Threads : s # t /\ FileUser(s, m) =>
           file'[m] # None /\ file'[m].obj = file[m].obj,
         FileCounted(m)', ObjectsNamed'
  PROVE  FilesInv'
<1> USE DEF FilesInv
<1>1. ASSUME NEW s \in Threads PROVE ThreadSound(s)'
  <2>1. CASE s = t
    BY <2>1
  <2>2. CASE s # t
    <3>1. InPlace(s, UserPlaces) => /\ file'[Mine(s).meta] # None
                                    /\ file'[Mine(s).meta].obj = file[Mine(s).meta].obj
      <4>1. SUFFICES ASSUME InPlace(s, UserPlaces)
                     PROVE  /\ file'[Mine(s).meta] # None
                            /\ file'[Mine(s).meta].obj = file[Mine(s).meta].obj
        OBVIOUS
      <4>2. Mine(s).meta \in Metas /\ file[Mine(s).meta] # None
        BY <4>1 DEF ThreadSound, InPlace, HoldPlaces
      <4>3. Mine(s).meta = m => FileUser(s, m)
        BY <4>1 DEF FileUser
      <4>4. CASE Mine(s).meta = m
        BY <2>2, <4>3, <4>4
      <4>5. CASE Mine(s).meta # m
        BY <4>2, <4>5
      <4> QED
        BY <4>4, <4>5
    <3>2. HasStream(s) => stream[Mine(s).addr] # None
      BY DEF ThreadSound
    <3> QED
      BY <2>2, <3>1, <3>2, OtherSound
  <2> QED
    BY <2>1, <2>2
<1>2. Apart'
  BY DEF Apart, InPlace, Mine
<1>3. \A s \in Threads : \A n : n # m => (FileUser(s, n)' <=> FileUser(s, n))
  BY DEF FileUser, InPlace, Mine
<1>4. \A n \in Metas : n # m => FileUsers(n)' = FileUsers(n)
  BY <1>3 DEF FileUsers
<1>5. ASSUME NEW n \in Metas PROVE FileCounted(n)'
  <2>1. CASE n = m
    BY <2>1
  <2>2. CASE n # m
    <3>1. FileUsers(n)' = FileUsers(n) /\ file'[n] = file[n]
      BY <1>4, <2>2
    <3>2. file[n] # None => /\ file[n].obj \in DOMAIN objs' /\ objs'[file[n].obj].alive
                            /\ objs'[file[n].obj].meta = n
      BY <2>2
    <3> QED
      BY <3>1, <3>2 DEF FileCounted
  <2> QED
    BY <2>1, <2>2
<1>6. /\ \A s \in Threads : \A d : HasEntry(s, d)' <=> HasEntry(s, d)
      /\ \A s \in Threads : (HasStream(s)' <=> HasStream(s)) /\ Mine(s)'.addr = Mine(s).addr
  BY DEF HasEntry, HasStream, InPlace, Mine
<1>7. EntriesOwned'
  BY <1>6 DEF EntriesOwned
<1>8. \A a \in Addrs : StreamCounted(a)'
  BY <1>6, StreamsSame
<1> QED
  BY <1>1, <1>2, <1>5, <1>7, <1>8

(* An open adds a user to the name, and the object if there is none.       *)
LEMMA AddFileKeeps ==
  ASSUME FilesInv, NEW t \in Threads, AddFile(t)
  PROVE  FilesInv'
<1>t. /\ FileTypes /\ ThreadSound(t) /\ th[t] \in FileThread /\ objs \in Seq(FileObject)
      /\ ObjectsNamed /\ \A n \in Metas : FileCounted(n)
  BY DEF FilesInv, FileTypes
<1> DEFINE m == Mine(t).meta
<1> DEFINE f == IF file[m] = None THEN [obj |-> Len(objs) + 1, users |-> 1]
                                  ELSE [file[m] EXCEPT !.users = @ + 1]
<1>1. /\ InPlace(t, {"addfile"}) /\ UNCHANGED <<opened, used, desc, stream, opens, strayed>>
      /\ objs' = (IF file[m] = None THEN Append(objs, NewFile(m)) ELSE objs)
      /\ file' = [file EXCEPT ![m] = f]
      /\ th' = [th EXCEPT ![t].pc = "newindex", ![t].mine.obj = f.obj]
  BY DEF AddFile, At, InPlace
<1>2. m \in Metas
  BY <1>t, <1>1 DEF ThreadSound, InPlace, HoldPlaces
<1>3. Len(objs) \in Nat /\ DOMAIN objs = 1 .. Len(objs)
  BY <1>t
<1>4. f \in FileEntry
  BY <1>t, <1>2, <1>3 DEF FileTypes, FileEntry
<1>5. f.obj \in Nat
  BY <1>4 DEF FileEntry
<1>6. f # None
  BY <1>4, ClientFilesConstants DEF FileEntry
<1>7. /\ file[m] = None => f.obj = Len(objs) + 1 /\ f.users = 1
      /\ file[m] # None => /\ file[m] \in FileEntry /\ f.obj = file[m].obj
                           /\ f.users = file[m].users + 1
  BY <1>t, <1>2 DEF FileTypes, FileEntry
<1>8. NewFile(m) \in FileObject /\ NewFile(m).alive /\ NewFile(m).meta = m
  BY <1>2 DEF NewFile, FileObject
<1> HIDE DEF f
<1> DEFINE mine == [th[t].mine EXCEPT !.obj = f.obj]
<1> DEFINE new == [th[t] EXCEPT !.pc = "newindex", !.mine = mine]
<1>9. /\ mine \in Descriptor /\ mine.obj = f.obj /\ mine.meta = th[t].mine.meta
      /\ mine.fd = th[t].mine.fd /\ mine.addr = th[t].mine.addr
  BY <1>t, <1>5 DEF FileThread, Descriptor
<1>10. th' = [th EXCEPT ![t] = new]
  BY <1>t, <1>1 DEF FileTypes, FileThread
<1> HIDE DEF mine
<1>11. new \in FileThread /\ new.pc = "newindex" /\ new.mine = mine
  BY <1>t, <1>9 DEF FileThread, FilePlaces
<1> HIDE DEF new
<1>12. /\ th' \in [Threads -> FileThread] /\ \A s \in Threads : s # t => th'[s] = th[s]
       /\ th'[t] = new
  BY <1>t, <1>10, <1>11 DEF FileTypes
<1>13. /\ objs' \in Seq(FileObject) /\ DOMAIN objs \subseteq DOMAIN objs'
       /\ \A o \in DOMAIN objs : objs'[o] = objs[o]
       /\ file[m] # None => DOMAIN objs' = DOMAIN objs
       /\ file[m] = None => /\ DOMAIN objs' = DOMAIN objs \cup {f.obj}
                            /\ f.obj \notin DOMAIN objs /\ objs'[f.obj].alive
                            /\ objs'[f.obj].meta = m
  <2> HIDE DEF FileObject, NewFile, m
  <2>1. CASE file[m] = None
    BY <1>t, <1>1, <1>3, <1>7, <1>8, <2>1
  <2>2. CASE file[m] # None
    BY <1>t, <1>1, <2>2
  <2> QED
    BY <2>1, <2>2
<1>14. /\ file' \in [Metas -> FileEntry \cup {None}] /\ file'[m] = f
       /\ \A n \in Metas : n # m => file'[n] = file[n]
  BY <1>t, <1>1, <1>2, <1>4 DEF FileTypes
<1>15. FileTypes'
  BY <1>t, <1>1, <1>12, <1>13, <1>14 DEF FileTypes
<1> USE DEF InPlace, InUse, UserPlaces, EntryPlaces, HoldPlaces
<1>16. Mine(t)'.meta = m /\ Mine(t)'.fd = Mine(t).fd /\ Mine(t)'.addr = Mine(t).addr /\ Mine(t)'.obj = f.obj
  BY <1>9, <1>11, <1>12 DEF Mine
<1>17. ~HasStream(t) /\ ~HasStream(t)' /\ ~InPlace(t, EntryPlaces) /\ ~InPlace(t, EntryPlaces)'
  BY <1>1, <1>11, <1>12 DEF HasStream
<1>18. ThreadSound(t)'
  BY <1>t, <1>1, <1>2, <1>5, <1>6, <1>11, <1>12, <1>14, <1>16, <1>17 DEF ThreadSound
<1>19. \A n \in Metas : n # m /\ file[n] # None =>
         /\ file[n].obj \in DOMAIN objs' /\ objs'[file[n].obj].alive
         /\ objs'[file[n].obj].meta = n
  BY <1>t, <1>13 DEF FileCounted
<1>20. FileUsers(m)' = FileUsers(m) \cup {t} /\ t \notin FileUsers(m)
  <2>1. ~FileUser(t, m) /\ InPlace(t, UserPlaces)'
    BY <1>1, <1>11, <1>12 DEF FileUser
  <2>2. \A s \in Threads : s # t => Mine(s)' = Mine(s) /\ (InPlace(s, UserPlaces)' <=> InPlace(s, UserPlaces))
    BY <1>12 DEF Mine
  <2> QED
    BY <1>16, <2>1, <2>2 DEF FileUsers, FileUser
<1>21. FileCounted(m)'
  <2>1. IsFiniteSet(FileUsers(m)) /\ Cardinality(FileUsers(m)) \in Nat
    BY <1>t, <1>2, FS_CardinalityType DEF FileCounted
  <2>2. /\ IsFiniteSet(FileUsers(m) \cup {t})
        /\ Cardinality(FileUsers(m) \cup {t}) = Cardinality(FileUsers(m)) + 1
    BY <1>20, <2>1, FS_AddElement
  <2>3. f.users = Cardinality(FileUsers(m)) + 1
    <3>1. CASE file[m] = None
      BY <1>t, <1>2, <1>7, <3>1, FS_EmptySet DEF FileCounted
    <3>2. CASE file[m] # None
      BY <1>t, <1>2, <1>7, <3>2 DEF FileCounted
    <3> QED
      BY <3>1, <3>2
  <2>4. f.obj \in DOMAIN objs' /\ objs'[f.obj].alive /\ objs'[f.obj].meta = m
    BY <1>t, <1>2, <1>7, <1>13 DEF FileCounted
  <2>5. FileUsers(m)' = FileUsers(m) \cup {t}
    BY <1>20
  <2> DEFINE S == FileUsers(m)'
  <2>6. IsFiniteSet(S) /\ f.users = Cardinality(S) /\ f.users > 0
    BY <2>1, <2>2, <2>3, <2>5
  <2> QED
    BY <1>6, <1>14, <1>16, <2>4, <2>6 DEF FileCounted
<1>22. ObjectsNamed'
  <2>1. \A n, k \in Metas : file'[n] # None /\ file'[k] # None /\ file'[n].obj = file'[k].obj => n = k
    <3>1. \A n \in Metas : n # m /\ file[n] # None => file[n].obj # f.obj
      BY <1>t, <1>2, <1>7, <1>13 DEF ObjectsNamed, FileCounted
    <3> QED
      BY <1>t, <1>2, <1>14, <3>1 DEF ObjectsNamed
  <2>2. ASSUME NEW o \in DOMAIN objs', objs'[o].alive
        PROVE  \E n \in Metas : file'[n] # None /\ file'[n].obj = o
    <3>1. CASE o \in DOMAIN objs
      <4>1. PICK n \in Metas : file[n] # None /\ file[n].obj = o
        BY <1>t, <1>13, <2>2, <3>1 DEF ObjectsNamed
      <4>2. CASE n = m
        BY <1>2, <1>6, <1>7, <1>14, <4>1, <4>2
      <4>3. CASE n # m
        BY <1>14, <4>1, <4>3
      <4> QED
        BY <4>2, <4>3
    <3>2. CASE o \notin DOMAIN objs
      BY <1>2, <1>6, <1>13, <1>14, <2>2, <3>2
    <3> QED
      BY <3>1, <3>2
  <2> QED
    BY <2>1, <2>2 DEF ObjectsNamed
<1>23. ASSUME NEW s \in Threads, s # t, FileUser(s, m)
       PROVE  f # None /\ f.obj = file[m].obj
  BY <1>t, <1>2, <1>6, <1>7, <1>23 DEF FileCounted, FileUsers
<1> QED
  BY <1>1, <1>2, <1>12, <1>14, <1>15, <1>16, <1>17, <1>18, <1>19, <1>21, <1>22, <1>23, FileStep

(* A close takes a user off the name; the last one deletes the object,     *)
(* which nobody else then uses.                                            *)
LEMMA RemoveFileKeeps ==
  ASSUME FilesInv, NEW t \in Threads, RemoveFile(t)
  PROVE  FilesInv'
<1>t. /\ FileTypes /\ ThreadSound(t) /\ th[t] \in FileThread /\ objs \in Seq(FileObject)
      /\ ObjectsNamed /\ \A n \in Metas : FileCounted(n)
  BY DEF FilesInv, FileTypes
<1>m. PICK m : m = Mine(t).meta
  OBVIOUS
<1> DEFINE o == file[m].obj
<1> DEFINE S == FileUsers(m)
<1>1. /\ InPlace(t, {"removefile"}) /\ Goto(t, "removedesc")
      /\ UNCHANGED <<opened, used, desc, stream, opens, strayed>>
  BY DEF RemoveFile, At, InPlace
<1>2. m \in Metas /\ file[m] # None
  BY <1>t, <1>m, <1>1 DEF ThreadSound, InPlace, HoldPlaces, UserPlaces, InUse
<1>3. /\ IsFiniteSet(S) /\ file[m].users = Cardinality(S) /\ file[m].users > 0
      /\ o \in DOMAIN objs
  BY <1>t, <1>2 DEF FileCounted
<1>l. th[t].obj = o /\ objs[o].meta = m /\ objs[o].alive
  BY <1>t, <1>m, <1>1, <1>2 DEF ThreadSound, InPlace, UserPlaces, InUse, FileCounted
<1>4. file[m] \in FileEntry /\ file[m].users \in Nat /\ o \in Nat
  BY <1>t, <1>2 DEF FileTypes, FileEntry
<1>5. t \in S
  BY <1>1, <1>m DEF FileUsers, FileUser, InPlace, UserPlaces, InUse
<1>6. /\ th' \in [Threads -> FileThread] /\ \A s \in Threads : s # t => th'[s] = th[s]
      /\ th'[t].pc = "removedesc" /\ th'[t].mine = th[t].mine /\ th'[t].fd = th[t].fd
  BY <1>t, <1>1, GotoEffect DEF FilePlaces
<1>7. Mine(t)' = Mine(t) /\ \A s \in Threads : Mine(s)' = Mine(s)
  BY <1>6 DEF Mine
<1>8. FileUsers(m)' = S \ {t}
  <2>1. ~InPlace(t, UserPlaces)'
    BY <1>6 DEF InPlace, UserPlaces, InUse
  <2>2. \A s \in Threads : s # t => (InPlace(s, UserPlaces)' <=> InPlace(s, UserPlaces))
    BY <1>6 DEF InPlace
  <2> QED
    BY <1>7, <2>1, <2>2 DEF FileUsers, FileUser
<1>9. IsFiniteSet(S \ {t}) /\ Cardinality(S \ {t}) = Cardinality(S) - 1
  BY <1>3, <1>5, FS_RemoveElement
<1> USE DEF InPlace, InUse, UserPlaces, EntryPlaces, HoldPlaces
<1>10. /\ InPlace(t, EntryPlaces) /\ InPlace(t, EntryPlaces)' /\ (HasStream(t)' <=> HasStream(t))
       /\ InPlace(t, HoldPlaces)
  BY <1>1, <1>6, <1>7 DEF HasStream
<1>11. ASSUME UNCHANGED <<opened, desc, stream>> PROVE ThreadSound(t)'
  BY <1>t, <1>1, <1>6, <1>7, <1>10, <1>11 DEF ThreadSound
<1>12. \A n \in Metas : n # m /\ file[n] # None =>
         /\ file[n].obj \in DOMAIN objs /\ objs[file[n].obj].alive /\ file[n].obj # o
         /\ objs[file[n].obj].meta = n
  BY <1>t, <1>2 DEF FileCounted, ObjectsNamed
<1>13. CASE file[m].users = 1
  <2>1. S \ {t} = {}
    BY <1>3, <1>9, <1>13, FS_EmptySet
  <2>2. file' = [file EXCEPT ![m] = None] /\ objs' = [objs EXCEPT ![o] = Deleted(objs[o])]
    BY <1>2, <1>l, <1>13 DEF RemoveFile, Less
  <2>3. Deleted(objs[o]) \in FileObject /\ ~Deleted(objs[o]).alive
    <3> DEFINE B == BOOLEAN
    <3>o. objs[o] \in FileObject
      BY <1>t, <1>3
    <3>1. objs[o] \in [meta : Metas, alive : B, pos : Seq(Nat), moves : Nat]
      BY <3>o DEF FileObject
    <3>2. FALSE \in B /\ <<>> \in Seq(Nat)
      OBVIOUS
    <3> HIDE DEF B
    <3>3. /\ Deleted(objs[o]) \in [meta : Metas, alive : B, pos : Seq(Nat), moves : Nat]
          /\ Deleted(objs[o]).alive = FALSE
      BY <3>1, <3>2 DEF Deleted
    <3> QED
      BY <3>3 DEF B, FileObject
  <2>4. /\ objs' \in Seq(FileObject) /\ DOMAIN objs' = DOMAIN objs /\ ~objs'[o].alive
        /\ \A p \in DOMAIN objs : p # o => objs'[p] = objs[p]
    <3> HIDE DEF FileObject, Deleted, o
    <3> QED
      BY <1>t, <1>3, <2>2, <2>3
  <2>5. /\ file' \in [Metas -> FileEntry \cup {None}] /\ file'[m] = None
        /\ \A n \in Metas : n # m => file'[n] = file[n]
    BY <1>t, <1>2, <2>2 DEF FileTypes
  <2>6. FileTypes'
    BY <1>t, <1>1, <1>6, <2>4, <2>5 DEF FileTypes
  <2>7. \A n \in Metas : n # m /\ file[n] # None =>
          /\ file[n].obj \in DOMAIN objs' /\ objs'[file[n].obj].alive
          /\ objs'[file[n].obj].meta = n
    BY <1>12, <2>4
  <2>8. FileCounted(m)'
    <3>1. FileUsers(m)' = {}
      BY <1>8, <2>1
    <3> QED
      BY <1>7, <2>5, <3>1, FS_EmptySet DEF FileCounted
  <2>9. ObjectsNamed'
    <3>1. ASSUME NEW p \in DOMAIN objs', objs'[p].alive
          PROVE  \E n \in Metas : file'[n] # None /\ file'[n].obj = p
      <4>1. p # o /\ p \in DOMAIN objs /\ objs[p].alive
        BY <2>4, <3>1
      <4>2. PICK n \in Metas : file[n] # None /\ file[n].obj = p
        BY <1>t, <4>1 DEF ObjectsNamed
      <4> QED
        BY <2>5, <4>1, <4>2
    <3>2. \A n, k \in Metas : file'[n] # None /\ file'[k] # None /\ file'[n].obj = file'[k].obj
            => n = k
      BY <1>t, <2>5 DEF ObjectsNamed
    <3> QED
      BY <3>1, <3>2 DEF ObjectsNamed
  <2>10. \A s \in Threads : s # t => ~FileUser(s, m)
    BY <2>1 DEF FileUsers
  <2> QED
    BY <1>m, <1>1, <1>2, <1>6, <1>7, <1>10, <1>11, <2>5, <2>6, <2>7, <2>8, <2>9, <2>10, FileStep
<1>14. CASE file[m].users # 1
  <2> DEFINE f == [file[m] EXCEPT !.users = @ - 1]
  <2>1. file' = [file EXCEPT ![m] = f] /\ objs' = objs
    BY <1>2, <1>l, <1>14 DEF RemoveFile, Less
  <2>2. f \in FileEntry /\ f.obj = o /\ f.users = file[m].users - 1 /\ f.users > 0
    BY <1>3, <1>4, <1>14 DEF FileEntry
  <2>3. f # None
    BY <2>2, ClientFilesConstants DEF FileEntry
  <2> HIDE DEF f
  <2>4. /\ file' \in [Metas -> FileEntry \cup {None}] /\ file'[m] = f
        /\ \A n \in Metas : n # m => file'[n] = file[n]
    BY <1>t, <1>2, <2>1, <2>2 DEF FileTypes
  <2>5. FileTypes'
    BY <1>t, <1>1, <1>6, <2>1, <2>4 DEF FileTypes
  <2>6. FileCounted(m)'
    <3> DEFINE R == FileUsers(m)'
    <3>1. IsFiniteSet(R) /\ f.users = Cardinality(R)
      BY <1>3, <1>8, <1>9, <2>2
    <3>2. o \in DOMAIN objs' /\ objs'[o].alive /\ objs'[o].meta = m
      BY <1>t, <1>2, <2>1 DEF FileCounted
    <3> QED
      BY <1>7, <2>2, <2>3, <2>4, <3>1, <3>2 DEF FileCounted
  <2>7. ObjectsNamed'
    <3>1. \A n \in Metas : (file'[n] # None <=> file[n] # None)
                           /\ (file[n] # None => file'[n].obj = file[n].obj)
      BY <1>2, <2>2, <2>3, <2>4
    <3> QED
      BY <1>t, <2>1, <3>1 DEF ObjectsNamed
  <2>8. \A n \in Metas : n # m /\ file[n] # None =>
          /\ file[n].obj \in DOMAIN objs' /\ objs'[file[n].obj].alive
          /\ objs'[file[n].obj].meta = n
    BY <1>12, <2>1
  <2> QED
    BY <1>m, <1>1, <1>2, <1>6, <1>7, <1>10, <1>11, <2>2, <2>3, <2>4, <2>5, <2>6, <2>7, <2>8, FileStep
<1> QED
  BY <1>13, <1>14

(* A call that goes on without a file is of a stream that strayed, and     *)
(* after a process ended nothing more happens.                             *)
Over == Threads # {} /\ \A t \in Threads : At(t, "gone")
FilesSafe == strayed \/ Over \/ FilesInv

LEMMA FilesStep ==
  ASSUME FilesInv, ~strayed', [FilesNext]_filesVars, ~Over'
  PROVE  FilesInv'
<1>1. CASE UNCHANGED filesVars
  <2> USE <1>1 DEF filesVars, tables, FilesInv
  <2>1. FileTypes' /\ ObjectsNamed'
    BY DEF FileTypes, ObjectsNamed
  <2>2. Apart' /\ EntriesOwned'
    BY DEF Apart, EntriesOwned, HasEntry, InPlace, Mine
  <2>3. \A t \in Threads : ThreadSound(t)'
    BY DEF ThreadSound, HasStream, InPlace, Mine
  <2>4. \A m \in Metas : FileUsers(m)' = FileUsers(m)
    BY DEF FileUsers, FileUser, InPlace, Mine
  <2>5. \A m \in Metas : FileCounted(m)'
    BY <2>4 DEF FileCounted
  <2>6. \A s \in Threads : (HasStream(s)' <=> HasStream(s)) /\ Mine(s)' = Mine(s)
    BY DEF HasStream, InPlace, Mine
  <2>7. \A a \in Addrs : StreamCounted(a)'
    BY <2>6, StreamsSame
  <2> QED
    BY <2>1, <2>2, <2>3, <2>5, <2>7
<1>2. CASE FilesNext
  <2>1. PICK t \in Threads :
          \/ \E m \in Metas : Open(t, m) \/ StatLookup(t, m)
          \/ \E op \in {"read", "close"} : LookupStream(t, op)
          \/ Call(t)
    BY <1>2 DEF FilesNext
  <2>2. ~Dies(t)
    BY DEF Dies, Over, At, Idle
  <2> QED
    BY <2>1, <2>2, OpenKeeps, OthersKeep, LookupsKeep, AddFileKeeps, NewFilePosIndexKeeps,
       AddDescriptorKeeps, AddStreamKeeps, RemoveFileKeeps, RemoveDescriptorKeeps,
       KernelCloseKeeps, RemoveStreamKeeps
       DEF Call
<1> QED
  BY <1>1, <1>2

(* Straying and the end of the process last.                               *)
LEMMA FilesSafeStep == FilesSafe /\ [FilesNext]_filesVars => FilesSafe'
<1> SUFFICES ASSUME FilesSafe, [FilesNext]_filesVars PROVE FilesSafe'
  OBVIOUS
<1> USE DEF Call, Open, StatLookup, LookupStream, AddFile, AddFileFails, NewFilePosIndex,
     AddDescriptor, AddStream, LookupDescriptor, LoadPosition, StorePosition, RemoveFile,
     RemoveDescriptor, KernelClose, RemoveStream, StatAnswer, Dies
<1>1. CASE strayed
  <2>1. strayed'
    BY <1>1 DEF FilesNext, filesVars
  <2> QED
    BY <2>1 DEF FilesSafe
<1>2. CASE Over
  <2>1. ~FilesNext
    BY <1>2 DEF FilesNext, Over, At, UsesDeleted, NoFile
  <2>2. Over'
    BY <1>2, <2>1 DEF Over, filesVars, At
  <2> QED
    BY <2>2 DEF FilesSafe
<1>3. CASE FilesInv
  BY <1>3, FilesStep DEF FilesSafe
<1> QED
  BY <1>1, <1>2, <1>3 DEF FilesSafe

(* A call finds the file and the position that its open made, and that     *)
(* file lives until the call is done, unless a stream strayed.             *)
THEOREM CallsFindTheirFile == FilesSpec => []FindsItsFile
<1>1. FilesSafe => FindsItsFile
  <2> SUFFICES ASSUME FilesSafe, ~strayed, NEW t \in Threads
               PROVE  /\ At(t, "lookup") =>
                           /\ th[t].fd # None /\ desc[th[t].fd] # None
                           /\ desc[th[t].fd].obj = Mine(t).obj
                           /\ desc[th[t].fd].index = Mine(t).index
                      /\ At(t, "newindex") => objs[Mine(t).obj].alive
                      /\ th[t].pc \in {"load", "store", "removefile"} => objs[th[t].obj].alive
    BY DEF FindsItsFile
  <2>1. CASE Over
    BY <2>1 DEF Over, At
  <2>2. CASE FilesInv
    <3> USE DEF InPlace, InUse, UserPlaces, EntryPlaces, HoldPlaces
    <3>1. ThreadSound(t)
      BY <2>2 DEF FilesInv
    <3>2. ASSUME At(t, "lookup")
          PROVE  /\ th[t].fd # None /\ desc[th[t].fd] # None
                 /\ desc[th[t].fd].obj = Mine(t).obj /\ desc[th[t].fd].index = Mine(t).index
      <4>1. /\ th[t].fd \in Fds /\ Mine(t).obj \in Nat /\ Mine(t).index \in Nat
            /\ desc[th[t].fd] = [obj |-> Mine(t).obj, index |-> Mine(t).index, users |-> 1]
        BY <3>1, <3>2 DEF ThreadSound, At
      <4>2. desc[th[t].fd] \in [obj : Nat, index : Nat, users : Nat]
        BY <4>1
      <4>3. th[t].fd # None
        BY <4>1, ClientFilesConstants
      <4>4. desc[th[t].fd] # None
        BY <4>2, ClientFilesConstants
      <4> QED
        BY <4>1, <4>3, <4>4
    <3>3. InPlace(t, UserPlaces) => objs[Mine(t).obj].alive
      BY <2>2, <3>1 DEF ThreadSound, FilesInv, FileCounted
    <3> QED
      BY <3>1, <3>2, <3>3 DEF ThreadSound, At
  <2> QED
    BY <2>1, <2>2 DEF FilesSafe
<1>2. FilesInit => FilesSafe
  BY FilesInitSound DEF FilesSafe
<1> QED
  BY <1>1, <1>2, FilesSafeStep, PTL DEF FilesSpec

(* When every thread closed what it opened, no table has an entry, unless  *)
(* a stream strayed.                                                       *)
THEOREM NothingIsLeft == FilesSpec => []NothingLeft
<1>1. FilesSafe => NothingLeft
  <2> SUFFICES ASSUME FilesSafe, ~strayed, \A t \in Threads : At(t, "idle")
               PROVE  /\ \A m \in Metas : file[m] = None
                      /\ \A d \in Fds : desc[d] = None
                      /\ \A a \in Addrs : stream[a] = None
                      /\ \A o \in DOMAIN objs : ~objs[o].alive
    BY DEF NothingLeft
  <2>1. FilesInv
    BY DEF FilesSafe, Over, At
  <2> USE <2>1 DEF InPlace, InUse, UserPlaces, EntryPlaces, At
  <2>2. \A m \in Metas : FileUsers(m) = {}
    BY DEF FileUsers, FileUser
  <2>3. \A m \in Metas : file[m] = None
    BY <2>2, FS_EmptySet DEF FilesInv, FileCounted
  <2>4. \A d \in Fds : desc[d] = None
    BY DEF FilesInv, EntriesOwned, HasEntry
  <2>5. \A a \in Addrs : StreamUsers(a) = {}
    BY DEF StreamUsers, HasStream
  <2>6. \A a \in Addrs : stream[a] = None
    BY <2>5, FS_EmptySet DEF FilesInv, StreamCounted
  <2>7. \A o \in DOMAIN objs : ~objs[o].alive
    BY <2>3 DEF FilesInv, ObjectsNamed
  <2> QED
    BY <2>3, <2>4, <2>6, <2>7
<1>2. FilesInit => FilesSafe
  BY FilesInitSound DEF FilesSafe
<1> QED
  BY <1>1, <1>2, FilesSafeStep, PTL DEF FilesSpec
===============================================================================
