------------------------------- MODULE ClientFiles -------------------------------
(***************************************************************************)
(* The client library's tables of files: open, fopen, read, close, fclose  *)
(* and stat as the threads of a program call them (Lib.cpp, Lib.h), with   *)
(* TazerFile, TazerFileDescriptor, TazerFileStream and their Trackable     *)
(* tables.                                                                 *)
(*                                                                         *)
(* A file of Tazer is made when its meta file is opened first, and deleted *)
(* when it was closed as often as it was opened.  A descriptor leads to a  *)
(* file and to a position in it, a stream to a descriptor.  The keys of    *)
(* these tables are the names, descriptors and FILE pointers of the        *)
(* process: the operating system gives out a descriptor and a pointer      *)
(* again as soon as they were closed, while the tables still change.       *)
(*                                                                         *)
(* A call of Trackable holds its lock throughout, and is one step.  The    *)
(* positions of a file are a std::vector, used without a lock; when it     *)
(* grows, what another thread stores by an older address is lost.          *)
(*                                                                         *)
(* The program is a correct one: a descriptor or a stream is used by one   *)
(* thread, and not after it was closed.  Even so the entry of a stream may *)
(* become the one of another descriptor, since fclose gives the pointer    *)
(* back before the entry is removed; the calls that follow then use files  *)
(* of other threads, or none.                                              *)
(***************************************************************************)
EXTENDS Integers, Sequences, FiniteSets

CONSTANTS Threads, Streaming,   \* Streaming: the threads that use fopen
          Metas,                \* the meta files
          Fds, Addrs,           \* descriptors, and addresses of FILEs
          MaxOpens, MaxReads,   \* files opened, reads of each (bounds)
          None

ASSUME ClientFilesConstants ==
  /\ Streaming \subseteq Threads /\ Fds \subseteq Nat
  /\ MaxOpens \in Nat /\ MaxReads \in Nat
  /\ None \notin Metas \cup Addrs \cup Nat
  /\ None \notin [obj : Nat, users : Nat]
                \cup [obj : Nat, index : Nat, users : Nat] \cup [fd : Fds, users : Nat]

VARIABLES
  opened,    \* the operating system: the file that a descriptor is of
  used,      \* and the FILEs that are open
  file,      \* Trackable<string, TazerFile>: the object of a name, its users
  desc,      \* Trackable<int, TazerFileDescriptor>: object, position, users
  stream,    \* Trackable<FILE *, TazerFileStream>: descriptor, users
  objs,      \* the TazerFile objects ever made
  th,        \* the threads
  opens,     \* a bound
  strayed    \* history: a stream joined the entry of another descriptor

tables == <<file, desc, stream>>
filesVars == <<opened, used, tables, objs, th, opens, strayed>>

(* What a thread opened, as it sees it.                                    *)
Nothing == [meta |-> None, fd |-> None, addr |-> None, obj |-> None, index |-> None]

Idle == [pc |-> "idle", op |-> "none", mine |-> Nothing,
         fd |-> None, obj |-> None, index |-> None,    \* what a call looked up
         moves |-> 0,                                  \* the address it loaded
         reads |-> 0]                                  \* since it was opened

FilesInit ==
  /\ opened = [d \in Fds |-> None] /\ used = {}
  /\ file = [m \in Metas |-> None] /\ desc = [d \in Fds |-> None]
  /\ stream = [a \in Addrs |-> None] /\ objs = <<>>
  /\ th = [t \in Threads |-> Idle] /\ opens = 0 /\ strayed = FALSE

-------------------------------------------------------------------------------
At(t, pc) == th[t].pc = pc
Goto(t, pc) == th' = [th EXCEPT ![t].pc = pc]
Return(t) == th' = [th EXCEPT ![t] = Idle]
Mine(t) == th[t].mine

-------------------------------------------------------------------------------
(* tazerOpen and tazerFopen.                                               *)

(* The meta file is opened: the lowest descriptor, any address.            *)
Open(t, m) ==
  LET free == {d \in Fds : opened[d] = None}
  IN  /\ At(t, "idle") /\ opens < MaxOpens /\ opens' = opens + 1
      /\ \E d \in free, a \in IF t \in Streaming THEN Addrs \ used ELSE {None} :
           /\ \A e \in free : d <= e
           /\ opened' = [opened EXCEPT ![d] = m] /\ used' = used \cup ({a} \ {None})
           /\ th' = [th EXCEPT ![t] = [Idle EXCEPT !.pc = "addfile",
                !.mine = [Nothing EXCEPT !.meta = m, !.fd = d, !.addr = a]]]
      /\ UNCHANGED <<tables, objs, strayed>>

NewFile(m) == [meta |-> m, alive |-> TRUE, pos |-> <<0>>, moves |-> 0]

(* addNewTazerFile: the file of this name, with one user more.             *)
AddFile(t) ==
  LET m == Mine(t).meta
      f == IF file[m] = None THEN [obj |-> Len(objs) + 1, users |-> 1]
                             ELSE [file[m] EXCEPT !.users = @ + 1]
  IN  /\ At(t, "addfile")
      /\ objs' = IF file[m] = None THEN Append(objs, NewFile(m)) ELSE objs
      /\ file' = [file EXCEPT ![m] = f]
      /\ th' = [th EXCEPT ![t].pc = "newindex", ![t].mine.obj = f.obj]
      /\ UNCHANGED <<opened, used, desc, stream, opens, strayed>>

(* No server has it: the meta file is closed.  (A stream stays open, and   *)
(* reads the meta file, until the program closes it.)                      *)
AddFileFails(t) ==
  /\ At(t, "addfile") /\ file[Mine(t).meta] = None /\ Goto(t, "kernelclose")
  /\ UNCHANGED <<opened, used, tables, objs, opens, strayed>>

(* newFilePosIndex: a position of its own.  The vector doubles when full.  *)
NewFilePosIndex(t) ==
  LET o == Mine(t).obj
      n == Len(objs[o].pos)
  IN  /\ At(t, "newindex")
      /\ objs' = [objs EXCEPT ![o].pos = Append(@, 0),
                              ![o].moves = IF n \in {1, 2, 4, 8} THEN @ + 1 ELSE @]
      /\ th' = [th EXCEPT ![t].pc = "adddesc", ![t].mine.index = n + 1]
      /\ UNCHANGED <<opened, used, tables, opens, strayed>>

AddDescriptor(t) ==
  LET d == Mine(t).fd
      new == [obj |-> Mine(t).obj, index |-> Mine(t).index, users |-> 1]
  IN  /\ At(t, "adddesc")
      /\ desc' = [desc EXCEPT ![d] = IF @ = None THEN new ELSE [@ EXCEPT !.users = @ + 1]]
      /\ Goto(t, IF t \in Streaming THEN "addstream" ELSE "open")
      /\ UNCHANGED <<opened, used, file, stream, objs, opens, strayed>>

(* Mutant for FindsItsFile: who joins an entry is not counted.             *)
AddStreamMutant(t) ==
  LET a == Mine(t).addr
      s == IF stream[a] = None THEN [fd |-> Mine(t).fd, users |-> 1] ELSE stream[a]
  IN  /\ At(t, "addstream") /\ Goto(t, "open")
      /\ stream' = [stream EXCEPT ![a] = s]
      /\ strayed' = (strayed \/ (stream[a] # None /\ stream[a].fd # Mine(t).fd))
      /\ UNCHANGED <<opened, used, file, desc, objs, opens>>

(* addStream joins the entry that it finds, with its descriptor.           *)
AddStream(t) ==
  LET a == Mine(t).addr
      s == IF stream[a] = None THEN [fd |-> Mine(t).fd, users |-> 1]
                               ELSE [stream[a] EXCEPT !.users = @ + 1]
  IN  /\ At(t, "addstream") /\ Goto(t, "open")
      /\ stream' = [stream EXCEPT ![a] = s]
      /\ strayed' = (strayed \/ (stream[a] # None /\ stream[a].fd # Mine(t).fd))
      /\ UNCHANGED <<opened, used, file, desc, objs, opens>>

-------------------------------------------------------------------------------
(* innerWrapper: the stream, and then the descriptor, are looked up.  What *)
(* is not found is left to the C library; but if it is the descriptor of a *)
(* stream, then the call goes on without a file: fread leaves it to the C  *)
(* library after all, while most others dereference NULL.                  *)

LookupStream(t, op) ==
  LET s == stream[Mine(t).addr]
      d == IF t \notin Streaming THEN Mine(t).fd ELSE IF s = None THEN None ELSE s.fd
  IN  /\ At(t, "open") /\ (op = "read" => th[t].reads < MaxReads)
      /\ th' = [th EXCEPT ![t].pc = "lookup", ![t].op = op, ![t].fd = d]
      /\ UNCHANGED <<opened, used, tables, objs, opens, strayed>>

NoFile(t) ==
  At(t, "lookup") /\ t \in Streaming /\ th[t].fd # None /\ desc[th[t].fd] = None

LookupDescriptor(t) ==
  LET d == th[t].fd
      e == IF d = None THEN None ELSE desc[d]
  IN  /\ At(t, "lookup") /\ ~(NoFile(t) /\ th[t].op = "close")
      /\ th' = [th EXCEPT
           ![t].pc = IF e # None THEN IF th[t].op = "read" THEN "load" ELSE "removefile"
                     ELSE IF th[t].op = "read" THEN "open" ELSE "kernelclose",
           ![t].obj = IF e = None THEN None ELSE e.obj,
           ![t].index = IF e = None THEN None ELSE e.index]
      /\ UNCHANGED <<opened, used, tables, objs, opens, strayed>>

(* read moves the position: _filePos[index] += count.                      *)
LoadPosition(t) ==
  /\ At(t, "load")
  /\ th' = [th EXCEPT ![t].pc = "store", ![t].moves = objs[th[t].obj].moves]
  /\ UNCHANGED <<opened, used, tables, objs, opens, strayed>>

StorePosition(t) ==
  LET o == th[t].obj
  IN  /\ At(t, "store")
      /\ objs' = IF objs[o].alive /\ objs[o].moves = th[t].moves
                 THEN [objs EXCEPT ![o].pos[th[t].index] = @ + 1] ELSE objs
      /\ th' = [th EXCEPT ![t].pc = "open", ![t].moves = 0, ![t].reads = @ + 1]
      /\ UNCHANGED <<opened, used, tables, opens, strayed>>

-------------------------------------------------------------------------------
(* tazerClose and tazerFclose.                                             *)

(* RemoveTrackable: one user less, and no entry without a user.            *)
Less(e) == IF e = None \/ e.users = 1 THEN None ELSE [e EXCEPT !.users = @ - 1]

Deleted(f) == [f EXCEPT !.alive = FALSE, !.pos = <<>>, !.moves = 0]

(* removeTazerFile, by the name of the file that was looked up: the last   *)
(* user deletes the object.                                                *)
RemoveFile(t) ==
  LET m == objs[th[t].obj].meta
      last == file[m] # None /\ file[m].users = 1
  IN  /\ At(t, "removefile") /\ Goto(t, "removedesc")
      /\ file' = [file EXCEPT ![m] = Less(@)]
      /\ objs' = IF last THEN [objs EXCEPT ![file[m].obj] = Deleted(@)] ELSE objs
      /\ UNCHANGED <<opened, used, desc, stream, opens, strayed>>

RemoveDescriptor(t) ==
  /\ At(t, "removedesc") /\ Goto(t, "kernelclose")
  /\ desc' = [desc EXCEPT ![th[t].fd] = Less(@)]
  /\ UNCHANGED <<opened, used, file, stream, objs, opens, strayed>>

KernelClose(t) ==
  /\ At(t, "kernelclose")
  /\ opened' = [opened EXCEPT ![Mine(t).fd] = None] /\ used' = used \ {Mine(t).addr}
  /\ IF t \in Streaming /\ th[t].fd # None THEN Goto(t, "removestream") ELSE Return(t)
  /\ UNCHANGED <<tables, objs, opens, strayed>>

(* Mutant for NothingLeft: the stream is not removed.                      *)
RemoveStreamMutant(t) ==
  /\ At(t, "removestream") /\ Return(t)
  /\ UNCHANGED <<opened, used, file, desc, stream, objs, opens, strayed>>

(* removeStream, after fclose.                                             *)
RemoveStream(t) ==
  /\ At(t, "removestream") /\ Return(t)
  /\ stream' = [stream EXCEPT ![Mine(t).addr] = Less(@)]
  /\ UNCHANGED <<opened, used, file, desc, objs, opens, strayed>>

-------------------------------------------------------------------------------
(* tazerStat asks an open file for its size, without being a user of it.   *)
StatLookup(t, m) ==
  /\ At(t, "idle") /\ file[m] # None
  /\ th' = [th EXCEPT ![t].pc = "stat", ![t].obj = file[m].obj]
  /\ UNCHANGED <<opened, used, tables, objs, opens, strayed>>

StatAnswer(t) ==
  /\ At(t, "stat") /\ Return(t)
  /\ UNCHANGED <<opened, used, tables, objs, opens, strayed>>

-------------------------------------------------------------------------------
(* Who uses a deleted file finds what the memory then has, as the actions  *)
(* above do, or the process ends; so it does where there is no file.       *)
UsesDeleted(t) ==
  \/ At(t, "newindex") /\ ~objs[Mine(t).obj].alive
  \/ th[t].pc \in {"load", "store", "removefile", "stat"} /\ ~objs[th[t].obj].alive

Dies(t) ==
  /\ UsesDeleted(t) \/ NoFile(t)
  /\ th' = [s \in Threads |-> [Idle EXCEPT !.pc = "gone"]]
  /\ UNCHANGED <<opened, used, tables, objs, opens, strayed>>

Call(t) ==
  \/ AddFile(t) \/ AddFileFails(t) \/ NewFilePosIndex(t) \/ AddDescriptor(t)
  \/ AddStream(t) \/ LookupDescriptor(t) \/ LoadPosition(t) \/ StorePosition(t)
  \/ RemoveFile(t) \/ RemoveDescriptor(t) \/ KernelClose(t) \/ RemoveStream(t)
  \/ StatAnswer(t) \/ Dies(t)

FilesNext == \E t \in Threads :
  \/ \E m \in Metas : Open(t, m) \/ StatLookup(t, m)
  \/ \E op \in {"read", "close"} : LookupStream(t, op)
  \/ Call(t)

FilesSpec == FilesInit /\ [][FilesNext]_filesVars

-------------------------------------------------------------------------------
(* Properties.                                                             *)

(* A call finds the file and the position that its open made, even though  *)
(* other threads get the same descriptors and pointers before and after;   *)
(* and that file is not deleted before the call is done, although only     *)
(* names count their users: the counts of the three tables, each changed   *)
(* on its own, agree where it matters.  It is so as long as no stream      *)
(* joined the entry of another descriptor: to join one of the same number  *)
(* does no harm.                                                           *)
FindsItsFile == ~strayed => \A t \in Threads :
  /\ At(t, "lookup") =>
       LET d == th[t].fd
       IN  /\ d # None /\ desc[d] # None
           /\ desc[d].obj = Mine(t).obj /\ desc[d].index = Mine(t).index
  /\ At(t, "newindex") => objs[Mine(t).obj].alive
  /\ th[t].pc \in {"load", "store", "removefile"} => objs[th[t].obj].alive

(* When every thread closed what it opened, no table has an entry, and no  *)
(* file is left, nor a connection or a cache's entry through it; unless a  *)
(* stream joined the entry of another descriptor.                          *)
NothingLeft == ~strayed /\ (\A t \in Threads : At(t, "idle")) =>
  /\ \A m \in Metas : file[m] = None
  /\ \A d \in Fds : desc[d] = None
  /\ \A a \in Addrs : stream[a] = None
  /\ \A o \in DOMAIN objs : ~objs[o].alive

(* The comment of filePos has it that a position needs no lock as long as  *)
(* its index is in bounds: a thread that is the only one to use a position *)
(* finds it where its reads left it.                                       *)
PositionKept == \A t \in Threads : At(t, "open") =>
  objs[Mine(t).obj].pos[Mine(t).index] = th[t].reads
===============================================================================
