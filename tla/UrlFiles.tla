-------------------------------- MODULE UrlFiles --------------------------------
(***************************************************************************)
(* Local files that are URLs: UrlDownload with the CURL handles that all   *)
(* threads of a process share, and the blocks UrlCache makes of what it    *)
(* downloads.                                                              *)
(*                                                                         *)
(* A handle only ever gets the whole file (_ranges is false for an object  *)
(* of which the size is given), in packets that the callback cuts down to  *)
(* the block.  The handles are made by the first user and, unless they are *)
(* kept from the start, destroyed by the last: every UrlDownload is a      *)
(* reader of _initLock, and nobody destroys them while there are readers.  *)
(***************************************************************************)
EXTENDS Integers, FiniteSets, Sequences

CONSTANTS UrlUsers,   \* threads, each with a URL
          Handles,    \* numCurlHandles of them
          UrlSize,    \* the bytes of a file
          UrlBlock,   \* memoryCacheBlocksize
          NoUser, NoHandle

ASSUME UrlConstants ==
  /\ IsFiniteSet(UrlUsers) /\ IsFiniteSet(Handles) /\ Handles # {}
  /\ UrlSize \in Nat \ {0} /\ UrlBlock \in Nat \ {0}
  /\ NoUser \notin UrlUsers /\ NoHandle \notin Handles

VARIABLES
  onStart,  \* curlOnStartup
  curl,     \* _started, _handles, and _initLock: its flag and its readers
  user      \* where a thread is, its object and its download

urlVars == <<onStart, curl, user>>

Away == [pc |-> "out", for |-> "size", size |-> 0, handle |-> NoHandle,
         start |-> 0, end |-> 0, current |-> 0, got |-> <<>>, answer |-> "none"]

UrlInit ==
  /\ onStart \in BOOLEAN
  /\ curl = [started |-> FALSE, free |-> {}, flag |-> NoUser, readers |-> {}]
  /\ user = [u \in UrlUsers |-> Away]

-------------------------------------------------------------------------------
Stands(u, pc) == user[u].pc = pc
Moves(u, pc) == user' = [user EXCEPT ![u].pc = pc]

(* An object for the size of the file, and then one for its blocks.        *)
NewDownload(u) == Stands(u, "out") /\ Moves(u, "try") /\ UNCHANGED <<onStart, curl>>

(* startCurl: with cowardlyTryWriterLock, which fails if somebody else has *)
(* the flag or if there are readers.                                       *)
Started == IF onStart THEN "ready" ELSE "enter"

TryFails(u, at, next) ==
  /\ Stands(u, at) /\ curl.flag # NoUser /\ Moves(u, next) /\ UNCHANGED <<onStart, curl>>

TrySets(u, at, next) ==
  /\ Stands(u, at) /\ curl.flag = NoUser /\ curl' = [curl EXCEPT !.flag = u]
  /\ Moves(u, next) /\ UNCHANGED onStart

(* Mutant: the readers are not looked at.                                  *)
DecideMutant(u, at, yes, no) ==
  Stands(u, at) /\ Moves(u, yes) /\ UNCHANGED <<onStart, curl>>

Decide(u, at, yes, no) ==
  /\ Stands(u, at) /\ UNCHANGED onStart
  /\ \/ curl.readers = {} /\ Moves(u, yes) /\ UNCHANGED curl
     \/ curl.readers # {} /\ Moves(u, no) /\ curl' = [curl EXCEPT !.flag = NoUser]

MakeHandles(u) ==
  /\ Stands(u, "make") /\ Moves(u, Started) /\ UNCHANGED onStart
  /\ curl' = [curl EXCEPT !.started = TRUE, !.flag = NoUser,
                          !.free = IF curl.started \/ @ # {} THEN @ ELSE Handles]

StartCurl(u) ==
  \/ TryFails(u, "try", Started) \/ TrySets(u, "try", "decide")
  \/ Decide(u, "decide", "make", Started) \/ MakeHandles(u)

EnterReader(u) ==
  /\ Stands(u, "enter") /\ curl.flag = NoUser /\ Moves(u, "ready")
  /\ curl' = [curl EXCEPT !.readers = @ \cup {u}] /\ UNCHANGED onStart

-------------------------------------------------------------------------------
(* What is downloaded: the header, the whole file to count its bytes, or a *)
(* block.  Each waits for a handle, and gives it back.                     *)

FileSizeOf(u) == user[u].size
BlkSizeOf(u) == IF FileSizeOf(u) < UrlBlock THEN FileSizeOf(u) ELSE UrlBlock

(* UrlCache::getBlockData.                                                 *)
LastByte(u, start) ==
  LET end == start + BlkSizeOf(u) - 1
  IN  IF end > FileSizeOf(u) THEN FileSizeOf(u) - 1 ELSE end

Ask(u) ==
  /\ Stands(u, "ready") /\ UNCHANGED <<onStart, curl>>
  /\ IF user[u].for = "size" THEN user' = [user EXCEPT ![u].pc = "header"]
     ELSE \E start \in {b * BlkSizeOf(u) : b \in 0 .. UrlSize} :
            /\ start < FileSizeOf(u)
            /\ user' = [user EXCEPT ![u] =
                 [@ EXCEPT !.pc = "block", !.start = start, !.end = LastByte(u, start),
                           !.current = 0, !.got = <<>>, !.answer = "none"]]

Busy(u) == user[u].handle # NoHandle

TakeHandle(u) ==
  /\ user[u].pc \in {"header", "count", "block"} /\ ~Busy(u)
  /\ \E h \in curl.free :
       /\ user' = [user EXCEPT ![u].handle = h]
       /\ curl' = [curl EXCEPT !.free = @ \ {h}]
  /\ UNCHANGED onStart

GivesBack(u) == curl' = [curl EXCEPT !.free = @ \cup {user[u].handle}]

(* getHeader and the checks: a header that came is freed, and taken for    *)
(* one of a file that exists; if it did not come, the file does not exist. *)
Header(u) ==
  /\ Stands(u, "header") /\ Busy(u) /\ GivesBack(u) /\ UNCHANGED onStart
  /\ \E pc \in {"count", "leave"} :
       user' = [user EXCEPT ![u].pc = pc, ![u].handle = NoHandle]

(* UrlDownload::size: the bytes that came until the time was up.  (A file  *)
(* of no bytes would be divided by its block size of zero.)                *)
Count(u) ==
  /\ Stands(u, "count") /\ Busy(u) /\ GivesBack(u) /\ UNCHANGED onStart
  /\ \E n \in 1 .. UrlSize :
       user' = [user EXCEPT ![u].pc = "leave", ![u].handle = NoHandle, ![u].size = n]

(* WriteMemoryRangeCallback: what it copies of a packet of n bytes, of     *)
(* which the first is byte `start` of the file, for the bytes from..to.    *)
CopyOf(start, n, from, to) ==
  LET end == start + n - 1
      copy(first, size) == [i \in 1 .. size |-> start + first + i - 1]
  IN  IF end < from \/ start > to THEN <<>>
      ELSE IF from <= start /\ end <= to THEN copy(0, n)
      ELSE IF start <= from /\ to <= end THEN copy(from - start, to - from + 1)
      ELSE IF start < from /\ end <= to THEN copy(from - start, n - (from - start))
      ELSE IF start <= to /\ to < end THEN copy(0, to - start + 1)
      ELSE <<>>

Packet(u) ==
  /\ Stands(u, "block") /\ Busy(u) /\ UNCHANGED <<onStart, curl>>
  /\ \E n \in 1 .. UrlSize - user[u].current :
       user' = [user EXCEPT ![u].current = @ + n,
                  ![u].got = @ \o CopyOf(user[u].current, n, user[u].start, user[u].end)]

(* A download that is cut short has no data, and the request goes on to    *)
(* the next cache.                                                         *)
Finish(u) ==
  /\ Stands(u, "block") /\ Busy(u) /\ GivesBack(u) /\ UNCHANGED onStart
  /\ \E answer \in {"data", "next"} :
       /\ answer = "data" => user[u].current = UrlSize
       /\ user' = [user EXCEPT ![u].pc = "ready", ![u].handle = NoHandle, ![u].answer = answer]

-------------------------------------------------------------------------------
(* ~UrlDownload and endCurl: of the object for the size, or of the other   *)
(* when the file is closed.                                                *)

CloseUrl(u) ==
  Stands(u, "ready") /\ user[u].for = "blocks" /\ Moves(u, "leave") /\ UNCHANGED <<onStart, curl>>

(* Then the file is there if it has a size.                                *)
Ended(u) ==
  IF user[u].for = "size" /\ user[u].size > 0
  THEN [Away EXCEPT !.pc = "try", !.for = "blocks", !.size = user[u].size] ELSE Away

Ends(u) == user' = [user EXCEPT ![u] = Ended(u)]

EndCurl(u) ==
  \/ /\ Stands(u, "leave") /\ onStart /\ Ends(u) /\ UNCHANGED <<onStart, curl>>
  \/ /\ Stands(u, "leave") /\ ~onStart /\ Moves(u, "tryend") /\ UNCHANGED onStart
     /\ curl' = [curl EXCEPT !.readers = @ \ {u}]
  \/ TrySets(u, "tryend", "decideend")
  \/ TryFails(u, "tryend", "ended") \/ Decide(u, "decideend", "destroy", "ended")
  \/ Stands(u, "ended") /\ Ends(u) /\ UNCHANGED <<onStart, curl>>

DestroyHandles(u) ==
  /\ Stands(u, "destroy") /\ Ends(u) /\ UNCHANGED onStart
  /\ curl' = [curl EXCEPT !.flag = NoUser, !.started = FALSE,
                          !.free = IF curl.started THEN {} ELSE @]

UrlStep(u) ==
  \/ NewDownload(u) \/ StartCurl(u) \/ EnterReader(u) \/ Ask(u) \/ TakeHandle(u)
  \/ Header(u) \/ Count(u) \/ Packet(u) \/ Finish(u) \/ CloseUrl(u) \/ EndCurl(u)
  \/ DestroyHandles(u)

UrlNext == \E u \in UrlUsers : UrlStep(u)

UrlSpec == UrlInit /\ [][UrlNext]_urlVars

-------------------------------------------------------------------------------
(* A handle has one user, is destroyed by the last user of all handles     *)
(* only, and all of them are there as long as they are said to be.         *)
HandlesKept ==
  LET busy == {u \in UrlUsers : Busy(u)}
      taken == {user[u].handle : u \in busy}
  IN  /\ Cardinality(taken) = Cardinality(busy) /\ taken \cap curl.free = {}
      /\ taken \cup curl.free = IF curl.started THEN Handles ELSE {}

(* What a request gets begins with the first byte of its block, leaves     *)
(* none out, and holds the rest of the block, or of the file as it was     *)
(* counted, but no more than a block: however the packets are cut.         *)
BlocksWhole ==
  \A u \in UrlUsers : user[u].answer = "data" =>
    LET n == Len(user[u].got)
        rest == user[u].size - user[u].start
    IN  /\ n <= BlkSizeOf(u) /\ (n >= BlkSizeOf(u) \/ n >= rest)
        /\ \A i \in 1 .. n : user[u].got[i] = user[u].start + i - 1

DownloadsSound == HandlesKept /\ BlocksWhole
===============================================================================
