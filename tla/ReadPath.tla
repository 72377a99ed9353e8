------------------------------- MODULE ReadPath --------------------------------
(***************************************************************************)
(* One position of a file that is read: the calls that read from it and    *)
(* move it (read, readv, fread, fgetc, fgets, lseek, fseek, ftell), which  *)
(* blocks InputFile and LocalFile ask for, which bytes LocalFileCache puts *)
(* into them, what copyBlock copies where, and which blocks a prefetcher   *)
(* adds.                                                                   *)
(*                                                                         *)
(* A file is the sequence 0, 1, 2, ... of its bytes, so that a byte tells  *)
(* its offset.  Word and Long are the numbers of values of a uint32_t and  *)
(* a uint64_t, small enough here for both to wrap around.                  *)
(***************************************************************************)
EXTENDS Integers, Sequences, FiniteSets

CONSTANTS Word, Long,
          BlkSizes,        \* what maxBlockSize in Config.h may be
          MaxSize,         \* the largest file (a bound)
          Counts, Offsets, \* what is read and how far a seek goes (bounds)
          MaxDelta, Nums   \* of prefetchDelta; numPrefetchBlks (bounds)

ASSUME ReadConstants ==
  /\ Word \in Nat \ {0} /\ Long \in Nat \ {0} /\ Word <= Long
  /\ MaxSize \in 1 .. Word - 1 /\ BlkSizes \subseteq Nat \ {0}
  /\ Counts \subseteq 0 .. Word - 1 /\ Offsets \subseteq 0 .. Long - 1
  /\ MaxDelta \in Nat /\ Nums \subseteq Nat

VARIABLES
  source,     \* the file and its prefetcher
  pos, eof,   \* _filePos[index] and _eof[index]
  call,       \* where the last call began, what it returned and stored
  ahead,      \* the blocks it asked for in advance
  lastIndex   \* of the PerfectPrefetcher

readVars == <<source, pos, eof, call, ahead, lastIndex>>

Closed == [kind |-> "closed"]
NoCall == [from |-> 0, n |-> 0, stored |-> {}]

ReadInit ==
  /\ source = Closed /\ pos = 0 /\ eof = FALSE
  /\ call = NoCall /\ ahead = {} /\ lastIndex = -1

-------------------------------------------------------------------------------
(* Both sides: a file that is smaller than a block is a block.             *)
BlkSize(size, configured) == IF size < configured THEN size ELSE configured

NumBlks(size, blkSize) ==
  size \div blkSize + (IF size % blkSize # 0 THEN 1 ELSE 0)

blkSizeOf == BlkSize(source.size, source.configured)

(* LocalFileCache::getBlockData: the block's bytes, up to the end of the   *)
(* file.  The rest of the block is not initialised.                        *)
BlockData(blk, configured, size) ==
  LET offset == blk * configured
      amount == IF (blk + 1) * configured > size THEN size - offset ELSE configured
  IN  [i \in 0 .. amount - 1 |-> offset + i]

Garbage == -1
ByteAt(data, i) == IF i \in DOMAIN data THEN data[i] ELSE Garbage

-------------------------------------------------------------------------------
(* A read, before and after the blocks come.                               *)

Amount(from, count) ==
  IF from >= source.size THEN 0
  ELSE IF count > source.size - from THEN source.size - from ELSE count

StartBlock(from) == (from \div blkSizeOf) % Word

EndBlock(from, n) ==
  LET end == (from + n) % Long
      blk == (end \div blkSizeOf + (IF end % blkSizeOf # 0 THEN 1 ELSE 0)) % Word
      all == NumBlks(source.size, blkSizeOf)
  IN  IF blk > all THEN all ELSE blk

(* Mutant: a last block that is full is taken for an empty one.            *)
CopyBlockMutant(blk, start, end, from, n, blkSize) ==
  LET skip  == from % blkSize
      first == blk = start
      last  == blk + 1 = end
      temp  == (from + n) % blkSize
  IN  [localStart |-> IF first THEN 0
                      ELSE ((blk - start - 1) * blkSize + blkSize - skip) % Word,
       startFP    |-> IF first THEN skip ELSE 0,
       localSize  |-> (CASE first /\ last  -> n
                         [] first /\ ~last -> blkSize - skip
                         [] ~first /\ last -> temp
                         [] OTHER          -> blkSize) % Word]

(* copyBlock: where the bytes of a block go in the application's buffer,   *)
(* from which one on, and how many.                                        *)
CopyBlock(blk, start, end, from, n, blkSize) ==
  LET skip  == from % blkSize
      first == blk = start
      last  == blk + 1 = end
      temp  == (from + n) % blkSize
  IN  [localStart |-> IF first THEN 0
                      ELSE ((blk - start - 1) * blkSize + blkSize - skip) % Word,
       startFP    |-> IF first THEN skip ELSE 0,
       localSize  |-> (CASE first /\ last  -> n
                         [] first /\ ~last -> blkSize - skip
                         [] ~first /\ last /\ temp # 0 -> temp
                         [] OTHER          -> blkSize) % Word]

(* The bytes that a read stores, each with its place in the buffer:        *)
(* LocalFile takes the blocks in order, InputFile as they come.            *)
Stored(from, n) ==
  LET start == StartBlock(from)
      end   == EndBlock(from, n)
      Of(blk) ==
        LET c    == CopyBlock(blk, start, end, from, n, blkSizeOf)
            data == BlockData(blk, source.configured, source.size)
        IN  {<<c.localStart + i, ByteAt(data, c.startFP + i)>> : i \in 0 .. c.localSize - 1}
  IN  IF n = 0 THEN {} ELSE UNION {Of(blk) : blk \in start .. end - 1}

-------------------------------------------------------------------------------
(* DeltaPrefetcher::getBlocks.  The differences are unsigned: the test for *)
(* startBlk < 0 never holds.                                               *)

GetBlocks(startBlk, endBlk, delta, num, blkSize, size) ==
  LET start == ((IF delta > 0 THEN endBlk ELSE startBlk) + delta) % Long
      end   == (start + num) % Long
      Has(blk) == (blk * blkSize) % Long < size
  IN  {blk \in start .. end - 1 : \A b \in start .. blk : Has(b)}

(* PerfectPrefetcher: the pair of a line of the trace for every read.  The *)
(* index is an int that starts at -1, the size of the trace is unsigned.   *)
TraceEnds(last) == last % Long = (Len(source.trace) - 1) % Long

TraceBlocks(last) ==
  LET pair == source.trace[last + 2] IN pair[1] .. pair[2] - 1

(* loadAccessTrace: the last line is empty, and is read as two zeros.      *)
AccessTrace(lines) == Append(lines, <<0, 0>>)

(* What a read asks for in advance, and where it leaves the trace.         *)
Prefetch(from, n, last) ==
  CASE source.kind = "delta" /\ from < source.size ->
         [blks |-> GetBlocks(StartBlock(from), EndBlock(from, n), source.delta,
                             source.num, blkSizeOf, source.size),
          last |-> last]
    [] source.kind = "perfect" /\ from < source.size /\ ~TraceEnds(last) ->
         [blks |-> TraceBlocks(last), last |-> last + 1]
    [] OTHER -> [blks |-> {}, last |-> last]

-------------------------------------------------------------------------------
(* The file is opened.  (A LocalFile of no bytes divides by zero.)         *)

OpenFile(kind, size, configured) ==
  [kind |-> kind, size |-> size, configured |-> configured,
   delta |-> 0, num |-> 0, trace |-> <<>>]

(* The blocks that an earlier run may have read at once.                   *)
Lines(size, configured) ==
  LET blks == NumBlks(size, BlkSize(size, configured))
  IN  {l \in (0 .. blks) \X (0 .. blks) : l[1] <= l[2]}

OpenInputFile(size, configured) ==
  \/ source' = OpenFile("input", size, configured)
  \/ \E d \in -MaxDelta .. MaxDelta, n \in Nums :
       source' = [OpenFile("delta", size, configured) EXCEPT !.delta = d, !.num = n]
  \/ \E lines \in {<<>>} \cup {<<l>> : l \in Lines(size, configured)} :
       source' = [OpenFile("perfect", size, configured) EXCEPT !.trace = AccessTrace(lines)]

OpenLocalFile(size, configured) == source' = OpenFile("local", size, configured)

OpenForReads(size, configured) ==
  /\ source = Closed
  /\ OpenInputFile(size, configured) \/ OpenLocalFile(size, configured)
  /\ UNCHANGED <<pos, eof, call, ahead, lastIndex>>

-------------------------------------------------------------------------------
(* The calls.  A read at or past the end of the file finds eof.            *)

Read(count) ==
  LET n == Amount(pos, count)
      p == Prefetch(pos, n, lastIndex)
  IN  /\ UNCHANGED source
      /\ pos' = (pos + n) % Long /\ eof' = (eof \/ pos >= source.size)
      /\ call' = [from |-> pos, n |-> n, stored |-> Stored(pos, n)]
      /\ ahead' = p.blks /\ lastIndex' = p.last

(* readv goes on to the second of two buffers while fewer bytes than there *)
(* are buffers came.                                                       *)
Readv(count1, count2) ==
  LET n1 == Amount(pos, count1)
      p1 == Prefetch(pos, n1, lastIndex)
      from == pos + n1
      n2 == Amount(from, count2)
      p2 == Prefetch(from, n2, p1.last)
      second == {<<count1 + b[1], b[2]>> : b \in Stored(from, n2)}
  IN  IF n1 >= 2 THEN Read(count1)
      ELSE /\ UNCHANGED source
           /\ pos' = (from + n2) % Long /\ eof' = (eof \/ from >= source.size)
           /\ call' = [from |-> pos, n |-> n1 + n2, stored |-> Stored(pos, n1) \cup second]
           /\ ahead' = p1.blks \cup p2.blks /\ lastIndex' = p2.last

(* fgetc at the end of the file, when eof was not found yet, returns a     *)
(* byte that is not initialised.                                           *)
Fgetc == ~eof /\ Read(1)

(* fgets reads as much as there is room for, looks for the end of the line *)
(* (after `line` bytes) and goes back to it.  The position is an int.      *)
Fgets(count, line) ==
  LET n == Amount(pos, count)
      p == Prefetch(pos, n, lastIndex)
  IN  IF line >= n THEN ~eof /\ Read(count)
      ELSE /\ ~eof /\ UNCHANGED <<source, eof>>
           /\ pos' = (pos + line) % Word
           /\ call' = [from |-> pos, n |-> line, stored |-> {b \in Stored(pos, n) : b[1] < line}]
           /\ ahead' = p.blks /\ lastIndex' = p.last

(* lseek and fseek; ftell is a seek by nothing from where it is.           *)
Seek(whence, offset) ==
  LET moved == (pos + offset) % Long
  IN  /\ UNCHANGED <<source, lastIndex>>
      /\ pos' = CASE whence = "SEEK_SET" -> offset
                  [] whence = "SEEK_CUR" -> IF moved > source.size THEN source.size ELSE moved
                  [] whence = "SEEK_END" -> (source.size + offset) % Long
      /\ eof' = FALSE /\ call' = NoCall /\ ahead' = {}

Ftell == Seek("SEEK_CUR", 0)

Calls ==
  \/ \E count \in Counts : Read(count)
  \/ \E count1, count2 \in Counts : Readv(count1, count2)
  \/ Fgetc
  \/ \E count \in Counts, line \in Counts \ {0} : Fgets(count, line)
  \/ \E whence \in {"SEEK_SET", "SEEK_CUR", "SEEK_END"}, o \in Offsets : Seek(whence, o)
  \/ Ftell

ReadNext ==
  \/ \E size \in 1 .. MaxSize, configured \in BlkSizes : OpenForReads(size, configured)
  \/ source # Closed /\ Calls

ReadSpec == ReadInit /\ [][ReadNext]_readVars

-------------------------------------------------------------------------------
(* Every read whose count fits into the 32 bits of copyBlock stores, into  *)
(* the places of the buffer from the first on, the bytes of the file from  *)
(* its position on, as many as it returns, and nothing else; and leaves    *)
(* the position after them: whatever part of whichever blocks it covers,   *)
(* wherever seeks lead to, and when fgets goes back to the end of a line.  *)
BytesCopied ==
  /\ call.stored = {<<i, call.from + i>> : i \in 0 .. call.n - 1}
  /\ call.n > 0 => pos = call.from + call.n

(* And its prefetcher asks for blocks that the file has, although a        *)
(* negative delta wraps around: the server does not answer for others, and *)
(* the prefetch would count as a failed read.                              *)
ReadsExact ==
  /\ BytesCopied
  /\ source # Closed => ahead \subseteq 0 .. NumBlks(source.size, blkSizeOf) - 1
===============================================================================
