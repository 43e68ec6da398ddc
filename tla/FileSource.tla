----------------------------- MODULE FileSource ----------------------------
(***************************************************************************)
(* FileSource (CFCore/FileSource.cpp): reads of a file at a position,      *)
(* straight from the disk or through a map of block buffers.  The buffers  *)
(* form a queue in least recently used order; a block that is not in the   *)
(* map takes a new buffer or the one at the head.  fMutex is held over a   *)
(* read through the cache, fills from the disk included; reads from the    *)
(* disk take no lock and share fPosition and the descriptor's offset.       *)
(*                                                                         *)
(* The file is replaced, and the map allocated, between reads.  A byte of  *)
(* a file is the pair of the file and the position.                        *)
(***************************************************************************)
EXTENDS Integers, Sequences, FiniteSets, SequencesExt

CONSTANTS
    Readers, NoReader,
    Files, FileLength,     \* the files and the length of each
    kBufferUnitSize,
    UnitCounts, IncCounts, \* arguments of AllocateFileCache()
    Requests,              \* [Readers -> arguments of Read(): position and length]
    MaxBuffers,            \* bound: fMaxBuffers
    MaxFaults              \* bound: reads that fail, accesses that cut into another, new files

ASSUME FileAssumption ==
    /\ FileLength \in [Files -> Nat] /\ NoReader \notin Readers
    /\ kBufferUnitSize \in Nat \ {0} /\ UnitCounts \subseteq Nat /\ MaxBuffers \in Nat \ {0}
    /\ IncCounts \subseteq 0..MaxBuffers /\ Requests \in [Readers -> SUBSET (Nat \X Nat)] /\ MaxFaults \in Nat

Buffers == 1..MaxBuffers

VARIABLES
    fFile, fPosition,
    fFileMapArray,        \* [blocks of the map -> buffer, or 0]
    fNumBuffSizeUnits, fDataBufferSize,
    fQueue,               \* buffers, least recently used first
    fMaxBuffers, fBufferInc,
    fArrayIndex, fFill, fData,   \* of each buffer
    fCacheEnabled,
    fMutex,               \* reader that holds it, or NoReader
    call,                 \* the call each reader is in; history: tainted if another
                          \*   access cut into it or it copied from a spoiled block
    spoiled,              \* history: blocks in the map that may not be the file's:
                          \*   the fill failed, or was raced, or the file was replaced
    raced,                \* history: readers whose disk access another one cut into
    faults                \* how many faults there were

poolVars == <<fFileMapArray, fNumBuffSizeUnits, fDataBufferSize, fQueue, fMaxBuffers, fBufferInc,
              fArrayIndex, fFill, fData>>
fsVars == <<fFile, fPosition, poolVars, fCacheEnabled, fMutex, call, spoiled, raced, faults>>

Idle == [phase |-> "idle", pos |-> 0, len |-> 0, index |-> 0, cached |-> FALSE, out |-> <<>>, tainted |-> FALSE]

\* A file is set; no cache is allocated.
FileInit ==
    /\ fFile \in Files /\ fPosition = 0
    /\ fFileMapArray = <<>> /\ fNumBuffSizeUnits = 0 /\ fDataBufferSize = 0
    /\ fQueue = <<>> /\ fMaxBuffers = 1 /\ fBufferInc = 0
    /\ fArrayIndex = [b \in Buffers |-> -1] /\ fFill = [b \in Buffers |-> 0]
    /\ fData = [b \in Buffers |-> <<>>]
    /\ fCacheEnabled = FALSE /\ fMutex = NoReader
    /\ call = [r \in Readers |-> Idle]
    /\ raced = {} /\ spoiled = {} /\ faults = 0

Content(f, from, n) == [i \in 1..n |-> <<f, from + i - 1>>]

\* What the disk has of n bytes at fPosition.
DiskBytes(n) ==
    LET left == FileLength[fFile] - fPosition
    IN Content(fFile, fPosition, IF left <= 0 THEN 0 ELSE IF left < n THEN left ELSE n)

Initialized == DOMAIN fFileMapArray # {}
GetBuffIndex(pos) == pos \div fDataBufferSize
GetMaxBuffIndex == Cardinality(DOMAIN fFileMapArray) - 1

\* A step that is a fault if b holds.
Fault(b) == faults' = (IF b THEN faults + 1 ELSE faults) /\ faults' <= MaxFaults

Phase(r, p) == call[r].phase = p
Quiet == \A r \in Readers : Phase(r, "idle")

----------------------------------------------------------------------------
(* The file and its cache *)

\* Close() and open() of a file; the map stays, with the blocks of the old file.
Set(f) ==
    /\ Quiet
    /\ fFile' = f /\ fPosition' = 0
    /\ spoiled' = {i \in DOMAIN fFileMapArray : fFileMapArray[i] # 0 /\ (i \in spoiled \/ f # fFile)}
    /\ Fault(f # fFile)
    /\ UNCHANGED <<poolVars, fCacheEnabled, fMutex, call, raced>>

\* The units of a block if the caller leaves them open: the bit rate in units of
\* the size it asked for, or the most there may be; one at the least.
NumBuffSizeUnits(units, unitSize, bitRate, max) ==
    LET rate == IF bitRate = 0 THEN max * unitSize ELSE bitRate
        n == IF units # 0 THEN units
             ELSE IF rate \div unitSize > max THEN max ELSE rate \div unitSize
    IN IF n < 1 THEN 1 ELSE n

\* AllocateBufferMap().  A map with the same units and as many buffers as the
\* increment is kept.  DeleteBlockPool() has set the unit size back by the time
\* the block size is computed.  The map has a slot for the end of the file.
AllocateFileCache(units, incBuffers) ==
    /\ Quiet
    /\ ~(Initialized /\ fNumBuffSizeUnits = units /\ incBuffers = fMaxBuffers)
    /\ fNumBuffSizeUnits' = NumBuffSizeUnits(units, kBufferUnitSize, kBufferUnitSize, 8)
    /\ fDataBufferSize' = kBufferUnitSize * fNumBuffSizeUnits'
    /\ fMaxBuffers' = IF incBuffers > 0 THEN incBuffers ELSE 1
    /\ fBufferInc' = IF incBuffers > 0 THEN incBuffers ELSE fBufferInc
    /\ fFileMapArray' = [i \in 0..(FileLength[fFile] \div fDataBufferSize') |-> 0]
    /\ fQueue' = <<>> /\ fArrayIndex' = [b \in Buffers |-> -1]
    /\ fFill' = [b \in Buffers |-> 0] /\ fData' = [b \in Buffers |-> <<>>]
    /\ spoiled' = {}
    /\ UNCHANGED <<fFile, fPosition, fCacheEnabled, fMutex, call, raced, faults>>

EnableFileCache(enabled) ==
    /\ fMutex = NoReader
    /\ fCacheEnabled' = enabled
    /\ UNCHANGED <<fFile, fPosition, poolVars, fMutex, call, spoiled, raced, faults>>

SetMaxBuffers(n) ==
    /\ fMutex = NoReader /\ n \in 1..MaxBuffers
    /\ fMaxBuffers' = n
    /\ UNCHANGED <<fFile, fPosition, fFileMapArray, fNumBuffSizeUnits, fDataBufferSize, fQueue,
                   fBufferInc, fArrayIndex, fFill, fData, fCacheEnabled, fMutex, call, spoiled, raced, faults>>

IncMaxBuffers == SetMaxBuffers(fMaxBuffers + fBufferInc)
DecMaxBuffers == fMaxBuffers > fBufferInc /\ SetMaxBuffers(fMaxBuffers - fBufferInc)

----------------------------------------------------------------------------
(* Reads *)

\* Readers between Seek() and read(), whom an access of r cuts into.
Cut(r) == {q \in Readers \ {r} : Phase(q, "disk")}

\* Read() without a position goes on at fPosition.
ReadOn(r) ==
    /\ Phase(r, "idle")
    /\ call' = [call EXCEPT ![r] = [@ EXCEPT !.phase = "disk", !.pos = fPosition, !.len = 1]]
    /\ raced' = (raced \ {r}) \cup Cut(r) \cup (IF Cut(r) # {} THEN {r} ELSE {})
    /\ Fault(Cut(r) # {})
    /\ UNCHANGED <<fFile, fPosition, poolVars, fCacheEnabled, fMutex, spoiled>>

\* ReadFromCache() up to its loop, once it has the lock.
ReadFromCache(r, pos, len) ==
    /\ fMutex = NoReader
    /\ IF pos >= FileLength[fFile]
       THEN call' = [call EXCEPT ![r] = [@ EXCEPT !.phase = "done", !.pos = pos, !.len = len]] /\ UNCHANGED fMutex
       ELSE /\ fMutex' = r
            /\ call' = [call EXCEPT ![r] = [@ EXCEPT !.phase = "block", !.pos = pos, !.len = len,
                                                     !.cached = TRUE, !.index = GetBuffIndex(pos)]]

\* Read() at a position: through the cache if it reaches no further than the map.
\* The unlocked test of the cache and the lock of ReadFromCache() are one step: a
\* cache that is disabled between them would meet Assert(0), which is left out.
Read(r, pos, len) ==
    /\ Phase(r, "idle")
    /\ IF ~Initialized \/ ~fCacheEnabled \/ GetBuffIndex(pos + len) > GetMaxBuffIndex
       THEN /\ call' = [call EXCEPT ![r] = [@ EXCEPT !.phase = "seek", !.pos = pos, !.len = len]]
            /\ UNCHANGED fMutex
       ELSE ReadFromCache(r, pos, len)
    /\ UNCHANGED <<fFile, fPosition, poolVars, fCacheEnabled, spoiled, raced, faults>>

\* DeleteOldBuffs(): the buffers at the head that are too many.
DeleteOldBuffs ==
    SubSeq(fQueue, 1, IF Len(fQueue) > fMaxBuffers THEN Len(fQueue) - fMaxBuffers ELSE 0)

\* Mutant: the slot of the block a buffer held before is not cleared.
TakeBufferOnly(map, b, index) == [map EXCEPT ![index] = b]

\* The map after buffer b has taken a block.
TakeBuffer(map, b, index) ==
    [i \in DOMAIN map |-> IF i = index THEN b ELSE IF map[i] = b THEN 0 ELSE map[i]]

\* GetBuffer() of the reader's block, which becomes the most recently used; a
\* buffer that did not hold this block is to be filled.
GetBuffer(r) ==
    LET old == DeleteOldBuffs
        kept == SubSeq(fQueue, Len(old) + 1, Len(fQueue))
        map == [i \in DOMAIN fFileMapArray |->
                    IF \E k \in DOMAIN old : old[k] = fFileMapArray[i] THEN 0 ELSE fFileMapArray[i]]
        index == call[r].index
        unused == Buffers \ ToSet(kept)
        b == IF map[index] # 0 THEN map[index]
             ELSE IF Len(kept) < fMaxBuffers THEN CHOOSE n \in unused : \A m \in unused : n <= m
             ELSE Head(kept)
        isNew == b \in unused
        filled == ~isNew /\ fArrayIndex[b] = index
    IN
    /\ Phase(r, "block")
    /\ fQueue' = Append(RemoveFirst(kept, b), b)
    /\ fFileMapArray' = IF filled THEN map ELSE TakeBuffer(map, b, index)
    /\ fArrayIndex' = [e \in Buffers |-> IF e = b THEN index ELSE IF e \in unused THEN -1 ELSE fArrayIndex[e]]
    /\ fFill' = [e \in Buffers |-> IF e \in unused THEN 0 ELSE fFill[e]]
    /\ fData' = [e \in Buffers |-> IF e \in unused THEN <<>> ELSE fData[e]]
    /\ spoiled' = {i \in spoiled : fFileMapArray'[i] # 0}
    /\ call' = [call EXCEPT ![r].phase = IF filled THEN "copy" ELSE "seek"]
    /\ UNCHANGED <<fFile, fPosition, fNumBuffSizeUnits, fDataBufferSize, fMaxBuffers, fBufferInc,
                   fCacheEnabled, fMutex, raced, faults>>

Target(r) == IF call[r].cached THEN call[r].index * fDataBufferSize ELSE call[r].pos

\* ReadFromPos(): Seek(), and then ReadFromDisk().
Seek(r) ==
    /\ Phase(r, "seek")
    /\ fPosition' = Target(r)
    /\ call' = [call EXCEPT ![r].phase = "disk"]
    /\ raced' = (raced \ {r}) \cup Cut(r) \cup (IF Cut(r) # {} THEN {r} ELSE {})
    /\ Fault(Cut(r) # {})
    /\ UNCHANGED <<fFile, poolVars, fCacheEnabled, fMutex, spoiled>>

\* lseek() and read(), into the buffer of the block or the caller's.  Another access
\* between the two has moved fPosition and the offset alike.  An error leaves the
\* block in the map with a fill size of zero and ends the call.
ReadFromDisk(r, ok) ==
    LET c == call[r]
        bytes == IF ok THEN DiskBytes(IF c.cached THEN fDataBufferSize ELSE c.len) ELSE <<>>
        b == fFileMapArray[c.index]
    IN
    /\ Phase(r, "disk")
    /\ fPosition' = fPosition + Len(bytes)
    /\ Fault(~ok)
    /\ IF c.cached
       THEN /\ fFill' = [fFill EXCEPT ![b] = Len(bytes)]
            /\ fData' = IF ok THEN [fData EXCEPT ![b] = bytes] ELSE fData
            /\ spoiled' = IF ok /\ r \notin raced THEN spoiled \ {c.index} ELSE spoiled \cup {c.index}
       ELSE UNCHANGED <<fFill, fData, spoiled>>
    /\ call' = [call EXCEPT ![r].phase = IF ~ok THEN "failed" ELSE IF c.cached THEN "copy" ELSE "done",
                            ![r].out = IF c.cached THEN @ ELSE bytes,
                            ![r].tainted = @ \/ r \in raced]
    /\ fMutex' = IF c.cached /\ ~ok THEN NoReader ELSE fMutex
    /\ UNCHANGED <<fFile, fFileMapArray, fNumBuffSizeUnits, fDataBufferSize, fQueue, fMaxBuffers, fBufferInc,
                   fArrayIndex, fCacheEnabled, raced>>

\* Mutant: the position within the block is kept for the next blocks.
BuffPosKept(c) == c.pos - (c.pos \div fDataBufferSize) * fDataBufferSize

\* Where the copy begins in the block: at its start after the first block.
BuffPos(c) == IF c.index = GetBuffIndex(c.pos)
              THEN c.pos - c.index * fDataBufferSize ELSE 0

\* The rest of a turn of the loop: copy from the block and go on to the next, or
\* stop at the end of the file.  A block shorter than the position in it, which
\* only a failed or raced fill leaves, makes the length of the copy negative.
Copy(r) ==
    LET c == call[r]
        b == fFileMapArray[c.index]
        bytesToCopy == c.len - Len(c.out)
        n == IF bytesToCopy >= fFill[b] - BuffPos(c) THEN fFill[b] - BuffPos(c) ELSE bytesToCopy
        out == c.out \o SubSeq(fData[b], BuffPos(c) + 1, BuffPos(c) + n)
        eof == BuffPos(c) = 0 /\ bytesToCopy <= fDataBufferSize /\ fFill[b] < bytesToCopy
        more == ~eof /\ c.index + 1 <= GetBuffIndex(c.pos + c.len) /\ c.index + 1 <= GetMaxBuffIndex
    IN
    /\ Phase(r, "copy")
    /\ call' = [call EXCEPT ![r] = [@ EXCEPT !.phase = IF n < 0 THEN "undefined" ELSE IF more THEN "block" ELSE "done",
                                             !.index = IF more THEN c.index + 1 ELSE c.index,
                                             !.out = IF n < 0 THEN c.out ELSE out,
                                             !.tainted = c.tainted \/ c.index \in spoiled]]
    /\ fMutex' = IF n < 0 \/ more THEN r ELSE NoReader
    /\ UNCHANGED <<fFile, fPosition, poolVars, fCacheEnabled, spoiled, raced, faults>>

Return(r) ==
    /\ call[r].phase \in {"done", "failed"}
    /\ call' = [call EXCEPT ![r] = Idle]
    /\ raced' = raced \ {r}
    /\ UNCHANGED <<fFile, fPosition, poolVars, fCacheEnabled, fMutex, spoiled, faults>>

FileNext ==
    \/ \E f \in Files : Set(f)
    \/ \E u \in UnitCounts, n \in IncCounts : AllocateFileCache(u, n)
    \/ \E e \in BOOLEAN : EnableFileCache(e)
    \/ IncMaxBuffers \/ DecMaxBuffers
    \/ \E r \in Readers :
          \/ \E q \in Requests[r] : Read(r, q[1], q[2])
          \/ ReadOn(r)
          \/ GetBuffer(r) \/ Copy(r)
          \/ Seek(r) \/ Return(r)
          \/ \E ok \in BOOLEAN : ReadFromDisk(r, ok)

FileSpec == FileInit /\ [][FileNext]_fsVars

----------------------------------------------------------------------------
(* Properties *)

\* The queue and the map name the same buffers: each buffer in use is queued
\* once and is found at the one slot that it believes to be in, whatever was
\* evicted, grown or shrunk in between.
PoolConsistent ==
    /\ IsInjective(fQueue)
    /\ \A b \in ToSet(fQueue) : fArrayIndex[b] \in DOMAIN fFileMapArray /\ fFileMapArray[fArrayIndex[b]] = b
    /\ \A i \in DOMAIN fFileMapArray : fFileMapArray[i] # 0 =>
           fFileMapArray[i] \in ToSet(fQueue) /\ fArrayIndex[fFileMapArray[i]] = i

\* A read that succeeds gives what the file has at the position and no less, over
\* any number of blocks and whatever was evicted meanwhile, unless another access
\* cut into its own or it copied from a block whose fill had failed, had been cut
\* into or was made before the file was replaced.
ReadsExact ==
    \A r \in Readers : ~call[r].tainted =>
        /\ Phase(r, "done") =>
               LET left == FileLength[fFile] - call[r].pos
                   n == IF left < 0 THEN 0 ELSE IF left < call[r].len THEN left ELSE call[r].len
               IN call[r].out = Content(fFile, call[r].pos, n)
        /\ ~Phase(r, "undefined")
============================================================================
