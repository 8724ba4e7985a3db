-------------------------------- MODULE Mkfs --------------------------------
(***************************************************************************)
(* mkfs.chunkfs: lays a pool summary, a device summary and a list of chunk *)
(* summaries on a device or an image file.  Every summary is one block,    *)
(* written by a call of its own, and mkfs may be killed between any two.   *)
(* The image may be formatted again after it was resized.  Offsets and     *)
(* sizes are bytes; the sizes of a block, a chunk and a machine word are   *)
(* constants.                                                              *)
(***************************************************************************)
EXTENDS Integers, Sequences

CONSTANTS
    Blk,            \* CHUNKFS_BLK_SIZE                      (4096 in the code)
    PoolBlk,        \* CHUNKFS_POOL_BLK                      (8)
    ChunkSize,      \* CHUNKFS_CHUNK_SIZE                    (10 MB)
    Word,           \* a __u64 counts modulo Word            (2^64)
    RawSizes,       \* the sizes the target may have
    MaxFile,        \* a regular file cannot grow beyond this
    MaxFormats      \* bound on the runs of mkfs

DevBlk == PoolBlk + 1
FirstChunk == (DevBlk + 1) * Blk

ASSUME SizeAssumption ==
    /\ {Blk, PoolBlk, ChunkSize, Word, MaxFile} \subseteq Nat \ {0}
    /\ ChunkSize % Blk = 0 /\ ChunkSize >= 2 * Blk
    /\ FirstChunk <= MaxFile /\ MaxFile + 2 * ChunkSize < Word
    /\ RawSizes \subseteq 0 .. MaxFile
    /\ MaxFormats \in Nat

VARIABLES
    isdev,      \* the target is a block device, not a regular file
    size,       \* the bytes of the target
    blk,        \* blk[b]: what block b of it holds
    mk,         \* where mkfs is: "none" when it does not run
    raw,        \* raw_dev_size
    start,      \* chunk_start
    chunk_id,
    result,     \* how the last mkfs ended: "never", "ok", "failed", "killed"
    formats     \* how many were started

mkVars == <<isdev, size, blk, mk, raw, start, chunk_id, result, formats>>

-----------------------------------------------------------------------------
(* The summaries                                                           *)

Garbage == [magic |-> "none"]

\* create_pool_summary fills in the description of the root device, then
\* bzeroes the pool, the description with it: only the magic is left
PoolSummary == [magic |-> "pool"]

\* The device is taken to end at raw - 2: main takes one byte off its size,
\* create_dev_summary another
DevEnd(n) == (n - 2) % Word

DevSummary(n) == [magic |-> "dev", d_end |-> DevEnd(n), d_innards_begin |-> FirstChunk]

\* Mutant of Another: every chunk is taken for the last
AnotherNever(c_end, n) == FALSE

\* "Can we get another chunk in?"
Another(c_end, n) == (c_end + ChunkSize - 1) % Word < DevEnd(n)

\* Mutant of ChunkSummary: every chunk is flagged as root
ChunkSummaryAllRoot(id, begin, n) ==
    [magic |-> "chunk", id |-> id, root |-> TRUE, c_begin |-> begin,
     c_end |-> begin + ChunkSize - 1,
     c_next |-> IF Another(begin + ChunkSize - 1, n) THEN begin + ChunkSize ELSE 0]

ChunkSummary(id, begin, n) ==
    [magic |-> "chunk", id |-> id, root |-> (id = 1), c_begin |-> begin,
     c_end |-> begin + ChunkSize - 1,
     c_next |-> IF Another(begin + ChunkSize - 1, n) THEN begin + ChunkSize ELSE 0]

-----------------------------------------------------------------------------
(* main: one write_block after the other                                   *)

\* How far write can go: to the end of a device, to the limit of a file
Limit == IF isdev THEN size ELSE MaxFile

\* write_block: a file that is too short grows
WriteBlock(off, s) ==
    /\ off + Blk <= Limit
    /\ blk' = [blk EXCEPT ![off \div Blk] = s]
    /\ size' = IF size < off + Blk THEN off + Blk ELSE size

Exit(r) == mk' = "none" /\ result' = r

\* fstat of a block device gives size 0
StatSize == IF isdev THEN 0 ELSE size

Start ==
    /\ mk = "none" /\ formats < MaxFormats
    /\ mk' = "pool" /\ formats' = formats + 1
    /\ raw' = StatSize
    /\ start' = FirstChunk /\ chunk_id' = 1
    /\ UNCHANGED <<isdev, size, blk, result>>

WritePool ==
    /\ mk = "pool"
    /\ WriteBlock(PoolBlk * Blk, PoolSummary)
    /\ mk' = "dev"
    /\ UNCHANGED <<isdev, raw, start, chunk_id, result, formats>>

WriteDev ==
    /\ mk = "dev"
    /\ WriteBlock(DevBlk * Blk, DevSummary(raw))
    /\ mk' = "chunks"
    /\ UNCHANGED <<isdev, raw, start, chunk_id, result, formats>>

\* Mutant of Fits: only the first byte of the chunk has to fit
FitsStart == start % Word < DevEnd(raw)

\* The condition of the loop of write_chunk_summaries
Fits == (start + ChunkSize - 1) % Word < DevEnd(raw)

WriteChunk ==
    /\ mk = "chunks" /\ Fits
    /\ WriteBlock(start, ChunkSummary(chunk_id, start, raw))
    /\ start' = (start + ChunkSize) % Word
    /\ chunk_id' = chunk_id + 1
    /\ UNCHANGED <<isdev, mk, raw, result, formats>>

Finish ==
    /\ mk = "chunks" /\ ~Fits
    /\ Exit("ok")
    /\ UNCHANGED <<isdev, size, blk, raw, start, chunk_id, formats>>

\* Where mkfs is about to write
Target == IF mk = "pool" THEN PoolBlk * Blk ELSE IF mk = "dev" THEN DevBlk * Blk ELSE start

\* error(1, ...): the write does not go through
WriteFails ==
    /\ mk # "none" /\ (mk = "chunks" => Fits)
    /\ Target + Blk > Limit
    /\ Exit("failed")
    /\ UNCHANGED <<isdev, size, blk, raw, start, chunk_id, formats>>

\* The user interrupts mkfs, or the machine stops
Killed ==
    /\ mk # "none"
    /\ Exit("killed")
    /\ UNCHANGED <<isdev, size, blk, raw, start, chunk_id, formats>>

\* An image file is given another size: what it loses is gone
Resize ==
    /\ ~isdev /\ mk = "none"
    /\ \E n \in RawSizes :
          /\ size' = n
          /\ blk' = [b \in DOMAIN blk |-> IF (b + 1) * Blk <= n THEN blk[b] ELSE Garbage]
    /\ UNCHANGED <<isdev, mk, raw, start, chunk_id, result, formats>>

MkInit ==
    /\ size \in RawSizes /\ isdev \in BOOLEAN
    /\ blk = [b \in 0 .. MaxFile \div Blk |-> Garbage]
    /\ mk = "none" /\ raw = 0 /\ start = 0 /\ chunk_id = 0
    /\ result = "never" /\ formats = 0

MkStep == Start \/ WritePool \/ WriteDev \/ WriteChunk \/ Finish \/ WriteFails \/ Killed

-----------------------------------------------------------------------------
(* Properties                                                              *)

\* The offsets that hold a chunk summary
ChunkOffsets == {b * Blk : b \in {c \in DOMAIN blk : blk[c].magic = "chunk"}}

\* The offset of chunk number k
OffsetOf(k) == FirstChunk + (k - 1) * ChunkSize

\* Every chunk summary on the target, whichever run of mkfs wrote it and
\* however far that run got, is where the k-th chunk belongs and says so: chunks
\* of different formats never overlap.
ChunksInPlace ==
    \A off \in ChunkOffsets :
        LET c == blk[off \div Blk]
        IN  /\ off = OffsetOf(c.id) /\ c.c_begin = off
            /\ c.c_end = off + ChunkSize - 1
            /\ c.c_next \in {0, off + ChunkSize}
            /\ c.root <=> c.id = 1

\* The chunks of an mkfs that succeeded lie inside the target, client file
\* systems included; a size too small for the arithmetic on unsigned words
\* (0 and 1 wrap) does not get that far.
ChunksFit ==
    result = "ok" /\ mk = "none" /\ formats = 1 =>
        \A off \in ChunkOffsets : off + ChunkSize <= raw
=============================================================================
