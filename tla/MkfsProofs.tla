----------------------------- MODULE MkfsProofs -----------------------------
(***************************************************************************)
(* What every step of mkfs.chunkfs keeps true of the target, for all sizes *)
(* of blocks, chunks, words and targets.  MountProofs uses it to prove     *)
(* theorems of the specification that runs mkfs.                           *)
(***************************************************************************)
EXTENDS Mkfs, TLAPS

-----------------------------------------------------------------------------
(* Arithmetic on offsets                                                   *)

\* The sizes as the provers need them.
LEMMA Sizes ==
    /\ Blk \in Nat /\ Blk >= 1 /\ PoolBlk \in Nat /\ PoolBlk >= 1
    /\ ChunkSize \in Nat /\ ChunkSize >= 2 * Blk
    /\ ChunkSize % Blk = 0
    /\ Word \in Nat /\ MaxFile \in Nat /\ MaxFile + 2 * ChunkSize < Word
    /\ FirstChunk <= MaxFile
    /\ RawSizes \subseteq 0 .. MaxFile
    /\ MaxFormats \in Nat
  BY SizeAssumption

\* Block b starts at byte b * Blk, and holds the bytes from there.
LEMMA BlockIndex ==
    ASSUME NEW b \in Nat
    PROVE  (b * Blk) \div Blk = b
  BY Sizes, SMTT(30)

\* An offset that is a multiple of the block size is the start of its block.
LEMMA BlockStart ==
    ASSUME NEW off \in Nat, off % Blk = 0
    PROVE  (off \div Blk) * Blk = off /\ off \div Blk \in Nat
  BY Sizes, SMTT(30)

\* The chunks follow each other.
LEMMA OffsetNext ==
    ASSUME NEW k \in Nat
    PROVE  OffsetOf(k + 1) = OffsetOf(k) + ChunkSize
  BY Sizes, SMTT(30) DEF OffsetOf, FirstChunk, DevBlk

\* Where the chunks start.
LEMMA OffsetFirst == OffsetOf(1) = FirstChunk /\ FirstChunk \in Nat /\ FirstChunk > 0
  BY Sizes, SMTT(30) DEF OffsetOf, FirstChunk, DevBlk

\* Two chunks do not overlap.
LEMMA OffsetMono ==
    ASSUME NEW k \in Nat \ {0}, NEW l \in Nat, k < l
    PROVE  OffsetOf(k) + ChunkSize <= OffsetOf(l)
<1>1. PICK d \in Nat : l = k + 1 + d
  <2>1. l - k - 1 \in Nat /\ l = k + 1 + (l - k - 1)
    OBVIOUS
  <2> QED
    BY <2>1
<1>2. d * ChunkSize >= 0
  BY Sizes, SMTT(30)
<1>3. (k + d) * ChunkSize = (k - 1) * ChunkSize + ChunkSize + d * ChunkSize
  BY Sizes, SMTT(30)
<1> QED
  BY <1>1, <1>2, <1>3, Sizes, OffsetFirst DEF OffsetOf

\* A chunk starts on a block, behind the blocks of the pool and the device.
LEMMA OffsetBlock ==
    ASSUME NEW k \in Nat \ {0}
    PROVE  /\ OffsetOf(k) \in Nat /\ OffsetOf(k) >= FirstChunk
           /\ (OffsetOf(k) \div Blk) * Blk = OffsetOf(k)
           /\ OffsetOf(k) \div Blk \in Nat
           /\ OffsetOf(k) \div Blk > DevBlk
<1> DEFINE cb == ChunkSize \div Blk
<1>1. cb \in Nat /\ cb * Blk = ChunkSize
  BY Sizes, BlockStart
<1> HIDE DEF cb
<1>2. (k - 1) * cb \in Nat /\ ((k - 1) * cb) * Blk = (k - 1) * (cb * Blk)
  BY <1>1, Sizes, SMTT(30)
<1> DEFINE n == DevBlk + 1 + (k - 1) * cb
<1>3. DevBlk \in Nat /\ n \in Nat /\ n > DevBlk
  BY <1>2, Sizes DEF DevBlk
<1>4. n * Blk = OffsetOf(k)
  <2>1. n * Blk = (DevBlk + 1) * Blk + ((k - 1) * cb) * Blk
    BY <1>2, <1>3, Sizes, SMTT(30)
  <2> QED
    BY <2>1, <1>2, <1>1, Zenon DEF OffsetOf, FirstChunk
<1>5. OffsetOf(k) \div Blk = n
  BY <1>3, <1>4, BlockIndex
<1>6. OffsetOf(k) \in Nat /\ OffsetOf(k) >= FirstChunk
  <2>1. (k - 1) * ChunkSize \in Nat
    BY Sizes, SMTT(30)
  <2> QED
    BY <2>1, OffsetFirst DEF OffsetOf
<1> QED
  BY <1>3, <1>4, <1>5, <1>6

\* Where the offset of chunk k, or the end of the one behind it, is on the
\* target or less than a chunk past it, the arithmetic on words does not wrap.
LEMMA NoWrap ==
    ASSUME NEW x \in Nat, x < Word
    PROVE  x % Word = x
  BY Sizes, SMTT(30)

\* The offset tells the chunk.
LEMMA OffsetInjective ==
    ASSUME NEW k \in Nat \ {0}, NEW l \in Nat \ {0}, OffsetOf(k) = OffsetOf(l)
    PROVE  k = l
<1> USE Sizes
<1>0. OffsetOf(k) \in Nat /\ OffsetOf(l) \in Nat
  BY OffsetBlock
<1>1. ASSUME k < l PROVE FALSE
  <2>1. OffsetOf(k) + ChunkSize <= OffsetOf(l)
    BY <1>1, OffsetMono
  <2> QED
    BY <1>0, <2>1
<1>2. ASSUME l < k PROVE FALSE
  <2>1. OffsetOf(l) + ChunkSize <= OffsetOf(k)
    BY <1>2, OffsetMono
  <2> QED
    BY <1>0, <2>1
<1> QED
  BY <1>1, <1>2

-----------------------------------------------------------------------------
(* The inductive invariant                                                 *)

\* Every variable of mkfs has the values it is declared for.
MkType ==
    /\ isdev \in BOOLEAN /\ size \in 0 .. MaxFile
    /\ DOMAIN blk = 0 .. MaxFile \div Blk
    /\ mk \in {"none", "pool", "dev", "chunks"}
    /\ raw \in 0 .. MaxFile /\ formats \in Nat
    /\ result \in {"never", "ok", "failed", "killed"}

\* s is what block b may hold: what nobody wrote, or the summary of this place.
Belongs(s, b) ==
    \/ s = Garbage
    \/ b = PoolBlk /\ s = PoolSummary
    \/ b = DevBlk /\ \E n \in 0 .. MaxFile : s = DevSummary(n)
    \/ \E k \in Nat \ {0}, n \in 0 .. MaxFile :
          b * Blk = OffsetOf(k) /\ s = ChunkSummary(k, OffsetOf(k), n)

AllWritten == \A b \in DOMAIN blk : Belongs(blk[b], b)

\* chunk_start and chunk_id go together.
Loop ==
    /\ mk # "none" => formats > 0
    /\ formats > 0 => chunk_id \in Nat \ {0} /\ start = OffsetOf(chunk_id)

\* Before mkfs ran for the first time there is nothing on the target.
Blank == formats = 0 => \A b \in DOMAIN blk : blk[b] = Garbage

\* The chunks on a target that was formatted once are those of this format, and
\* the loop of write_chunk_summaries found that each of them fits.
OneFormat ==
    formats = 1 =>
        /\ \A b \in DOMAIN blk : blk[b].magic = "chunk" =>
              \E k \in 1 .. chunk_id - 1 :
                 b * Blk = OffsetOf(k) /\ blk[b] = ChunkSummary(k, OffsetOf(k), raw)
        /\ \A k \in 1 .. chunk_id - 1 :
              /\ OffsetOf(k) + Blk <= MaxFile
              /\ OffsetOf(k) + ChunkSize - 1 < DevEnd(raw)

\* The first run ends well only with a size for which raw - 2 does not wrap.
Ended ==
    /\ formats = 0 => result = "never"
    /\ formats = 1 /\ mk # "none" => result = "never"
    /\ formats = 1 /\ result = "ok" => raw >= 2

MkInv == MkType /\ AllWritten /\ Loop /\ Blank /\ OneFormat /\ Ended

\* The target as it is before mkfs runs.
LEMMA MkInitInv == MkInit => MkInv
<1> SUFFICES ASSUME MkInit PROVE MkInv
  OBVIOUS
<1>1. MkType
  BY Sizes DEF MkInit, MkType
<1>2. AllWritten
  BY DEF MkInit, AllWritten, Belongs
<1>3. Loop /\ OneFormat /\ Ended
  BY DEF MkInit, Loop, OneFormat, Ended
<1>4. Blank
  BY DEF MkInit, Blank
<1> QED
  BY <1>1, <1>2, <1>3, <1>4 DEF MkInv

\* A write does not go past MaxFile, and leaves the sizes in their range.
LEMMA WriteType ==
    ASSUME MkType, NEW off \in Nat, NEW s, WriteBlock(off, s)
    PROVE  /\ off + Blk <= MaxFile
           /\ size' \in 0 .. MaxFile
           /\ DOMAIN blk' = 0 .. MaxFile \div Blk
           /\ \A b \in DOMAIN blk : blk'[b] = IF b = off \div Blk THEN s ELSE blk[b]
  BY Sizes DEF MkType, WriteBlock, Limit

\* A block that gets the summary of its place keeps the others as they are.
LEMMA WriteBelongs ==
    ASSUME MkType, AllWritten, NEW off \in Nat, NEW s, WriteBlock(off, s),
           Belongs(s, off \div Blk)
    PROVE  AllWritten'
<1>1. \A b \in DOMAIN blk : blk'[b] = IF b = off \div Blk THEN s ELSE blk[b]
  BY WriteType
<1>2. DOMAIN blk' = DOMAIN blk
  BY WriteType DEF MkType
<1> QED
  BY <1>1, <1>2 DEF AllWritten, Belongs

\* The four summaries are told apart by their magic.
LEMMA Magics ==
    /\ Garbage.magic = "none" /\ PoolSummary.magic = "pool"
    /\ \A n : DevSummary(n).magic = "dev"
    /\ \A k, off, n : ChunkSummary(k, off, n).magic = "chunk"
  BY DEF Garbage, PoolSummary, DevSummary, ChunkSummary

\* A block other than a chunk summary changes nothing for the chunks.
LEMMA WriteOther ==
    ASSUME MkType, OneFormat, NEW off \in Nat, NEW s, WriteBlock(off, s),
           s.magic # "chunk", UNCHANGED <<formats, chunk_id, raw>>
    PROVE  OneFormat'
<1>1. \A b \in DOMAIN blk : blk'[b] = IF b = off \div Blk THEN s ELSE blk[b]
  BY WriteType
<1>2. DOMAIN blk' = DOMAIN blk
  BY WriteType DEF MkType
<1> QED
  BY <1>1, <1>2 DEF OneFormat

\* A run of mkfs starts.
LEMMA StartInv == MkInv /\ Start => MkInv'
<1> SUFFICES ASSUME MkInv, Start PROVE MkInv'
  OBVIOUS
<1> USE DEF MkInv
<1>1. MkType'
  BY Sizes DEF MkType, Start, StatSize
<1>2. AllWritten'
  BY DEF AllWritten, Belongs, Start
<1>3. Loop'
  BY OffsetFirst DEF Loop, Start, MkType
<1>4. Blank' /\ Ended'
  BY DEF MkType, Start, Blank, Ended
<1>5. OneFormat'
  <2> SUFFICES ASSUME formats = 0 PROVE OneFormat'
    BY DEF MkType, Start, OneFormat
  <2>1. \A b \in DOMAIN blk : blk'[b].magic = "none"
    BY Magics DEF Blank, Start
  <2> QED
    BY <2>1 DEF OneFormat, Start
<1> QED
  BY <1>1, <1>2, <1>3, <1>4, <1>5

\* The pool summary is written.
LEMMA WritePoolInv == MkInv /\ WritePool => MkInv'
<1> SUFFICES ASSUME MkInv, WritePool PROVE MkInv'
  OBVIOUS
<1> USE DEF MkInv
<1>1. PoolBlk * Blk \in Nat /\ (PoolBlk * Blk) \div Blk = PoolBlk
  BY BlockIndex, Sizes, SMTT(30)
<1>2. WriteBlock(PoolBlk * Blk, PoolSummary)
  BY DEF WritePool
<1>3. MkType'
  BY <1>1, <1>2, WriteType DEF MkType, WritePool
<1>4. AllWritten'
  BY <1>1, <1>2, WriteBelongs DEF Belongs
<1>5. Loop' /\ Blank' /\ Ended'
  BY DEF Loop, Blank, Ended, WritePool, MkType
<1>6. OneFormat'
  BY <1>1, <1>2, WriteOther, Magics DEF WritePool
<1> QED
  BY <1>3, <1>4, <1>5, <1>6

\* The device summary is written.
LEMMA WriteDevInv == MkInv /\ WriteDev => MkInv'
<1> SUFFICES ASSUME MkInv, WriteDev PROVE MkInv'
  OBVIOUS
<1> USE DEF MkInv
<1>1. DevBlk * Blk \in Nat /\ (DevBlk * Blk) \div Blk = DevBlk
  <2>1. DevBlk \in Nat
    BY Sizes DEF DevBlk
  <2> QED
    BY <2>1, BlockIndex, Sizes, SMTT(30)
<1>2. WriteBlock(DevBlk * Blk, DevSummary(raw))
  BY DEF WriteDev
<1>3. MkType'
  BY <1>1, <1>2, WriteType DEF MkType, WriteDev
<1>4. AllWritten'
  BY <1>1, <1>2, WriteBelongs DEF Belongs, MkType
<1>5. Loop' /\ Blank' /\ Ended'
  BY DEF Loop, Blank, Ended, WriteDev, MkType
<1>6. OneFormat'
  BY <1>1, <1>2, WriteOther, Magics DEF WriteDev
<1> QED
  BY <1>3, <1>4, <1>5, <1>6

\* The summary of the next chunk is written: the sum of the loop's condition
\* does not wrap, nor does the next chunk_start.
LEMMA WriteChunkInv == MkInv /\ WriteChunk => MkInv'
<1> SUFFICES ASSUME MkInv, WriteChunk PROVE MkInv'
  OBVIOUS
<1> USE DEF MkInv
<1>1. formats > 0 /\ chunk_id \in Nat \ {0} /\ start = OffsetOf(chunk_id)
  BY DEF Loop, WriteChunk
<1>2. start \in Nat /\ (start \div Blk) * Blk = start
  BY <1>1, OffsetBlock
<1>3. WriteBlock(start, ChunkSummary(chunk_id, start, raw))
  BY DEF WriteChunk
<1>4. start + Blk <= MaxFile
  BY <1>2, <1>3, WriteType
<1>5. start' = start + ChunkSize /\ start + ChunkSize - 1 < DevEnd(raw)
  <2>1. start + ChunkSize \in Nat /\ start + ChunkSize < Word
    BY <1>2, <1>4, Sizes
  <2>2. start + ChunkSize - 1 \in Nat /\ start + ChunkSize - 1 < Word
    BY <1>2, <2>1, Sizes
  <2> QED
    BY <2>1, <2>2, NoWrap DEF WriteChunk, Fits
<1>6. MkType'
  BY <1>2, <1>3, WriteType DEF MkType, WriteChunk
<1>7. AllWritten'
  BY <1>1, <1>2, <1>3, WriteBelongs DEF Belongs, MkType
<1>8. Loop'
  BY <1>1, <1>5, OffsetNext DEF Loop, WriteChunk
<1>9. Blank' /\ Ended'
  BY <1>1 DEF Blank, Ended, WriteChunk, MkType
<1>10. OneFormat'
  <2> SUFFICES ASSUME formats = 1 PROVE OneFormat'
    BY DEF OneFormat, WriteChunk
  <2>1. /\ DOMAIN blk' = DOMAIN blk /\ raw' = raw /\ chunk_id' = chunk_id + 1
        /\ \A b \in DOMAIN blk :
              blk'[b] = IF b = start \div Blk THEN ChunkSummary(chunk_id, start, raw)
                        ELSE blk[b]
    BY <1>2, <1>3, WriteType DEF MkType, WriteChunk
  <2>2. \A k \in 1 .. chunk_id : OffsetOf(k) + Blk <= MaxFile
                                 /\ OffsetOf(k) + ChunkSize - 1 < DevEnd(raw)
    <3> TAKE k \in 1 .. chunk_id
    <3>1. k = chunk_id \/ k \in 1 .. chunk_id - 1
      BY <1>1
    <3> QED
      BY <3>1, <1>1, <1>4, <1>5 DEF OneFormat
  <2>3. ASSUME NEW b \in DOMAIN blk, blk'[b].magic = "chunk"
        PROVE  \E k \in 1 .. chunk_id :
                  b * Blk = OffsetOf(k) /\ blk'[b] = ChunkSummary(k, OffsetOf(k), raw)
    <3>1. CASE b = start \div Blk
      BY <3>1, <2>1, <1>1, <1>2
    <3>2. CASE b # start \div Blk
      <4>1. PICK k \in 1 .. chunk_id - 1 :
               b * Blk = OffsetOf(k) /\ blk[b] = ChunkSummary(k, OffsetOf(k), raw)
        BY <3>2, <2>1, <2>3 DEF OneFormat
      <4>2. k \in 1 .. chunk_id
        BY <1>1
      <4> QED
        BY <4>1, <4>2, <3>2, <2>1
    <3> QED
      BY <3>1, <3>2
  <2>4. 1 .. chunk_id' - 1 = 1 .. chunk_id
    BY <1>1, <2>1
  <2> QED
    BY <2>1, <2>2, <2>3, <2>4 DEF OneFormat
<1> QED
  BY <1>6, <1>7, <1>8, <1>9, <1>10

\* The loop ends.  With a size of 0 or 1 the device seems to end near 2^64, and
\* the loop of a first run does not get there: a write fails before.
LEMMA FinishInv == MkInv /\ Finish => MkInv'
<1> SUFFICES ASSUME MkInv, Finish PROVE MkInv'
  OBVIOUS
<1> USE DEF MkInv
<1>1. MkType' /\ Loop' /\ Blank'
  BY DEF Finish, Exit, MkType, Loop, Blank
<1>2. AllWritten' /\ OneFormat'
  BY DEF Finish, AllWritten, Belongs, OneFormat
<1>3. Ended'
  <2> SUFFICES ASSUME formats = 1, raw < 2 PROVE FALSE
    BY DEF Ended, Finish, Exit, MkType, Loop
  <2>1. chunk_id \in Nat \ {0} /\ start = OffsetOf(chunk_id) /\ start \in Nat
    BY OffsetBlock DEF Loop
  <2>2. start <= MaxFile + ChunkSize - Blk
    <3>1. CASE chunk_id = 1
      BY <3>1, <2>1, OffsetFirst, Sizes
    <3>2. CASE chunk_id # 1
      <4>1. chunk_id - 1 \in 1 .. chunk_id - 1 /\ chunk_id - 1 \in Nat \ {0}
        BY <2>1, <3>2
      <4>2. OffsetOf(chunk_id - 1) + Blk <= MaxFile
        BY <4>1 DEF OneFormat
      <4>3. start = OffsetOf(chunk_id - 1) + ChunkSize
        BY <4>1, <2>1, OffsetNext
      <4>4. OffsetOf(chunk_id - 1) \in Nat
        BY <4>1, OffsetBlock
      <4> QED
        BY <4>2, <4>3, <4>4, Sizes
    <3> QED
      BY <3>1, <3>2
  <2>3. DevEnd(raw) >= Word - 2
    <3>1. raw \in {0, 1}
      BY DEF MkType
    <3>2. (0 - 2) % Word = Word - 2 /\ (1 - 2) % Word = Word - 1
      BY Sizes, SMTT(30)
    <3> QED
      BY <3>1, <3>2, Sizes DEF DevEnd
  <2>4. start + ChunkSize - 1 \in Nat /\ start + ChunkSize - 1 < Word - 2
    BY <2>1, <2>2, Sizes
  <2>5. (start + ChunkSize - 1) % Word = start + ChunkSize - 1
    BY <2>4, NoWrap, Sizes
  <2>6. DevEnd(raw) \in Int
    BY Sizes, SMTT(30) DEF DevEnd, MkType
  <2> QED
    BY <2>3, <2>4, <2>5, <2>6, Sizes DEF Finish, Fits
<1> QED
  BY <1>1, <1>2, <1>3

\* mkfs gives up or is killed.
LEMMA StoppedInv == MkInv /\ (WriteFails \/ Killed) => MkInv'
<1> SUFFICES ASSUME MkInv, WriteFails \/ Killed PROVE MkInv'
  OBVIOUS
<1> USE DEF MkInv
<1>1. \E r \in {"failed", "killed"} :
         mk # "none" /\ Exit(r) /\ UNCHANGED <<isdev, size, blk, raw, start, chunk_id, formats>>
  BY DEF WriteFails, Killed
<1>2. MkType' /\ Loop' /\ Blank'
  BY <1>1 DEF Exit, MkType, Loop, Blank
<1>3. AllWritten' /\ OneFormat'
  BY <1>1 DEF AllWritten, Belongs, OneFormat
<1>4. Ended'
  BY <1>1 DEF Exit, Ended, Loop
<1> QED
  BY <1>2, <1>3, <1>4

\* An image file is given another size: what is lost was Garbage or becomes it.
LEMMA ResizeInv == MkInv /\ Resize => MkInv'
<1> SUFFICES ASSUME MkInv, Resize PROVE MkInv'
  OBVIOUS
<1> USE DEF MkInv
<1>1. PICK n \in RawSizes :
        /\ size' = n
        /\ blk' = [b \in DOMAIN blk |-> IF (b + 1) * Blk <= n THEN blk[b] ELSE Garbage]
  BY DEF Resize
<1>2. DOMAIN blk' = DOMAIN blk /\ \A b \in DOMAIN blk : blk'[b] \in {blk[b], Garbage}
  BY <1>1
<1>3. UNCHANGED <<isdev, mk, raw, start, chunk_id, result, formats>>
  BY DEF Resize
<1>4. MkType'
  BY <1>1, <1>2, <1>3, Sizes DEF MkType
<1>5. AllWritten'
  BY <1>2, Zenon DEF AllWritten, Belongs
<1>6. Loop' /\ Ended'
  BY <1>3 DEF Loop, Ended
<1>7. Blank'
  BY <1>2, <1>3 DEF Blank
<1>8. OneFormat'
  <2>1. \A b \in DOMAIN blk : blk'[b].magic = "chunk" => blk'[b] = blk[b]
    BY <1>2, Magics
  <2> QED
    BY <2>1, <1>2, <1>3 DEF OneFormat
<1> QED
  BY <1>4, <1>5, <1>6, <1>7, <1>8

\* Every step of mkfs, and every resize between its runs, keeps the invariant.
THEOREM MkStepInv == MkInv /\ (MkStep \/ Resize) => MkInv'
  BY StartInv, WritePoolInv, WriteDevInv, WriteChunkInv, FinishInv, StoppedInv,
     ResizeInv, Zenon DEF MkStep

-----------------------------------------------------------------------------
(* What the invariant says of the target                                   *)

\* A block with the magic of a chunk summary has that of the chunk whose place
\* it is.
LEMMA ChunkAt ==
    ASSUME MkInv, NEW b \in DOMAIN blk, blk[b].magic = "chunk"
    PROVE  \E k \in Nat \ {0}, n \in 0 .. MaxFile :
              b * Blk = OffsetOf(k) /\ blk[b] = ChunkSummary(k, OffsetOf(k), n)
<1>1. Belongs(blk[b], b)
  BY DEF MkInv, AllWritten
<1> QED
  BY <1>1, Magics DEF Belongs

\* Whatever ran on it, every chunk summary on the target is in its place.
THEOREM InvInPlace == MkInv => ChunksInPlace
<1> SUFFICES ASSUME MkInv, NEW off \in ChunkOffsets
             PROVE  LET c == blk[off \div Blk]
                    IN  /\ off = OffsetOf(c.id) /\ c.c_begin = off
                        /\ c.c_end = off + ChunkSize - 1
                        /\ c.c_next \in {0, off + ChunkSize}
                        /\ c.root <=> c.id = 1
  BY DEF ChunksInPlace
<1>1. PICK b \in DOMAIN blk : off = b * Blk /\ blk[b].magic = "chunk"
  BY DEF ChunkOffsets
<1>2. b \in Nat /\ off \div Blk = b
  <2>1. MaxFile \div Blk \in Int
    BY Sizes, SMTT(30)
  <2>2. b \in Nat
    BY <2>1 DEF MkInv, MkType
  <2> QED
    BY <2>2, <1>1, BlockIndex
<1>3. PICK k \in Nat \ {0}, n \in 0 .. MaxFile :
              b * Blk = OffsetOf(k) /\ blk[b] = ChunkSummary(k, OffsetOf(k), n)
  BY <1>1, ChunkAt
<1>4. off = OffsetOf(k) /\ blk[off \div Blk] = ChunkSummary(k, off, n)
  BY <1>1, <1>2, <1>3
<1> DEFINE c == ChunkSummary(k, off, n)
<1>5. /\ c.id = k /\ c.c_begin = off /\ c.c_end = off + ChunkSize - 1
      /\ c.root = (k = 1)
  BY DEF ChunkSummary
<1>6. c.c_next \in {0, off + ChunkSize}
  BY DEF ChunkSummary
<1> HIDE DEF c
<1> QED
  BY <1>4, <1>5, <1>6 DEF c

\* The chunks that the first run of mkfs left, if it ended well, fit.
THEOREM InvFit == MkInv => ChunksFit
<1> SUFFICES ASSUME MkInv, result = "ok", formats = 1, NEW off \in ChunkOffsets
             PROVE  off + ChunkSize <= raw
  BY DEF ChunksFit
<1> USE DEF MkInv
<1>1. PICK b \in DOMAIN blk : off = b * Blk /\ blk[b].magic = "chunk"
  BY DEF ChunkOffsets
<1>2. PICK k \in 1 .. chunk_id - 1 : off = OffsetOf(k)
  BY <1>1 DEF OneFormat
<1>3. off \in Nat /\ off + ChunkSize - 1 < DevEnd(raw)
  <2>1. k \in Nat \ {0}
    BY DEF Loop
  <2> QED
    BY <2>1, <1>2, OffsetBlock DEF OneFormat
<1>4. raw \in Nat /\ raw >= 2 /\ raw - 2 < Word
  BY Sizes DEF Ended, MkType
<1>5. DevEnd(raw) = raw - 2
  BY <1>4, NoWrap DEF DevEnd
<1> QED
  BY <1>3, <1>4, <1>5, Sizes

=============================================================================
