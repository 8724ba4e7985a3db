---------------------------- MODULE MountProofs ----------------------------
(***************************************************************************)
(* Theorems of the specification of mounting and unmounting, with mkfs     *)
(* running in between, for every value of the constants.                   *)
(***************************************************************************)
EXTENDS Mount, MkfsProofs, FiniteSetTheorems

-----------------------------------------------------------------------------
(* The inductive invariant                                                 *)

\* The states of a mount from the end of the chunk list on
Complete == {"root", "filled", "mounted", "sync", "commit", "put", "oops"}

\* Those in which the root dentry holds the mount of the root chunk
Rooted == {"filled", "mounted", "sync", "commit", "put"}

\* What refs is made of
Refs == [mem : Int, bh : Int, mnt : [0 .. MaxDirs -> Int]]

\* The variables of the mount have the values they are declared for (that of
\* rootdir does not matter here); a BUG is not among the states.
MountType ==
    /\ dirs \in 0 .. MaxDirs /\ fss \in 0 .. dirs
    /\ st \in {"none", "pool", "dev", "chunk", "failed"} \cup Complete
    /\ offset \in Nat
    /\ clist \in Seq([id : Nat \ {0}, mnt : 0 .. MaxDirs])
    /\ root \in {0, 1}
    /\ refs \in Refs
    /\ kmutex \in Int

\* mkfs and a mount exclude each other.
Exclusive == st # "none" => mk = "none"

\* The list while it is read, and once it is complete: chunks 1, 2, ..., and
\* chunk_offset is where the next one belongs, or 0 at the end.
Listed ==
    /\ \A i \in 1 .. Len(clist) : clist[i].id = i
    /\ root = IF clist = <<>> THEN 0 ELSE 1
    /\ st = "chunk" => offset = OffsetOf(Len(clist) + 1) \/ (offset = 0 /\ clist # <<>>)
    /\ st \in Complete => clist # <<>>
    /\ st \notin Complete \cup {"chunk"} => clist = <<>>

\* The chunks of the list that hold mount m
Holders(m) == {i \in 1 .. Len(clist) : clist[i].mnt = m}

\* The allocations and buffers: the pool, the device and every chunk
Infos == IF st \in Complete \cup {"chunk"} THEN Len(clist) + 2
         ELSE IF st = "dev" THEN 1 ELSE 0

\* Exactly what is reachable from the superblock is held.
Accounted ==
    /\ refs.mem = Infos /\ refs.bh = Infos
    /\ \A m \in 0 .. MaxDirs :
          refs.mnt[m] = Cardinality(Holders(m))
                        + IF st \in Rooted /\ clist[1].mnt = m THEN 1 ELSE 0

\* The end of the list of a target formatted once is the end of the format.
Whole ==
    formats = 1 /\ (st \in Complete \/ (st = "chunk" /\ offset = 0)) =>
        Len(clist) = chunk_id - 1 /\ ~Fits

MountInv ==
    /\ MkInv /\ MountType /\ Exclusive /\ Listed /\ Accounted /\ ClientPinned
    /\ Whole

-----------------------------------------------------------------------------
(* Lemmas                                                                  *)

\* Nothing that a mount does changes the target.
LEMMA MkFrame == MkInv /\ UNCHANGED mkVars => MkInv'
<1> SUFFICES ASSUME MkInv, UNCHANGED mkVars PROVE MkInv'
  OBVIOUS
<1> USE DEF MkInv, mkVars
<1>1. MkType' /\ Loop' /\ Blank' /\ Ended'
  BY DEF MkType, Loop, Blank, Ended
<1>2. AllWritten' /\ OneFormat'
  BY DEF AllWritten, Belongs, OneFormat
<1> QED
  BY <1>1, <1>2

\* A block that ends on the target is one of those modelled.
LEMMA OnTarget ==
    ASSUME MkInv, NEW j \in Nat, j * Blk + Blk <= size
    PROVE  j \in DOMAIN blk
<1>1. j * Blk <= MaxFile
  <2>1. j * Blk \in Nat
    BY Sizes, SMTT(30)
  <2> QED
    BY <2>1, Sizes DEF MkInv, MkType
<1>2. j <= MaxFile \div Blk /\ MaxFile \div Blk \in Int
  BY <1>1, Sizes, SMTT(30)
<1> QED
  BY <1>2 DEF MkInv, MkType

\* The chunks of the list, one by one.
LEMMA Entry ==
    ASSUME MountType
    PROVE  /\ Len(clist) \in Nat /\ DOMAIN clist = 1 .. Len(clist)
           /\ \A i \in 1 .. Len(clist) : clist[i].mnt \in 0 .. MaxDirs
           /\ clist # <<>> => 1 \in 1 .. Len(clist)
<1> DEFINE E == [id : Nat \ {0}, mnt : 0 .. MaxDirs]
<1>1. clist \in Seq(E)
  BY DEF MountType
<1>2. \A e \in E : e.mnt \in 0 .. MaxDirs
  OBVIOUS
<1> HIDE DEF E
<1>3. \A i \in 1 .. Len(clist) : clist[i] \in E
  BY <1>1
<1> QED
  BY <1>1, <1>2, <1>3

\* A set of chunks of the list is finite.
LEMMA HoldersFinite ==
    ASSUME MountType, NEW m
    PROVE  IsFiniteSet(Holders(m)) /\ Cardinality(Holders(m)) \in Nat
<1>1. IsFiniteSet(1 .. Len(clist))
  BY FS_Interval DEF MountType
<1>2. Holders(m) \in SUBSET (1 .. Len(clist))
  BY DEF Holders
<1> QED
  BY <1>1, <1>2, FS_Subset, FS_CardinalityType

\* chunkfs_find_chunk finds the first chunk.
LEMMA RootFirst ==
    ASSUME MountType, Listed, clist # <<>>
    PROVE  RootMnt = clist[1].mnt
<1>1. 1 \in DOMAIN clist /\ DOMAIN clist = 1 .. Len(clist)
  BY DEF MountType
<1>2. root = 1 /\ \A i \in DOMAIN clist : clist[i].id = i
  BY <1>1 DEF Listed
<1>3. (CHOOSE i \in DOMAIN clist : clist[i].id = root) = 1
  BY <1>1, <1>2
<1> QED
  BY <1>3 DEF RootMnt

\* The summary at chunk_offset, if there is one, is that of the next chunk.
LEMMA NextSummary ==
    ASSUME MkInv, NEW k \in Nat \ {0}, offset = OffsetOf(k), Holds(offset, "chunk")
    PROVE  /\ offset \div Blk \in DOMAIN blk
           /\ \E n \in 0 .. MaxFile : Summary = ChunkSummary(k, offset, n)
<1> DEFINE j == offset \div Blk
<1>1. j \in Nat /\ j * Blk = offset
  BY OffsetBlock
<1>2. j \in DOMAIN blk /\ blk[j].magic = "chunk"
  <2>1. j * Blk + Blk <= size /\ blk[j].magic = "chunk"
    BY <1>1 DEF Holds
  <2> HIDE DEF j
  <2> QED
    BY <1>1, <2>1, OnTarget
<1>3. PICK l \in Nat \ {0}, n \in 0 .. MaxFile :
              j * Blk = OffsetOf(l) /\ blk[j] = ChunkSummary(l, OffsetOf(l), n)
  BY <1>2, ChunkAt
<1>4. l = k
  BY <1>1, <1>3, OffsetInjective
<1> QED
  BY <1>2, <1>3, <1>4, <1>1 DEF Summary

\* What is taken and given back, field by field.
LEMMA TakeInfo ==
    ASSUME NEW r \in Refs
    PROVE  /\ GetInfo(r) \in Refs
           /\ GetInfo(r).mem = r.mem + 1 /\ GetInfo(r).bh = r.bh + 1
           /\ GetInfo(r).mnt = r.mnt
  BY DEF Refs, GetInfo

LEMMA GiveInfo ==
    ASSUME NEW r \in Refs
    PROVE  /\ FreeInfo(r) \in Refs
           /\ FreeInfo(r).mem = r.mem - 1 /\ FreeInfo(r).bh = r.bh - 1
           /\ FreeInfo(r).mnt = r.mnt
  BY DEF Refs, FreeInfo

LEMMA TakeMnt ==
    ASSUME NEW r \in Refs, NEW m \in 0 .. MaxDirs
    PROVE  /\ MntGet(r, m) \in Refs
           /\ MntGet(r, m).mem = r.mem /\ MntGet(r, m).bh = r.bh
           /\ \A x \in 0 .. MaxDirs :
                 MntGet(r, m).mnt[x] = r.mnt[x] + IF x = m THEN 1 ELSE 0
<1>1. PICK g \in [0 .. MaxDirs -> Int] : g = r.mnt /\ r.mem \in Int /\ r.bh \in Int
  BY DEF Refs
<1> DEFINE f == [g EXCEPT ![m] = @ + 1]
<1>2. /\ f \in [0 .. MaxDirs -> Int]
      /\ \A x \in 0 .. MaxDirs : f[x] = g[x] + IF x = m THEN 1 ELSE 0
  OBVIOUS
<1>3. MntGet(r, m) = [mem |-> r.mem, bh |-> r.bh, mnt |-> f]
  BY <1>1 DEF MntGet
<1> HIDE DEF f
<1> QED
  BY <1>1, <1>2, <1>3 DEF Refs

LEMMA GiveMnt ==
    ASSUME NEW r \in Refs, NEW m \in 0 .. MaxDirs
    PROVE  /\ MntPut(r, m) \in Refs
           /\ MntPut(r, m).mem = r.mem /\ MntPut(r, m).bh = r.bh
           /\ \A x \in 0 .. MaxDirs :
                 MntPut(r, m).mnt[x] = r.mnt[x] - IF x = m THEN 1 ELSE 0
<1>1. PICK g \in [0 .. MaxDirs -> Int] : g = r.mnt /\ r.mem \in Int /\ r.bh \in Int
  BY DEF Refs
<1> DEFINE f == [g EXCEPT ![m] = @ - 1]
<1>2. /\ f \in [0 .. MaxDirs -> Int]
      /\ \A x \in 0 .. MaxDirs : f[x] = g[x] - IF x = m THEN 1 ELSE 0
  OBVIOUS
<1>3. MntPut(r, m) = [mem |-> r.mem, bh |-> r.bh, mnt |-> f]
  BY <1>1 DEF MntPut
<1> HIDE DEF f
<1> QED
  BY <1>1, <1>2, <1>3 DEF Refs

LEMMA GiveChunks ==
    ASSUME MountType, NEW r \in Refs
    PROVE  /\ FreeChunks(r) \in Refs
           /\ FreeChunks(r).mem = r.mem - Len(clist)
           /\ FreeChunks(r).bh = r.bh - Len(clist)
           /\ \A x \in 0 .. MaxDirs :
                 FreeChunks(r).mnt[x] = r.mnt[x] - Cardinality(Holders(x))
<1>1. Len(clist) \in Nat /\ DOMAIN clist = 1 .. Len(clist)
  BY DEF MountType
<1>2. \A m : Cardinality(Holders(m)) \in Nat
  BY HoldersFinite
<1>3. DOMAIN r.mnt = 0 .. MaxDirs
  BY DEF Refs
<1>4. FreeChunks(r) = [mem |-> r.mem - Len(clist), bh |-> r.bh - Len(clist),
                       mnt |-> [m \in 0 .. MaxDirs |-> r.mnt[m] - Cardinality(Holders(m))]]
  BY <1>1, <1>3 DEF FreeChunks, Holders
<1> DEFINE f == [m \in 0 .. MaxDirs |-> r.mnt[m] - Cardinality(Holders(m))]
<1>5. f \in [0 .. MaxDirs -> Int]
  <2>1. \A x \in 0 .. MaxDirs : r.mnt[x] \in Int /\ Cardinality(Holders(x)) \in Int
    <3>1. PICK g \in [0 .. MaxDirs -> Int] : g = r.mnt
      BY DEF Refs
    <3>2. \A x \in 0 .. MaxDirs : g[x] \in Int
      OBVIOUS
    <3>3. \A x \in 0 .. MaxDirs : r.mnt[x] \in Int
      BY <3>1, <3>2
    <3>4. \A x \in 0 .. MaxDirs : Cardinality(Holders(x)) \in Int
      BY <1>2
    <3> QED
      BY <3>3, <3>4
  <2>2. \A x \in 0 .. MaxDirs : r.mnt[x] - Cardinality(Holders(x)) \in Int
    BY <2>1
  <2> QED
    BY <2>2
<1>6. r.mem - Len(clist) \in Int /\ r.bh - Len(clist) \in Int
  BY <1>1 DEF Refs
<1>7. FreeChunks(r) = [mem |-> r.mem - Len(clist), bh |-> r.bh - Len(clist), mnt |-> f]
  BY <1>4
<1>8. \A x \in 0 .. MaxDirs : f[x] = r.mnt[x] - Cardinality(Holders(x))
  OBVIOUS
<1> HIDE DEF f
<1> QED
  BY <1>5, <1>6, <1>7, <1>8 DEF Refs

\* Nothing is held when every count is 0.
LEMMA NothingLeft ==
    ASSUME NEW r \in Refs, r.mem = 0, r.bh = 0, \A m \in 0 .. MaxDirs : r.mnt[m] = 0
    PROVE  r = NoRefs
<1>1. r.mnt = [m \in 0 .. MaxDirs |-> 0]
  BY DEF Refs
<1> QED
  BY <1>1 DEF Refs, NoRefs

\* No list, no holders.
LEMMA NoHolders == clist = <<>> => \A m : Cardinality(Holders(m)) = 0
<1> SUFFICES ASSUME clist = <<>>, NEW m PROVE Holders(m) = {}
  BY FS_EmptySet
<1> QED
  BY DEF Holders

-----------------------------------------------------------------------------
(* Every step keeps the invariant                                          *)

\* Nothing is mounted and nothing runs.
LEMMA MountInit == Init => MountInv
<1> SUFFICES ASSUME Init PROVE MountInv
  OBVIOUS
<1> USE DEF Init
<1>1. MkInv
  BY MkInitInv
<1>2. NoRefs \in Refs
  BY DEF NoRefs, Refs
<1>3. MountType
  BY <1>2, MountAssumption DEF MountType
<1>4. Exclusive /\ Listed /\ ClientPinned /\ Whole
  BY DEF Exclusive, Listed, ClientPinned, Whole, Complete
<1>5. Accounted
  <2>1. \A m \in 0 .. MaxDirs : refs.mnt[m] = 0 /\ Cardinality(Holders(m)) = 0
    BY NoHolders DEF NoRefs
  <2> QED
    BY <2>1 DEF Accounted, NoRefs, Infos, Complete, Rooted
<1> QED
  BY <1>1, <1>3, <1>4, <1>5 DEF MountInv

\* A step that leaves the list and the counts alone, and moves between two
\* states that hold the same.
LEMMA QuietStep ==
    ASSUME MountInv, UNCHANGED <<mkVars, dirs, fss, rootdir, offset, clist, root, refs>>,
           st' \in {"none", "pool", "dev", "chunk", "failed"} \cup Complete,
           kmutex' \in Int, mk = "none",
           st' \in Complete <=> st \in Complete,
           st' \in Rooted <=> st \in Rooted,
           (st' = "chunk") = (st = "chunk"), (st' = "dev") = (st = "dev")
    PROVE  MountInv'
<1> USE DEF MountInv
<1>1. MkInv'
  BY MkFrame
<1>2. MountType'
  BY DEF MountType
<1>3. Exclusive' /\ ClientPinned'
  BY DEF Exclusive, ClientPinned, mkVars
<1>4. Listed'
  BY DEF Listed
<1>5. Accounted'
  BY DEF Accounted, Infos, Holders
<1>6. Whole'
  BY DEF Whole, Fits, mkVars
<1> QED
  BY <1>1, <1>2, <1>3, <1>4, <1>5, <1>6

\* fill_super is entered, or returns; the unmount syncs.
LEMMA QuietSteps ==
    MountInv /\ (FillSuper \/ FillSuperReturns \/ Umount \/ WriteSuper \/ Committed)
        => MountInv'
<1> SUFFICES ASSUME MountInv PROVE
        FillSuper \/ FillSuperReturns \/ Umount \/ WriteSuper \/ Committed => MountInv'
  OBVIOUS
<1>0. kmutex \in Int /\ (st # "none" => mk = "none")
  BY DEF MountInv, MountType, Exclusive
<1>1. ASSUME FillSuper PROVE MountInv'
  BY <1>0, <1>1, QuietStep DEF FillSuper, MutexUnlock, Complete, Rooted
<1>2. ASSUME FillSuperReturns PROVE MountInv'
  BY <1>0, <1>2, QuietStep DEF FillSuperReturns, MutexLock, Complete, Rooted
<1>3. ASSUME Umount PROVE MountInv'
  BY <1>0, <1>3, QuietStep DEF Umount, Complete, Rooted
<1>4. ASSUME WriteSuper PROVE MountInv'
  BY <1>0, <1>4, QuietStep DEF WriteSuper, MutexLock, Complete, Rooted
<1>5. ASSUME Committed PROVE MountInv'
  BY <1>0, <1>5, QuietStep DEF Committed, MutexUnlock, Complete, Rooted
<1> QED
  BY <1>1, <1>2, <1>3, <1>4, <1>5

\* mkfs runs, or the image is resized, while nothing is mounted.
LEMMA MkfsSteps ==
    MountInv /\ st = "none" /\ (MkStep \/ Resize) /\ UNCHANGED mntVars => MountInv'
<1> SUFFICES ASSUME MountInv, st = "none", MkStep \/ Resize, UNCHANGED mntVars
             PROVE  MountInv'
  OBVIOUS
<1> USE DEF MountInv, mntVars
<1>1. MkInv'
  BY MkStepInv
<1>2. MountType' /\ Listed' /\ ClientPinned'
  BY DEF MountType, Listed, ClientPinned
<1>3. Exclusive' /\ Whole'
  BY DEF Exclusive, Whole, Complete
<1>4. Accounted'
  BY DEF Accounted, Infos, Holders
<1> QED
  BY <1>1, <1>2, <1>3, <1>4

\* A client with a chunk in the list has a reference, and its umount is refused.
LEMMA UserSteps == MountInv /\ (Mkdir \/ ClientMount \/ ClientUmount \/ MkRootDir) => MountInv'
<1> SUFFICES ASSUME MountInv, Mkdir \/ ClientMount \/ ClientUmount \/ MkRootDir PROVE MountInv'
  OBVIOUS
<1> USE DEF MountInv
<1>0. UNCHANGED <<mkVars, st, offset, clist, root, refs, kmutex>>
  BY DEF Mkdir, ClientMount, ClientUmount, MkRootDir
<1>1. MkInv'
  BY <1>0, MkFrame
<1>2. MountType'
  <2>1. \/ dirs < MaxDirs /\ dirs' = dirs + 1 /\ fss' = fss
        \/ dirs' = dirs /\ fss < dirs /\ fss' = fss + 1
        \/ dirs' = dirs /\ fss > 0 /\ fss' = fss - 1
        \/ dirs' = dirs /\ fss' = fss
    BY Zenon DEF Mkdir, ClientMount, ClientUmount, MkRootDir
  <2> QED
    BY <1>0, <2>1, MountAssumption DEF MountType
<1>3. Exclusive' /\ Listed' /\ Whole'
  BY <1>0 DEF Exclusive, Listed, Whole, Fits, mkVars
<1>4. Accounted'
  BY <1>0 DEF Accounted, Infos, Holders
<1>5. ClientPinned'
  <2>1. ASSUME Mkdir \/ ClientMount \/ MkRootDir PROVE ClientPinned'
    <3>1. fss' \in Nat /\ fss \in Nat /\ fss' >= fss
      <4>1. fss' = fss + 1 \/ fss' = fss
        BY <2>1, Zenon DEF Mkdir, ClientMount, MkRootDir
      <4> QED
        BY <4>1 DEF MountType
    <3>2. \A i \in DOMAIN clist : clist[i].mnt \in Nat
      BY Entry
    <3> QED
      BY <3>1, <3>2, <1>0 DEF ClientPinned
  <2>2. ASSUME ClientUmount PROVE ClientPinned'
    <3> SUFFICES ASSUME NEW i \in DOMAIN clist PROVE clist[i].mnt <= fss - 1
      BY <1>0, <2>2 DEF ClientPinned, ClientUmount
    <3>1. fss \in 0 .. MaxDirs /\ refs.mnt[fss] = 0
      BY <2>2, MountAssumption DEF MountType, ClientUmount
    <3>2. clist[i].mnt \in Nat /\ clist[i].mnt <= fss /\ i \in 1 .. Len(clist)
      BY Entry DEF ClientPinned
    <3>3. clist[i].mnt # fss
      <4> SUFFICES ASSUME clist[i].mnt = fss PROVE FALSE
        OBVIOUS
      <4>1. i \in Holders(fss)
        BY <3>2 DEF Holders
      <4>2. IsFiniteSet(Holders(fss)) /\ Cardinality(Holders(fss)) \in Nat
        BY HoldersFinite
      <4>3. Cardinality(Holders(fss)) # 0
        BY <4>1, <4>2, FS_EmptySet
      <4>4. Cardinality(Holders(fss)) + (IF st \in Rooted /\ clist[1].mnt = fss THEN 1 ELSE 0) = 0
        BY <3>1 DEF Accounted
      <4> QED
        BY <4>2, <4>3, <4>4
    <3> QED
      BY <3>1, <3>2, <3>3
  <2> QED
    BY <2>1, <2>2
<1> QED
  BY <1>1, <1>2, <1>3, <1>4, <1>5

\* The pool summary is there.
LEMMA ReadPoolInv == MountInv /\ ReadPool => MountInv'
<1> SUFFICES ASSUME MountInv, ReadPool PROVE MountInv'
  OBVIOUS
<1> USE DEF MountInv, ReadPool
<1>1. MkInv'
  BY MkFrame
<1>2. refs \in Refs
  BY DEF MountType
<1>3. MountType'
  BY <1>2, TakeInfo DEF MountType
<1>4. Exclusive' /\ ClientPinned' /\ Whole'
  BY DEF Exclusive, ClientPinned, Whole, Complete, mkVars
<1>5. Listed'
  BY DEF Listed, Complete
<1>6. Accounted'
  BY <1>2, TakeInfo DEF Accounted, Infos, Complete, Rooted, Holders
<1> QED
  BY <1>1, <1>3, <1>4, <1>5, <1>6

\* The device summary is there: chunk_offset is that of the first chunk,
\* whichever run of mkfs wrote it.
LEMMA ReadDevInv == MountInv /\ ReadDev => MountInv'
<1> SUFFICES ASSUME MountInv, ReadDev PROVE MountInv'
  OBVIOUS
<1> USE DEF MountInv, ReadDev
<1>1. MkInv'
  BY MkFrame
<1>2. refs \in Refs
  BY DEF MountType
<1>3. offset' = FirstChunk
  <2>1. DevBlk \in Nat /\ (DevBlk * Blk) \div Blk = DevBlk
    BY BlockIndex, Sizes DEF DevBlk
  <2>2. DevBlk \in DOMAIN blk
    BY <2>1, OnTarget DEF Holds
  <2>3. blk[DevBlk].magic = "dev" /\ Belongs(blk[DevBlk], DevBlk)
    BY <2>1, <2>2 DEF Holds, MkInv, AllWritten
  <2>4. \E n \in 0 .. MaxFile : blk[DevBlk] = DevSummary(n)
    BY <2>3, Magics DEF Belongs
  <2> QED
    BY <2>4 DEF DevSummary
<1>4. clist = <<>>
  BY DEF Listed, Complete
<1>5. MountType'
  BY <1>2, <1>3, TakeInfo, OffsetFirst DEF MountType
<1>6. Exclusive' /\ ClientPinned'
  BY DEF Exclusive, ClientPinned, mkVars
<1>7. Whole'
  BY <1>3, OffsetFirst DEF Whole, Complete
<1>8. Listed'
  <2>1. offset' = OffsetOf(Len(clist') + 1)
    BY <1>3, <1>4, OffsetFirst
  <2> QED
    BY <2>1 DEF Listed, Complete
<1>9. Accounted'
  BY <1>2, <1>4, TakeInfo DEF Accounted, Infos, Complete, Rooted, Holders
<1> QED
  BY <1>1, <1>5, <1>6, <1>7, <1>8, <1>9

\* The end of the list: there is a root chunk.
LEMMA ReadAllInv == MountInv /\ ReadAll => MountInv'
<1> SUFFICES ASSUME MountInv, ReadAll PROVE MountInv'
  OBVIOUS
<1> USE DEF MountInv, ReadAll
<1>1. MkInv'
  BY MkFrame
<1>2. clist # <<>> /\ root = 1
  <2>1. OffsetOf(Len(clist) + 1) # 0
    <3>1. Len(clist) + 1 \in Nat \ {0}
      BY DEF MountType
    <3> QED
      BY <3>1, OffsetBlock, OffsetFirst
  <2> QED
    BY <2>1 DEF Listed
<1>3. st' = "root"
  BY <1>2
<1>4. MountType'
  BY <1>3 DEF MountType, Complete
<1>5. Exclusive' /\ ClientPinned'
  BY <1>3 DEF Exclusive, ClientPinned, mkVars
<1>6. Whole'
  BY <1>3 DEF Whole, Fits, mkVars
<1>7. Listed'
  BY <1>2, <1>3 DEF Listed, Complete
<1>8. Accounted'
  BY <1>3 DEF Accounted, Infos, Complete, Rooted, Holders
<1> QED
  BY <1>1, <1>4, <1>5, <1>6, <1>7, <1>8

\* The root is found, or the task dies with what it holds.
LEMMA ReadRootInv == MountInv /\ ReadRoot => MountInv'
<1> SUFFICES ASSUME MountInv, ReadRoot PROVE MountInv'
  OBVIOUS
<1> USE DEF MountInv
<1>1. MkInv'
  BY MkFrame DEF ReadRoot
<1>2. refs \in Refs /\ clist # <<>>
  BY DEF MountType, Listed, Complete, ReadRoot
<1>3. RootMnt = clist[1].mnt /\ clist[1].mnt \in 0 .. MaxDirs
  BY <1>2, RootFirst, Entry
<1>4. MountType'
  BY <1>2, <1>3, TakeMnt DEF MountType, ReadRoot, Complete
<1>5. Exclusive' /\ ClientPinned' /\ Listed' /\ Whole'
  BY DEF Exclusive, ClientPinned, Listed, Whole, Fits, Complete, mkVars, ReadRoot
<1>6. Accounted'
  <2>1. CASE st' = "filled"
    <3>1. refs' = MntGet(refs, clist[1].mnt) /\ clist' = clist /\ st = "root"
      BY <1>3, <2>1 DEF ReadRoot
    <3>2. refs'.mem = refs.mem /\ refs'.bh = refs.bh
      BY <1>2, <1>3, <3>1, TakeMnt
    <3>3. \A m \in 0 .. MaxDirs :
             refs'.mnt[m] = refs.mnt[m] + IF m = clist[1].mnt THEN 1 ELSE 0
      BY <1>2, <1>3, <3>1, TakeMnt
    <3>4. \A m \in 0 .. MaxDirs : refs.mnt[m] = Cardinality(Holders(m))
      <4>1. \A m \in 0 .. MaxDirs : Cardinality(Holders(m)) \in Nat
        BY HoldersFinite
      <4> QED
        BY <3>1, <4>1 DEF Accounted, Rooted
    <3>5. Infos' = Infos /\ \A m : Holders(m)' = Holders(m)
      BY <3>1, <2>1 DEF Infos, Complete, Holders
    <3>6. \A m \in 0 .. MaxDirs :
            refs'.mnt[m] = Cardinality(Holders(m)) + IF m = clist[1].mnt THEN 1 ELSE 0
      BY <3>3, <3>4
    <3> QED
      BY <2>1, <3>1, <3>2, <3>5, <3>6 DEF Accounted, Rooted
  <2>2. CASE st' = "oops"
    BY <2>2 DEF Accounted, ReadRoot, Infos, Complete, Rooted, Holders
  <2> QED
    BY <2>1, <2>2 DEF ReadRoot
<1> QED
  BY <1>1, <1>4, <1>5, <1>6

\* A chunk more at the end of the list holds one mount more.
LEMMA HoldersAppend ==
    ASSUME MountType, NEW e, clist' = Append(clist, e), NEW m
    PROVE  Cardinality(Holders(m)') = Cardinality(Holders(m)) + IF e.mnt = m THEN 1 ELSE 0
<1> DEFINE L == Len(clist)
<1>1. /\ L \in Nat /\ Len(clist') = L + 1
      /\ \A i \in 1 .. L : clist'[i] = clist[i]
      /\ clist'[L + 1] = e
  BY DEF MountType
<1>2. IsFiniteSet(Holders(m)) /\ Cardinality(Holders(m)) \in Nat
  BY HoldersFinite
<1>3. L + 1 \notin Holders(m)
  BY <1>1 DEF Holders
<1>4. CASE e.mnt = m
  <2>1. Holders(m)' = Holders(m) \cup {L + 1}
    BY <1>1, <1>4 DEF Holders
  <2> QED
    BY <1>2, <1>3, <1>4, <2>1, FS_AddElement
<1>5. CASE e.mnt # m
  <2>1. Holders(m)' = Holders(m)
    BY <1>1, <1>5 DEF Holders
  <2> QED
    BY <1>2, <1>5, <2>1
<1> QED
  BY <1>4, <1>5

\* What chunkfs_read_chunk finds is the next chunk, which goes to the end of the
\* list; the first is the only one with the root flag.
LEMMA ReadChunkFinds ==
    ASSUME MountInv, ReadChunk
    PROVE  LET k == Len(clist) + 1 IN
           /\ k \in Nat \ {0} /\ offset = OffsetOf(k)
           /\ offset \div Blk \in DOMAIN blk
           /\ \E n \in 0 .. MaxFile : Summary = ChunkSummary(k, offset, n)
           /\ Summary.id = k
           /\ clist' = Append(clist, [id |-> k, mnt |-> MountAt(k)])
           /\ refs' = MntGet(GetInfo(refs), MountAt(k))
           /\ root' = 1 /\ offset' = Summary.c_next /\ st' = "chunk"
           /\ MountAt(k) \in 0 .. MaxDirs /\ MountAt(k) <= fss
<1> USE DEF MountInv
<1> DEFINE k == Len(clist) + 1
<1>1. k \in Nat \ {0}
  BY Entry
<1>2. offset = OffsetOf(k) /\ Holds(offset, "chunk")
  BY DEF ReadChunk, Listed
<1>3. /\ offset \div Blk \in DOMAIN blk
      /\ \E n \in 0 .. MaxFile : Summary = ChunkSummary(k, offset, n)
  <2> HIDE DEF k
  <2> QED
    BY <1>1, <1>2, NextSummary
<1>4. Summary.id = k /\ Summary.root = (k = 1)
  BY <1>3 DEF ChunkSummary
<1>5. root = IF k = 1 THEN 0 ELSE 1
  BY Entry DEF Listed, MountType
<1>6. ~(Summary.root /\ root # 0)
  BY <1>4, <1>5
<1>7. root' = 1 /\ offset' = Summary.c_next /\ st' = "chunk"
  BY <1>4, <1>5, <1>6 DEF ReadChunk
<1>8. MountAt(k) \in 0 .. MaxDirs /\ MountAt(k) <= fss
  BY <1>1, MountAssumption DEF MountAt, MountType
<1>9. /\ clist' = Append(clist, [id |-> k, mnt |-> MountAt(k)])
      /\ refs' = MntGet(GetInfo(refs), MountAt(k))
  BY <1>4 DEF ReadChunk, GrabClient
<1> QED
  BY <1>1, <1>2, <1>3, <1>4, <1>7, <1>8, <1>9

\* The last chunk of a target formatted once is the last that the format has:
\* the loop that wrote the summaries stopped behind it.
LEMMA LastChunk ==
    ASSUME MkInv, formats = 1, NEW k \in Nat \ {0}, NEW n \in 0 .. MaxFile,
           NEW b \in DOMAIN blk,
           blk[b] = ChunkSummary(k, OffsetOf(k), n), blk[b].c_next = 0
    PROVE  k = chunk_id - 1 /\ ~Fits
<1> USE DEF MkInv
<1>1. PICK l \in 1 .. chunk_id - 1 : blk[b] = ChunkSummary(l, OffsetOf(l), raw)
  BY Magics DEF OneFormat
<1>2. l = k
  BY <1>1 DEF ChunkSummary
<1>3. chunk_id \in Nat \ {0} /\ start = OffsetOf(chunk_id)
  BY DEF Loop
<1>4. OffsetOf(k) \in Nat /\ OffsetOf(k) + Blk <= MaxFile
  BY <1>1, <1>2, OffsetBlock DEF OneFormat
<1>5. ~Another(OffsetOf(k) + ChunkSize - 1, raw)
  BY <1>1, <1>2, <1>4, Sizes DEF ChunkSummary
<1> DEFINE last == OffsetOf(k) + ChunkSize - 1 + ChunkSize - 1
<1>6. last \in Nat /\ last < Word /\ last + 1 < Word
  BY <1>4, Sizes
<1>7. DevEnd(raw) \in Int
  BY Sizes, SMTT(30) DEF DevEnd, MkType
<1>8. ~(last < DevEnd(raw))
  BY <1>5, <1>6, NoWrap DEF Another
<1>9. OffsetOf(k + 1) + ChunkSize - 1 = last + 1
  BY <1>4, OffsetNext, Sizes
<1>10. k = chunk_id - 1
  <2> SUFFICES ASSUME k # chunk_id - 1 PROVE FALSE
    OBVIOUS
  <2>1. k + 1 \in 1 .. chunk_id - 1
    BY <1>1, <1>2, <1>3
  <2>2. OffsetOf(k + 1) + ChunkSize - 1 < DevEnd(raw)
    BY <2>1 DEF OneFormat
  <2> QED
    BY <2>2, <1>6, <1>7, <1>8, <1>9
<1>11. ~Fits
  <2>1. start + ChunkSize - 1 = last + 1
    BY <1>3, <1>9, <1>10
  <2>2. (last + 1) % Word = last + 1
    BY <1>6, NoWrap
  <2> QED
    BY <2>1, <2>2, <1>6, <1>7, <1>8 DEF Fits
<1> QED
  BY <1>10, <1>11

\* A chunk is read.
LEMMA ReadChunkInv == MountInv /\ ReadChunk => MountInv'
<1> SUFFICES ASSUME MountInv, ReadChunk PROVE MountInv'
  OBVIOUS
<1> USE DEF MountInv
<1> DEFINE k == Len(clist) + 1
           e == [id |-> k, mnt |-> MountAt(k)]
<1>0. UNCHANGED <<mkVars, dirs, fss, rootdir, kmutex>> /\ st = "chunk"
  BY DEF ReadChunk
<1>1. /\ k \in Nat \ {0} /\ offset = OffsetOf(k)
      /\ offset \div Blk \in DOMAIN blk
      /\ \E n \in 0 .. MaxFile : Summary = ChunkSummary(k, offset, n)
      /\ clist' = Append(clist, e)
      /\ refs' = MntGet(GetInfo(refs), MountAt(k))
      /\ root' = 1 /\ offset' = Summary.c_next /\ st' = "chunk"
      /\ MountAt(k) \in 0 .. MaxDirs /\ MountAt(k) <= fss
  BY ReadChunkFinds
<1>2. e \in [id : Nat \ {0}, mnt : 0 .. MaxDirs] /\ e.id = k /\ e.mnt = MountAt(k)
  BY <1>1
<1>3. /\ Len(clist') = k /\ clist' # <<>> /\ DOMAIN clist' = 1 .. k
      /\ \A i \in 1 .. Len(clist) : clist'[i] = clist[i]
      /\ clist'[k] = e
      /\ clist' \in Seq([id : Nat \ {0}, mnt : 0 .. MaxDirs])
  <2> HIDE DEF e
  <2>1. clist \in Seq([id : Nat \ {0}, mnt : 0 .. MaxDirs])
    BY DEF MountType
  <2> QED
    BY <1>1, <1>2, <2>1
<1>4. offset' = 0 \/ offset' = OffsetOf(k + 1)
  <2>1. offset' \in {0, offset + ChunkSize}
    BY <1>1 DEF ChunkSummary
  <2> HIDE DEF k
  <2> QED
    BY <1>1, <2>1, OffsetNext
<1>5. MkInv'
  BY <1>0, MkFrame
<1>6. MountType'
  <2>1. refs' \in Refs
    BY <1>1, TakeInfo, TakeMnt DEF MountType
  <2>2. offset' \in Nat
    <3>1. k + 1 \in Nat \ {0}
      BY <1>1
    <3> QED
      BY <3>1, <1>4, OffsetBlock
  <2> QED
    BY <1>0, <1>1, <1>3, <2>1, <2>2 DEF MountType
<1>7. Exclusive'
  BY <1>0, <1>1 DEF Exclusive, mkVars
<1>8. ClientPinned'
  <2> SUFFICES ASSUME NEW i \in 1 .. k PROVE clist'[i].mnt <= fss
    BY <1>0, <1>3 DEF ClientPinned
  <2>1. CASE i = k
    BY <2>1, <1>1, <1>2, <1>3
  <2>2. CASE i \in 1 .. Len(clist)
    BY <2>2, <1>3, Entry DEF ClientPinned
  <2> QED
    BY <2>1, <2>2, <1>1, Entry
<1>9. Listed'
  <2>1. \A i \in 1 .. k : clist'[i].id = i
    <3> TAKE i \in 1 .. k
    <3>1. CASE i = k
      BY <3>1, <1>2, <1>3
    <3>2. CASE i \in 1 .. Len(clist)
      BY <3>2, <1>3 DEF Listed
    <3> QED
      BY <3>1, <3>2, <1>1, Entry
  <2>2. offset' = OffsetOf(Len(clist') + 1) \/ offset' = 0
    BY <1>3, <1>4
  <2> QED
    BY <1>1, <1>3, <2>1, <2>2 DEF Listed, Complete
<1>10. Accounted'
  <2>1. refs \in Refs /\ GetInfo(refs) \in Refs
    BY TakeInfo DEF MountType
  <2>2. refs'.mem = refs.mem + 1 /\ refs'.bh = refs.bh + 1
    BY <1>1, <2>1, TakeInfo, TakeMnt
  <2>3. Infos' = Infos + 1 /\ Infos \in Nat
    BY <1>0, <1>1, <1>3, Entry DEF Infos
  <2>4. ASSUME NEW m \in 0 .. MaxDirs
        PROVE  /\ refs'.mnt[m] = Cardinality(Holders(m)')
               /\ Cardinality(Holders(m)') \in Nat
    <3>1. refs'.mnt[m] = refs.mnt[m] + IF m = MountAt(k) THEN 1 ELSE 0
      BY <1>1, <2>1, TakeInfo, TakeMnt
    <3>2. Cardinality(Holders(m)') =
             Cardinality(Holders(m)) + IF e.mnt = m THEN 1 ELSE 0
      BY <1>1, HoldersAppend
    <3>3. Cardinality(Holders(m)) \in Nat
      BY HoldersFinite
    <3>4. refs.mnt[m] = Cardinality(Holders(m))
      BY <1>0, <3>3 DEF Accounted, Rooted
    <3> QED
      BY <3>1, <3>2, <3>3, <3>4, <1>2
  <2> QED
    BY <1>1, <2>2, <2>3, <2>4 DEF Accounted, Rooted
<1>11. Whole'
  <2> SUFFICES ASSUME formats = 1, offset' = 0
               PROVE  Len(clist') = chunk_id - 1 /\ ~Fits
    BY <1>0, <1>1 DEF Whole, Complete, Fits, mkVars
  <2>1. PICK n \in 0 .. MaxFile : Summary = ChunkSummary(k, offset, n)
    BY <1>1
  <2> DEFINE b == offset \div Blk
  <2>2. blk[b] = ChunkSummary(k, OffsetOf(k), n) /\ blk[b].c_next = 0
    BY <1>1, <2>1 DEF Summary
  <2> HIDE DEF k, b
  <2>3. k = chunk_id - 1 /\ ~Fits
    BY <1>1, <2>2, LastChunk DEF b
  <2> QED
    BY <1>3, <2>3
<1> QED
  BY <1>5, <1>6, <1>7, <1>8, <1>9, <1>10, <1>11

\* What a failed mount has taken is given back.
LEMMA ReadFailsInv == MountInv /\ ReadFails => MountInv'
<1> SUFFICES ASSUME MountInv, ReadFails PROVE MountInv'
  OBVIOUS
<1> USE DEF MountInv
<1>0. /\ UNCHANGED <<mkVars, dirs, fss, rootdir, offset, kmutex>>
      /\ clist' = <<>> /\ root' = 0 /\ st' = "failed" /\ st # "none"
  BY DEF ReadFails
<1>1. refs \in Refs /\ Len(clist) \in Nat
  BY Entry DEF MountType
<1>2. /\ refs' \in Refs /\ refs'.mem = 0 /\ refs'.bh = 0
      /\ \A m \in 0 .. MaxDirs : refs'.mnt[m] = 0
  <2>0. \A m \in 0 .. MaxDirs : Cardinality(Holders(m)) \in Nat
    BY HoldersFinite
  <2>1. CASE st = "pool"
    <3>1. refs' = refs /\ clist = <<>>
      BY <2>1 DEF ReadFails, Listed, Complete
    <3> QED
      BY <2>1, <3>1, <1>1, NoHolders DEF Accounted, Infos, Complete, Rooted
  <2>2. CASE st = "dev"
    <3>1. refs' = FreeInfo(refs) /\ clist = <<>>
      BY <2>2 DEF ReadFails, Listed, Complete
    <3>2. refs.mem = 1 /\ refs.bh = 1 /\ \A m \in 0 .. MaxDirs : refs.mnt[m] = 0
      BY <2>2, <3>1, NoHolders DEF Accounted, Infos, Complete, Rooted
    <3> QED
      BY <3>1, <3>2, <1>1, GiveInfo
  <2>3. CASE st = "chunk"
    <3> DEFINE r1 == FreeChunks(refs)
    <3>1. refs' = FreeInfo(FreeInfo(r1))
      BY <2>3 DEF ReadFails
    <3>2. refs.mem = Len(clist) + 2 /\ refs.bh = Len(clist) + 2
      BY <2>3 DEF Accounted, Infos, Complete
    <3>3. \A m \in 0 .. MaxDirs : refs.mnt[m] = Cardinality(Holders(m))
      BY <2>0, <2>3 DEF Accounted, Rooted
    <3>4. /\ r1 \in Refs /\ r1.mem = 2 /\ r1.bh = 2
          /\ \A m \in 0 .. MaxDirs : r1.mnt[m] = 0
      BY <1>1, <2>0, <3>2, <3>3, GiveChunks
    <3> HIDE DEF r1
    <3>5. /\ FreeInfo(r1) \in Refs /\ FreeInfo(r1).mem = 1 /\ FreeInfo(r1).bh = 1
          /\ FreeInfo(r1).mnt = r1.mnt
      BY <3>4, GiveInfo
    <3> QED
      BY <3>1, <3>4, <3>5, GiveInfo
  <2> QED
    BY <2>1, <2>2, <2>3 DEF ReadFails
<1>3. MkInv'
  BY <1>0, MkFrame
<1>4. MountType'
  BY <1>0, <1>2 DEF MountType
<1>5. Exclusive' /\ ClientPinned' /\ Whole'
  BY <1>0 DEF Exclusive, ClientPinned, Whole, Complete, mkVars
<1>6. Listed'
  BY <1>0 DEF Listed, Complete
<1>7. Accounted'
  <2>1. \A m \in 0 .. MaxDirs : Cardinality(Holders(m)') = 0
    <3>1. \A m : Holders(m)' = {}
      BY <1>0 DEF Holders
    <3> QED
      BY <3>1, FS_EmptySet
  <2> QED
    BY <1>0, <1>2, <2>1 DEF Accounted, Infos, Complete, Rooted
<1> QED
  BY <1>3, <1>4, <1>5, <1>6, <1>7

\* An unmount gives back everything.
LEMMA PutSuperInv == MountInv /\ PutSuper => MountInv'
<1> SUFFICES ASSUME MountInv, PutSuper PROVE MountInv'
  OBVIOUS
<1> USE DEF MountInv
<1>0. /\ UNCHANGED <<mkVars, dirs, fss, rootdir, kmutex>> /\ offset' = 0
      /\ clist' = <<>> /\ root' = 0 /\ st' = "none" /\ st = "put"
  BY DEF PutSuper
<1>1. refs \in Refs /\ Len(clist) \in Nat /\ clist # <<>>
  BY <1>0, Entry DEF MountType, Listed, Complete
<1>2. RootMnt = clist[1].mnt /\ clist[1].mnt \in 0 .. MaxDirs
  BY <1>1, RootFirst, Entry
<1>3. /\ refs' \in Refs /\ refs'.mem = 0 /\ refs'.bh = 0
      /\ \A m \in 0 .. MaxDirs : refs'.mnt[m] = 0
  <2> DEFINE r0 == MntPut(refs, clist[1].mnt)
             r1 == FreeChunks(r0)
  <2>0. \A m \in 0 .. MaxDirs : Cardinality(Holders(m)) \in Nat
    BY HoldersFinite
  <2>1. refs' = FreeInfo(FreeInfo(r1))
    BY <1>2 DEF PutSuper
  <2>2. refs.mem = Len(clist) + 2 /\ refs.bh = Len(clist) + 2
    BY <1>0 DEF Accounted, Infos, Complete
  <2>3. \A m \in 0 .. MaxDirs :
           refs.mnt[m] = Cardinality(Holders(m)) + IF clist[1].mnt = m THEN 1 ELSE 0
    BY <1>0 DEF Accounted, Rooted
  <2>4. /\ r0 \in Refs /\ r0.mem = Len(clist) + 2 /\ r0.bh = Len(clist) + 2
        /\ \A m \in 0 .. MaxDirs :
              r0.mnt[m] = refs.mnt[m] - IF m = clist[1].mnt THEN 1 ELSE 0
    BY <1>1, <1>2, <2>2, GiveMnt
  <2>5. \A m \in 0 .. MaxDirs : r0.mnt[m] = Cardinality(Holders(m))
    <3> HIDE DEF r0
    <3> QED
      BY <2>0, <2>3, <2>4
  <2> HIDE DEF r0
  <2>6. /\ r1 \in Refs /\ r1.mem = 2 /\ r1.bh = 2
        /\ \A m \in 0 .. MaxDirs : r1.mnt[m] = 0
    BY <1>1, <2>0, <2>4, <2>5, GiveChunks
  <2> HIDE DEF r1
  <2>7. /\ FreeInfo(r1) \in Refs /\ FreeInfo(r1).mem = 1 /\ FreeInfo(r1).bh = 1
        /\ FreeInfo(r1).mnt = r1.mnt
    BY <2>6, GiveInfo
  <2> QED
    BY <2>1, <2>6, <2>7, GiveInfo
<1>4. MkInv'
  BY <1>0, MkFrame
<1>5. MountType'
  BY <1>0, <1>3 DEF MountType
<1>6. Exclusive' /\ ClientPinned' /\ Whole'
  BY <1>0 DEF Exclusive, ClientPinned, Whole, Complete, mkVars
<1>7. Listed'
  BY <1>0 DEF Listed, Complete
<1>8. Accounted'
  <2>1. \A m \in 0 .. MaxDirs : Cardinality(Holders(m)') = 0
    <3>1. \A m : Holders(m)' = {}
      BY <1>0 DEF Holders
    <3> QED
      BY <3>1, FS_EmptySet
  <2> QED
    BY <1>0, <1>3, <2>1 DEF Accounted, Infos, Complete, Rooted
<1> QED
  BY <1>4, <1>5, <1>6, <1>7, <1>8

\* A restart leaves nothing mounted, and the target as it is.
LEMMA RebootInv == MountInv /\ Reboot => MountInv'
<1> SUFFICES ASSUME MountInv, Reboot PROVE MountInv'
  OBVIOUS
<1> USE DEF MountInv, Reboot
<1>1. MkInv'
  BY MkFrame
<1>2. NoRefs \in Refs
  BY DEF NoRefs, Refs
<1>3. MountType'
  BY <1>2, MountAssumption DEF MountType
<1>4. Exclusive' /\ Listed' /\ ClientPinned' /\ Whole'
  BY DEF Exclusive, Listed, ClientPinned, Whole, Complete
<1>5. Accounted'
  <2>1. \A m \in 0 .. MaxDirs : refs'.mnt[m] = 0 /\ Cardinality(Holders(m)') = 0
    <3>1. \A m : Holders(m)' = {}
      BY DEF Holders
    <3> QED
      BY <3>1, FS_EmptySet DEF NoRefs
  <2> QED
    BY <2>1 DEF Accounted, NoRefs, Infos, Complete, Rooted
<1> QED
  BY <1>1, <1>3, <1>4, <1>5

-----------------------------------------------------------------------------
(* The theorems                                                            *)

\* The invariant holds in every state of every behaviour, however often mkfs
\* runs, is killed or fails, and whatever userland mounts and unmounts meanwhile.
THEOREM MountInductive == Spec => []MountInv
<1>1. Init => MountInv
  BY MountInit
<1>2. MountInv /\ [Next]_vars => MountInv'
  <2> SUFFICES ASSUME MountInv, [Next]_vars PROVE MountInv'
    OBVIOUS
  <2>1. CASE Kernel
    BY <2>1, ReadPoolInv, ReadDevInv, ReadChunkInv, ReadAllInv, ReadFailsInv, ReadRootInv,
       QuietSteps, PutSuperInv DEF Kernel
  <2>2. CASE Userland
    BY <2>2, QuietSteps, UserSteps, RebootInv, MkfsSteps DEF Userland
  <2>3. CASE UNCHANGED vars
    <3> USE DEF MountInv
    <3>1. UNCHANGED mkVars /\ UNCHANGED mntVars
      BY <2>3 DEF vars
    <3>2. MkInv'
      BY <3>1, MkFrame
    <3>3. MountType' /\ Listed' /\ ClientPinned'
      BY <3>1 DEF MountType, Listed, ClientPinned, mntVars
    <3>4. Exclusive' /\ Whole'
      BY <3>1 DEF Exclusive, Whole, Fits, mkVars, mntVars
    <3>5. Accounted'
      BY <3>1 DEF Accounted, Infos, Holders, mntVars
    <3> QED
      BY <3>2, <3>3, <3>4, <3>5
  <2> QED
    BY <2>1, <2>2, <2>3 DEF Next
<1> QED
  BY <1>1, <1>2, PTL DEF Spec

\* Every chunk summary on the target is in its place, whichever run of mkfs
\* wrote it and however far that run got.
THEOREM ChunksInPlaceCorrect == Spec => []ChunksInPlace
<1>1. MountInv => ChunksInPlace
  BY InvInPlace DEF MountInv
<1> QED
  BY <1>1, MountInductive, PTL

\* The chunks of an mkfs that succeeded lie inside the target.
THEOREM ChunksFitCorrect == Spec => []ChunksFit
<1>1. MountInv => ChunksFit
  BY InvFit DEF MountInv
<1> QED
  BY <1>1, MountInductive, PTL

\* The chunk list of a mounted file system is chunks 1, 2, ..., the root in
\* chunk 1.
THEOREM ChunkListCorrect == Spec => []ChunkListOK
<1>1. MountInv => ChunkListOK
  BY Entry DEF MountInv, ChunkListOK, Listed, Complete
<1> QED
  BY <1>1, MountInductive, PTL

\* read_dev meets neither a second root chunk nor a list without one.
THEOREM RootFoundCorrect == Spec => []RootFound
<1>1. MountInv => RootFound
  BY DEF MountInv, MountType, RootFound, Complete
<1> QED
  BY <1>1, MountInductive, PTL

\* A target formatted once cannot be mounted before its last chunk is written.
THEOREM WholeFormatCorrect == Spec => []WholeFormat
<1>1. MountInv => WholeFormat
  BY DEF MountInv, Whole, WholeFormat, Complete
<1> QED
  BY <1>1, MountInductive, PTL

\* A mount that fails and an unmount give back every allocation, buffer and
\* mount they took.
THEOREM NothingHeldCorrect == Spec => []NothingHeld
<1>1. MountInv => NothingHeld
  <2> SUFFICES ASSUME MountInv, st = "none" PROVE refs = NoRefs
    BY DEF NothingHeld
  <2> USE DEF MountInv
  <2>1. clist = <<>> /\ refs \in Refs
    BY DEF Listed, Complete, MountType
  <2>2. refs.mem = 0 /\ refs.bh = 0 /\ \A m \in 0 .. MaxDirs : refs.mnt[m] = 0
    BY <2>1, NoHolders DEF Accounted, Infos, Complete, Rooted
  <2> QED
    BY <2>1, <2>2, NothingLeft
<1> QED
  BY <1>1, MountInductive, PTL

\* A client stays mounted as long as its chunk is in the list.
THEOREM ClientPinnedCorrect == Spec => []ClientPinned
<1>1. MountInv => ClientPinned
  BY DEF MountInv
<1> QED
  BY <1>1, MountInductive, PTL
=============================================================================
