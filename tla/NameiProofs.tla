---------------------------- MODULE NameiProofs ----------------------------
(***************************************************************************)
(* Theorems of the specification of a chunkfs directory, for every value   *)
(* of the constants: any number of names, inode numbers, dentries and      *)
(* inodes.                                                                 *)
(***************************************************************************)
EXTENDS Namei, TLAPS, FiniteSetTheorems

-----------------------------------------------------------------------------
(* The inductive invariant                                                 *)

\* A client inode that has a name or is in memory belongs to some file.
Born ==
    /\ \A i \in mem : life[i] >= 1
    /\ \A n \in Names : entry[n] # None => life[entry[n]] >= 1

\* A dentry that is in use has a name, one that is not in use no inode.
Blank ==
    \A d \in Dents :
        /\ dst[d] = "free" => dinode[d] = None /\ dclient[d] = None
        /\ dst[d] # "free" => dname[d] \in Names

\* The dentry cache has a name once.
Unique ==
    \A d, e \in Dents :
        dst[d] = "hashed" /\ dst[e] = "hashed" /\ dname[d] = dname[e] => d = e

\* An inode that never had a second name has at most one.
OneName ==
    \A m, n \in Names : entry[m] # None /\ entry[m] = entry[n] /\ entry[m] \notin linked => m = n

\* The client inode of a dentry's inode is the inode of its client dentry.
Paired == \A d \in Dents : Live(dinode[d]) => dclient[d] = iclient[dinode[d]]

\* A chunkfs inode in use has been started.
Started == \A o \in Objs : icount[o] > 0 => iclient[o] # None

\* The inode of a file with one name has one dentry, and one reference.
Sole ==
    \A o \in Objs : icount[o] > 0 /\ iclient[o] \notin linked \cup {Gone} =>
        /\ icount[o] = 1
        /\ \E d \in Dents : dinode[d] = o
        /\ \A d, e \in Dents : dinode[d] = o /\ dinode[e] = o => d = e

\* A file that was deleted while it is open, and had one name, has none.
Nameless ==
    \A d \in Dents, n \in Names :
        dst[d] = "dropped" /\ Live(dinode[d]) /\ dclient[d] \notin linked \cup {Gone}
            => entry[n] # dclient[d]

\* i_nlink is that of the client inode, or a continuation's was copied over it;
\* a special file has no continuations.
Fresh ==
    \A o \in Objs :
        (icount[o] > 0 /\ iclient[o] \in mem /\ iclient[o] \notin linked
           /\ (cont[iclient[o]] = {} \/ kind[iclient[o]] = "blk"))
               => inlink[o] = nlink[iclient[o]]

\* Only special files wait for chunkfs_write_inode.
DirtyBlk ==
    \A o \in idirty : icount[o] > 0 /\ (iclient[o] \in Inos => kind[iclient[o]] = "blk")

\* The variables of the client's disk have the values they are declared for.
DiskType ==
    /\ entry \in [Names -> Inos \cup {None}]
    /\ nlink \in [Inos -> Nat]
    /\ kind \in [Inos -> Kinds]
    /\ life \in [Inos -> 0..MaxLife]
    /\ linked \subseteq Inos /\ next \subseteq Inos
    /\ cont \in [Inos -> SUBSET (1..MaxLife)]

\* So have those of the chunkfs dentries,
DentryType ==
    /\ dst \in [Dents -> {"free", "hashed", "dropped"}]
    /\ dname \in [Dents -> Names \cup {None}]
    /\ dinode \in [Dents -> Objs \cup {None, Gone}]
    /\ dclient \in [Dents -> Inos \cup {None, Gone}]

\* of the chunkfs inodes,
InodeType ==
    /\ icount \in [Objs -> Nat]
    /\ iclient \in [Objs -> Inos \cup {None, Gone}]
    /\ inlink \in [Objs -> Nat]
    /\ idirty \subseteq Objs

\* of the client's caches and the counts,
CacheType ==
    /\ mem \subseteq Inos
    /\ count \in [Inos -> Int]
    /\ idle \in [Inos -> 0..MaxIdle]
    /\ dcount \in 0..MaxLinks /\ faults \in 0..MaxFaults

\* and the flags.
FlagType ==
    /\ dleak \in [Dents -> BOOLEAN] /\ dopen \in [Dents -> BOOLEAN]
    /\ stray \in BOOLEAN /\ oops \in BOOLEAN

NameiInv ==
    /\ DiskType /\ DentryType /\ InodeType /\ CacheType /\ FlagType
    /\ Born /\ Blank /\ Unique /\ NameTruth
    /\ OneName /\ Paired /\ Started /\ Sole /\ Nameless
    /\ OneInode /\ Fresh /\ DirtyBlk /\ NamesCounted

-----------------------------------------------------------------------------
(* The names of an inode                                                   *)

NamesOf(i) == {n \in Names : entry[n] = i}

\* The bounds as the provers need them.
LEMMA Bounds ==
    /\ MaxIdle \in Nat /\ MaxDebt \in Nat /\ MaxLife \in Nat
    /\ MaxLinks \in Nat /\ MaxFaults \in Nat
  BY BoundAssumption

\* An inode has finitely many names.
LEMMA NamesFinite ==
    ASSUME NEW i
    PROVE  IsFiniteSet(NamesOf(i)) /\ Cardinality(NamesOf(i)) \in Nat
  BY NamesAssumption, FS_Subset, FS_CardinalityType DEF NamesOf

\* An empty directory.
LEMMA NameiInit == Init => NameiInv
<1> SUFFICES ASSUME Init PROVE NameiInv
  OBVIOUS
<1> USE DEF Init
<1>1. DiskType /\ DentryType /\ InodeType /\ CacheType /\ FlagType
  <2>1. DiskType
    BY Bounds DEF DiskType, Kinds
  <2>2. DentryType
    BY DEF DentryType
  <2>3. InodeType /\ CacheType
    BY Bounds DEF InodeType, CacheType
  <2>4. FlagType
    BY DEF FlagType
  <2> QED
    BY <2>1, <2>2, <2>3, <2>4
<1>2. Born /\ Blank /\ Unique /\ NameTruth /\ OneName
  BY DEF Born, Blank, Unique, NameTruth, OneName
<1>3. Paired /\ Started /\ Sole /\ Nameless
  BY NamesAssumption DEF Paired, Started, Sole, Nameless, Live
<1>4. OneInode /\ Fresh /\ DirtyBlk
  BY DEF OneInode, Fresh, DirtyBlk, Live
<1>5. NamesCounted
  <2> SUFFICES ASSUME NEW i \in Inos
               PROVE  Cardinality(NamesOf(i)) = 0
    BY DEF NamesCounted, NamesOf
  <2>1. NamesOf(i) = {}
    BY NamesAssumption DEF NamesOf
  <2> QED
    BY <2>1, FS_EmptySet
<1> QED
  BY <1>1, <1>2, <1>3, <1>4, <1>5 DEF NameiInv

\* After a stop there is nothing in memory that could be wrong.
LEMMA StopInv ==
    ASSUME NEW b \in BOOLEAN, Stop(b), DiskType', faults' \in 0 .. MaxFaults,
           OneName', NamesCounted',
           \A n \in Names : entry'[n] # None => life'[entry'[n]] >= 1
    PROVE  NameiInv'
<1> USE DEF Stop
<1>1. DiskType' /\ DentryType' /\ InodeType' /\ CacheType' /\ FlagType'
  <2>1. DentryType'
    BY DEF DentryType
  <2>2. InodeType' /\ CacheType'
    BY Bounds DEF InodeType, CacheType
  <2>3. FlagType'
    BY DEF FlagType
  <2> QED
    BY <2>1, <2>2, <2>3
<1>2. Born' /\ Blank' /\ Unique' /\ NameTruth'
  BY DEF Born, Blank, Unique, NameTruth
<1>3. Paired' /\ Started' /\ Sole' /\ Nameless'
  BY NamesAssumption DEF Paired, Started, Sole, Nameless, Live
<1>4. OneInode' /\ Fresh' /\ DirtyBlk'
  BY DEF OneInode, Fresh, DirtyBlk, Live
<1> QED
  BY <1>1, <1>2, <1>3, <1>4 DEF NameiInv

\* None and Gone are no objects.
LEMMA Points ==
    /\ None \notin Inos /\ Gone \notin Inos /\ None \notin Objs /\ Gone \notin Objs
    /\ None \notin Names /\ None # Gone
  BY NamesAssumption

-----------------------------------------------------------------------------
(* What the steps have in common                                           *)

\* The client makes a file: the number it takes is free in memory, and free on
\* disk unless a special file has lost a link it should have; the history tells.
LEMMA MakesDisk ==
    ASSUME NameiInv, NEW d \in Dents, NEW i \in Inos, NEW k \in Kinds,
           dname[d] \in Names, ClientMakes(d, i, k)
    PROVE  /\ DiskType' /\ OneName' /\ NamesCounted'
           /\ \A n \in Names : entry'[n] # None => life'[entry'[n]] >= 1
           /\ life'[i] >= 1
<1> USE DEF NameiInv, ClientMakes
<1> DEFINE x == dname[d]
<1>1. DiskType'
  BY Bounds DEF DiskType
<1>2. /\ entry'[x] = i /\ entry[x] = None
      /\ \A n \in Names \ {x} : entry'[n] = entry[n]
      /\ nlink'[i] = 1 /\ kind'[i] = k /\ life'[i] = life[i] + 1
      /\ \A j \in Inos \ {i} : nlink'[j] = nlink[j] /\ kind'[j] = kind[j] /\ life'[j] = life[j]
      /\ \A j \in Inos \ {i} : j \in linked' <=> j \in linked
  BY DEF DiskType
<1>3. life[i] \in Nat /\ life'[i] >= 1
  BY <1>2 DEF DiskType
<1>4. i \notin linked' => \A n \in Names : entry[n] # i
  OBVIOUS
<1>5. OneName'
  <2> SUFFICES ASSUME NEW m \in Names, NEW n \in Names, entry'[m] # None,
                      entry'[m] = entry'[n], entry'[m] \notin linked'
               PROVE  m = n
    BY DEF OneName
  <2>1. CASE entry'[m] = i
    BY <2>1, <1>2, <1>4
  <2>2. CASE entry'[m] # i
    <3>1. entry[m] = entry'[m] /\ entry[n] = entry'[n] /\ entry[m] \in Inos \ {i}
      BY <2>2, <1>2 DEF DiskType
    <3> QED
      BY <3>1, <1>2 DEF OneName
  <2> QED
    BY <2>1, <2>2
<1>6. ASSUME NEW n \in Names, entry'[n] # None PROVE life'[entry'[n]] >= 1
  <2>1. CASE entry'[n] = i
    BY <2>1, <1>3
  <2>2. CASE entry'[n] # i
    <3>1. entry[n] = entry'[n] /\ entry[n] \in Inos \ {i}
      BY <2>2, <1>2, <1>6 DEF DiskType
    <3> QED
      BY <3>1, <1>2, <1>6 DEF Born
  <2> QED
    BY <2>1, <2>2
<1>7. NamesCounted'
  <2> SUFFICES ASSUME NEW j \in Inos,
                      j \notin linked' \/ (kind'[j] # "blk" /\ life'[j] = 1)
               PROVE  nlink'[j] = Cardinality(NamesOf(j)')
    BY DEF NamesCounted, NamesOf
  <2>1. CASE j = i
    <3>1. \A n \in Names : entry[n] # i
      <4>1. CASE j \notin linked'
        BY <2>1, <4>1, <1>4
      <4>2. CASE life'[j] = 1
        <5>1. life[i] = 0
          BY <2>1, <4>2, <1>2, <1>3
        <5> QED
          BY <5>1, Points DEF Born
      <4> QED
        BY <4>1, <4>2
    <3>2. NamesOf(i)' = {x}
      BY <1>2, <3>1 DEF NamesOf
    <3>3. Cardinality({x}) = 1
      BY FS_Singleton
    <3> QED
      BY <2>1, <1>2, <3>2, <3>3
  <2>2. CASE j # i
    <3>1. NamesOf(j)' = NamesOf(j)
      BY <2>2, <1>2, Points DEF NamesOf
    <3>2. j \notin linked \/ (kind[j] # "blk" /\ life[j] = 1)
      BY <2>2, <1>2
    <3>3. nlink[j] = Cardinality(NamesOf(j))
      BY <3>2 DEF NamesCounted, NamesOf
    <3> QED
      BY <2>2, <1>2, <3>1, <3>3
  <2> QED
    BY <2>1, <2>2
<1> QED
  BY <1>1, <1>3, <1>5, <1>6, <1>7

\* Dentry d gets the new chunkfs inode o over client inode i.  If i was not in
\* memory, whatever pointed to an earlier use of it is Gone.
LEMMA Attach ==
    ASSUME NameiInv, NEW d \in Dents, NEW o \in Objs, NEW i \in Inos, NEW nl \in Nat,
           dinode[d] = None, icount[o] = 0, mem' = mem \cup {i},
           StartInode(o, i, kind'[i], nl), Instantiate(d, o, i), nl = nlink'[i],
           dst'[d] = "hashed", \A e \in Dents \ {d} : dst'[e] = dst[e],
           \A j \in Inos : j # i \/ i \in mem =>
               /\ j \in linked' <=> j \in linked
               /\ nlink'[j] = nlink[j] /\ kind'[j] = kind[j] /\ cont'[j] = cont[j]
               /\ \A n \in Names : entry'[n] = j <=> entry[n] = j,
           i \in mem /\ i \notin linked => \A p \in Objs : icount[p] > 0 => iclient[p] # i
    PROVE  /\ InodeType' /\ dinode' \in [Dents -> Objs \cup {None, Gone}]
           /\ dclient' \in [Dents -> Inos \cup {None, Gone}]
           /\ Paired' /\ Started' /\ Sole' /\ Nameless' /\ OneInode' /\ Fresh' /\ DirtyBlk'
<1> USE DEF NameiInv
<1> DEFINE ic == IF Valid(i) THEN iclient ELSE Lost(iclient, i)
           dc == IF Valid(i) THEN dclient ELSE Lost(dclient, i)
           di == Lost(dinode, o)
<1>1. /\ ic \in [Objs -> Inos \cup {None, Gone}]
      /\ \A p \in Objs : ic[p] = IF iclient[p] = i /\ i \notin mem THEN Gone ELSE iclient[p]
  BY DEF InodeType, Lost, Valid
<1>2. /\ dc \in [Dents -> Inos \cup {None, Gone}]
      /\ \A e \in Dents : dc[e] = IF dclient[e] = i /\ i \notin mem THEN Gone ELSE dclient[e]
  BY DEF DentryType, Lost, Valid
<1>3. /\ di \in [Dents -> Objs \cup {None, Gone}]
      /\ \A e \in Dents : di[e] = IF dinode[e] = o THEN Gone ELSE dinode[e]
  BY DEF DentryType, Lost
<1>4. /\ icount' = [icount EXCEPT ![o] = 1] /\ iclient' = [ic EXCEPT ![o] = i]
      /\ inlink' = [inlink EXCEPT ![o] = nl]
      /\ idirty' = IF kind'[i] = "blk" THEN idirty \cup {o} ELSE idirty
  BY DEF StartInode, Dirty
<1>5. dinode' = [di EXCEPT ![d] = o] /\ dclient' = [dc EXCEPT ![d] = i]
  BY DEF Instantiate
<1> HIDE DEF ic, dc, di
<1>6. /\ icount'[o] = 1 /\ iclient'[o] = i /\ inlink'[o] = nl
      /\ dinode'[d] = o /\ dclient'[d] = i
      /\ \A p \in Objs \ {o} :
            /\ icount'[p] = icount[p] /\ inlink'[p] = inlink[p]
            /\ iclient'[p] = IF iclient[p] = i /\ i \notin mem THEN Gone ELSE iclient[p]
      /\ \A e \in Dents \ {d} :
            /\ dinode'[e] = IF dinode[e] = o THEN Gone ELSE dinode[e]
            /\ dclient'[e] = IF dclient[e] = i /\ i \notin mem THEN Gone ELSE dclient[e]
  BY <1>1, <1>2, <1>3, <1>4, <1>5 DEF InodeType, DentryType
<1>7. InodeType' /\ dinode' \in [Dents -> Objs \cup {None, Gone}]
      /\ dclient' \in [Dents -> Inos \cup {None, Gone}]
  BY <1>1, <1>2, <1>3, <1>4, <1>5 DEF InodeType, DentryType
<1>8. o \notin idirty
  BY DEF DirtyBlk, InodeType
<1>9. Paired'
  <2> SUFFICES ASSUME NEW e \in Dents, dinode'[e] \in Objs, icount'[dinode'[e]] > 0
               PROVE  dclient'[e] = iclient'[dinode'[e]]
    BY DEF Paired, Live
  <2>1. CASE e = d
    BY <2>1, <1>6
  <2>2. CASE e # d
    <3>1. dinode'[e] = dinode[e] /\ dinode[e] # o
      BY <2>2, <1>6, Points
    <3>2. dclient[e] = iclient[dinode[e]]
      BY <3>1, <1>6 DEF Paired, Live
    <3> QED
      BY <2>2, <3>1, <3>2, <1>6
  <2> QED
    BY <2>1, <2>2
<1>10. Started'
  BY <1>6, Points DEF Started
<1>11. Sole'
  <2> SUFFICES ASSUME NEW p \in Objs, icount'[p] > 0, iclient'[p] \notin linked' \cup {Gone}
               PROVE  /\ icount'[p] = 1
                      /\ \E e \in Dents : dinode'[e] = p
                      /\ \A e, f \in Dents : dinode'[e] = p /\ dinode'[f] = p => e = f
    BY DEF Sole
  <2>1. CASE p = o
    <3>1. \A e \in Dents \ {d} : dinode'[e] # o
      BY <1>6, Points
    <3> QED
      BY <2>1, <3>1, <1>6
  <2>2. CASE p # o
    <3>1. icount[p] > 0 /\ iclient[p] = iclient'[p] /\ icount'[p] = icount[p]
      BY <2>2, <1>6
    <3>2. iclient[p] \notin linked \cup {Gone}
      <4>1. iclient[p] \in Inos
        BY <3>1, <2>2 DEF InodeType, Started
      <4>2. iclient[p] # i \/ i \in mem
        BY <2>2, <1>6
      <4> QED
        BY <3>1, <4>1, <4>2
    <3>3. /\ icount[p] = 1
          /\ \E e \in Dents : dinode[e] = p
          /\ \A e, f \in Dents : dinode[e] = p /\ dinode[f] = p => e = f
      BY <3>1, <3>2 DEF Sole
    <3>4. \A e \in Dents : dinode'[e] = p <=> dinode[e] = p
      BY <2>2, <1>6, Points
    <3> QED
      BY <3>1, <3>3, <3>4
  <2> QED
    BY <2>1, <2>2
<1>12. Nameless'
  <2> SUFFICES ASSUME NEW e \in Dents, NEW n \in Names, dst'[e] = "dropped",
                      dinode'[e] \in Objs, icount'[dinode'[e]] > 0,
                      dclient'[e] \notin linked' \cup {Gone}
               PROVE  entry'[n] # dclient'[e]
    BY DEF Nameless, Live
  <2>1. e # d /\ dst[e] = "dropped"
    OBVIOUS
  <2>2. dinode'[e] = dinode[e] /\ dinode[e] # o /\ icount[dinode[e]] > 0
    BY <2>1, <1>6, Points
  <2>3. dclient'[e] = dclient[e] /\ (dclient[e] # i \/ i \in mem)
    BY <2>1, <1>6
  <2>4. dclient[e] = iclient[dinode[e]] /\ dclient[e] \in Inos
    BY <2>2, <2>3 DEF Paired, Live, InodeType, Started
  <2>5. dclient[e] \notin linked \cup {Gone}
    BY <2>3, <2>4
  <2> QED
    BY <2>1, <2>2, <2>3, <2>4, <2>5 DEF Nameless, Live
<1>13. OneInode'
  <2> SUFFICES ASSUME NEW p \in Objs, NEW q \in Objs, p # q, icount'[p] > 0, icount'[q] > 0,
                      iclient'[p] = iclient'[q], iclient'[p] # Gone
               PROVE  iclient'[p] \in linked'
    BY DEF OneInode, Live
  <2>1. CASE p # o /\ q # o
    <3>1. iclient[p] = iclient'[p] /\ iclient[q] = iclient'[q]
          /\ (iclient[p] # i \/ i \in mem) /\ icount[p] > 0 /\ icount[q] > 0
      BY <2>1, <1>6
    <3>2. iclient[p] \in Inos
      BY <3>1 DEF InodeType, Started
    <3>3. iclient[p] \in linked
      BY <3>1 DEF OneInode, Live
    <3> QED
      BY <3>1, <3>2, <3>3
  <2>2. ASSUME NEW r \in {p, q}, r # o, iclient'[r] = i PROVE i \in linked'
    <3>1. icount[r] > 0 /\ i \in mem /\ iclient[r] = i
      BY <2>2, <1>6, Points
    <3> QED
      BY <3>1
  <2> QED
    BY <2>1, <2>2, <1>6
<1>14. Fresh'
  <2> SUFFICES ASSUME NEW p \in Objs, icount'[p] > 0, iclient'[p] \in mem',
                      iclient'[p] \notin linked',
                      cont'[iclient'[p]] = {} \/ kind'[iclient'[p]] = "blk"
               PROVE  inlink'[p] = nlink'[iclient'[p]]
    BY DEF Fresh
  <2>1. CASE p = o
    BY <2>1, <1>6
  <2>2. CASE p # o
    <3>1. /\ icount[p] > 0 /\ iclient'[p] = iclient[p] /\ inlink'[p] = inlink[p]
          /\ (iclient[p] # i \/ i \in mem)
      BY <2>2, <1>6, Points DEF CacheType
    <3>2. iclient[p] # i
      BY <3>1
    <3>3. iclient[p] \in mem /\ iclient[p] \in Inos
      BY <3>1, <3>2 DEF CacheType
    <3> QED
      BY <3>1, <3>2, <3>3 DEF Fresh
  <2> QED
    BY <2>1, <2>2
<1>15. DirtyBlk'
  <2> SUFFICES ASSUME NEW p \in idirty'
               PROVE  icount'[p] > 0 /\ (iclient'[p] \in Inos => kind'[iclient'[p]] = "blk")
    BY DEF DirtyBlk
  <2>1. CASE p = o
    BY <2>1, <1>4, <1>6, <1>8
  <2>2. CASE p # o
    <3>1. p \in idirty /\ p \in Objs
      BY <2>2, <1>4 DEF InodeType
    <3> QED
      BY <2>2, <3>1, <1>6, Points DEF DirtyBlk
  <2> QED
    BY <2>1, <2>2
<1> QED
  BY <1>7, <1>9, <1>10, <1>11, <1>12, <1>13, <1>14, <1>15

\* A name that the cache does not have is that of a file without an inode, as
\* long as it is the file's only name: chunkfs_lookup makes no second inode.
LEMMA NotInCache ==
    ASSUME NameiInv, NEW n \in Names, entry[n] # None, Hashed(n) = {},
           entry[n] \notin linked, NEW p \in Objs, icount[p] > 0, iclient[p] = entry[n]
    PROVE  FALSE
<1> USE DEF NameiInv
<1>1. entry[n] \in Inos /\ entry[n] # Gone
  BY Points DEF DiskType
<1>2. PICK e \in Dents : dinode[e] = p
  BY <1>1 DEF Sole
<1>3. dclient[e] = entry[n]
  BY <1>2 DEF Paired, Live
<1>4. dst[e] # "free"
  BY <1>2, Points DEF Blank
<1>5. CASE dst[e] = "dropped"
  BY <1>1, <1>2, <1>3, <1>5 DEF Nameless, Live
<1>6. CASE dst[e] = "hashed"
  <2>1. entry[dname[e]] = entry[n] /\ dname[e] \in Names
    BY <1>1, <1>2, <1>3, <1>6, Points DEF NameTruth, Blank
  <2>2. dname[e] = n
    BY <2>1 DEF OneName
  <2> QED
    BY <1>6, <2>2 DEF Hashed
<1> QED
  BY <1>4, <1>5, <1>6 DEF DentryType

\* The client's inode is in memory.
LEMMA GetClientType ==
    ASSUME CacheType, FlagType, NEW i \in Inos, GetClient(i)
    PROVE  /\ mem' = mem \cup {i} /\ mem' \subseteq Inos
           /\ count' \in [Inos -> Int] /\ idle' \in [Inos -> 0..MaxIdle]
           /\ stray' \in BOOLEAN
<1>1. /\ mem' = mem \cup {i} /\ mem' \subseteq Inos
      /\ count' \in [Inos -> Int] /\ idle' \in [Inos -> 0..MaxIdle]
  BY Bounds DEF CacheType, GetClient
<1>2. stray' \in BOOLEAN
  BY Zenon DEF GetClient
<1> QED
  BY <1>1, <1>2

\* The dentry has its inode; other pointers to the memory it took are Gone.
LEMMA Instantiated ==
    ASSUME DentryType, NEW d \in Dents, NEW o \in Objs, NEW i \in Inos, Instantiate(d, o, i)
    PROVE  /\ dinode'[d] = o /\ dclient'[d] = i
           /\ \A e \in Dents \ {d} :
                 /\ dinode'[e] \in {dinode[e], Gone} /\ (dinode[e] = None => dinode'[e] = None)
                 /\ dclient'[e] \in {dclient[e], Gone}
                 /\ (dclient[e] = None => dclient'[e] = None)
<1>1. Lost(dinode, o) \in [Dents -> Objs \cup {None, Gone}]
  BY DEF Lost, DentryType
<1>2. Lost(dclient, i) \in [Dents -> Inos \cup {None, Gone}]
  BY DEF Lost, DentryType
<1>3. dinode'[d] = o /\ dclient'[d] = i
  BY <1>1, <1>2 DEF Instantiate, DentryType
<1>4. ASSUME NEW e \in Dents \ {d}
      PROVE  /\ dinode'[e] = IF dinode[e] = o THEN Gone ELSE dinode[e]
             /\ dclient'[e] \in {dclient[e], IF dclient[e] = i THEN Gone ELSE dclient[e]}
  BY <1>4 DEF Instantiate, DentryType, Lost
<1> QED
  BY <1>3, <1>4, Points

\* chunkfs_lookup finds nothing.
LEMMA LookupNothingInv ==
    ASSUME NameiInv, NEW n \in Names, NEW d \in Dents, LookupNothing(n, d)
    PROVE  NameiInv'
<1> USE DEF NameiInv
<1>0. UNCHANGED <<disk, dinode, dclient, dleak, dopen, inode, client, dcount, oops, faults>>
  BY DEF LookupNothing, NewDentry
<1>1. /\ entry[n] = None /\ Hashed(n) = {} /\ dst[d] = "free"
      /\ dst' = [dst EXCEPT ![d] = "hashed"] /\ dname' = [dname EXCEPT ![d] = n]
  BY DEF LookupNothing, NewDentry, Free
<1>2. /\ dst'[d] = "hashed" /\ dname'[d] = n
      /\ \A e \in Dents \ {d} : dst'[e] = dst[e] /\ dname'[e] = dname[e]
  BY <1>1 DEF DentryType
<1>3. DiskType' /\ InodeType' /\ CacheType'
  BY <1>0 DEF DiskType, InodeType, CacheType, disk, inode, client
<1>4. DentryType'
  BY <1>0, <1>1 DEF DentryType
<1>5. FlagType'
  BY <1>0 DEF FlagType, client
<1>6. Born' /\ OneName' /\ NamesCounted'
  BY <1>0 DEF Born, OneName, NamesCounted, disk, client
<1>7. Blank'
  BY <1>0, <1>2 DEF Blank
<1>8. Unique'
  BY <1>1, <1>2 DEF Unique, Hashed
<1>9. NameTruth'
  BY <1>0, <1>1, <1>2 DEF NameTruth, Blank, disk
<1>10. Paired' /\ Started' /\ Sole' /\ OneInode'
  BY <1>0 DEF Paired, Started, Sole, OneInode, Live, disk, inode
<1>11. Nameless'
  BY <1>0, <1>2 DEF Nameless, Live, disk, inode
<1>12. Fresh' /\ DirtyBlk'
  BY <1>0 DEF Fresh, DirtyBlk, disk, inode, client
<1> QED
  BY <1>3, <1>4, <1>5, <1>6, <1>7, <1>8, <1>9, <1>10, <1>11, <1>12

\* chunkfs_lookup finds a file.
LEMMA LookupInv ==
    ASSUME NameiInv, NEW n \in Names, NEW d \in Dents, NEW o \in Objs, Lookup(n, d, o)
    PROVE  NameiInv'
<1> USE DEF NameiInv
<1> DEFINE i == entry[n]
<1>0. UNCHANGED <<entry, nlink, kind, life, linked, cont, dleak, dopen, dcount, oops, faults>>
  BY DEF Lookup, NewDentry
<1>1. /\ i # None /\ Hashed(n) = {} /\ dst[d] = "free" /\ icount[o] = 0
      /\ dst' = [dst EXCEPT ![d] = "hashed"] /\ dname' = [dname EXCEPT ![d] = n]
      /\ GetClient(i) /\ StartInode(o, i, kind[i], nlink[i]) /\ Instantiate(d, o, i)
      /\ next' = next \ {i}
  BY DEF Lookup, NewDentry, Free
<1>2. /\ dst'[d] = "hashed" /\ dname'[d] = n
      /\ \A e \in Dents \ {d} : dst'[e] = dst[e] /\ dname'[e] = dname[e]
  BY <1>1 DEF DentryType
<1>3. i \in Inos /\ nlink[i] \in Nat
  BY <1>1 DEF DiskType
<1>4. dinode[d] = None
  BY <1>1 DEF Blank
<1>5. /\ mem' = mem \cup {i} /\ mem' \subseteq Inos /\ stray' \in BOOLEAN
      /\ count' \in [Inos -> Int] /\ idle' \in [Inos -> 0..MaxIdle]
  BY <1>1, <1>3, GetClientType
<1>6. i \notin linked => \A p \in Objs : icount[p] > 0 => iclient[p] # i
  BY <1>1, NotInCache
<1>7. /\ InodeType' /\ dinode' \in [Dents -> Objs \cup {None, Gone}]
      /\ dclient' \in [Dents -> Inos \cup {None, Gone}]
      /\ Paired' /\ Started' /\ Sole' /\ Nameless' /\ OneInode' /\ Fresh' /\ DirtyBlk'
  BY <1>0, <1>1, <1>2, <1>3, <1>4, <1>5, <1>6, Attach
<1>8. DiskType' /\ CacheType'
  BY <1>0, <1>1, <1>5 DEF DiskType, CacheType
<1>9. DentryType'
  BY <1>1, <1>7 DEF DentryType
<1>10. FlagType'
  BY <1>0, <1>5 DEF FlagType
<1>11. Born'
  BY <1>0, <1>1, <1>5 DEF Born
<1>12. OneName' /\ NamesCounted'
  BY <1>0 DEF OneName, NamesCounted
<1>13. /\ dinode'[d] = o /\ dclient'[d] = i
       /\ \A e \in Dents \ {d} :
             /\ dinode'[e] \in {dinode[e], Gone} /\ (dinode[e] = None => dinode'[e] = None)
             /\ dclient'[e] \in {dclient[e], Gone} /\ (dclient[e] = None => dclient'[e] = None)
  BY <1>1, <1>3, Instantiated
<1>14. Blank'
  BY <1>2, <1>13 DEF Blank
<1>15. Unique'
  BY <1>1, <1>2 DEF Unique, Hashed
<1>16. NameTruth'
  <2> SUFFICES ASSUME NEW e \in Dents, dst'[e] = "hashed"
               PROVE  \/ dinode'[e] = None /\ (entry[dname'[e]] = None \/ faults > 0)
                      \/ /\ dinode'[e] # None /\ entry[dname'[e]] # None
                         /\ dclient'[e] \in {entry[dname'[e]], Gone}
    BY <1>0 DEF NameTruth
  <2>1. CASE e = d
    BY <2>1, <1>1, <1>2, <1>13, Points
  <2>2. CASE e # d
    BY <2>2, <1>2, <1>13, Points DEF NameTruth
  <2> QED
    BY <2>1, <2>2
<1> QED
  BY <1>7, <1>8, <1>9, <1>10, <1>11, <1>12, <1>14, <1>15, <1>16

\* Two dentries of the cache have different names.
LEMMA OtherName ==
    ASSUME NameiInv, NEW d \in Dents, NEW e \in Dents, d # e,
           dst[d] = "hashed", dst[e] = "hashed"
    PROVE  dname[d] \in Names /\ dname[e] \in Names \ {dname[d]}
  BY DEF NameiInv, Unique, Blank

\* create, symlink, mkdir and mknod make a file.
LEMMA MakeInv ==
    ASSUME NameiInv, NEW d \in Dents, NEW call \in DOMAIN KindOf, Make(d, call)
    PROVE  NameiInv'
<1> USE DEF NameiInv
<1> DEFINE k == KindOf[call]
<1>0. UNCHANGED <<dst, dname, dleak, dopen, dcount, oops, faults>>
  BY DEF Make
<1>1. dst[d] = "hashed" /\ dinode[d] = None /\ dname[d] \in Names
  BY DEF Make, Negative, Blank
<1>2. k \in Kinds
  BY DEF KindOf, Kinds
<1>3. PICK i \in Inos, o \in Objs :
         /\ icount[o] = 0 /\ ClientMakes(d, i, k) /\ GetClient(i)
         /\ StartInode(o, i, k, 1) /\ Instantiate(d, o, i)
  BY DEF Make
<1> HIDE DEF k
<1>4. /\ DiskType' /\ OneName' /\ NamesCounted'
      /\ \A n \in Names : entry'[n] # None => life'[entry'[n]] >= 1
      /\ life'[i] >= 1
  BY <1>1, <1>2, <1>3, MakesDisk
<1>5. /\ i \notin mem /\ nlink'[i] = 1 /\ kind'[i] = k
      /\ \A j \in Inos \ {i} :
            /\ j \in linked' <=> j \in linked
            /\ nlink'[j] = nlink[j] /\ kind'[j] = kind[j] /\ cont'[j] = cont[j]
            /\ life'[j] = life[j]
      /\ entry'[dname[d]] = i /\ entry[dname[d]] = None
      /\ \A n \in Names \ {dname[d]} : entry'[n] = entry[n]
  BY <1>1, <1>3 DEF ClientMakes, DiskType, Unused
<1>6. /\ mem' = mem \cup {i} /\ mem' \subseteq Inos /\ stray' \in BOOLEAN
      /\ count' \in [Inos -> Int] /\ idle' \in [Inos -> 0..MaxIdle]
  BY <1>3, GetClientType
<1>7. \A j \in Inos : j # i \/ i \in mem =>
               /\ j \in linked' <=> j \in linked
               /\ nlink'[j] = nlink[j] /\ kind'[j] = kind[j] /\ cont'[j] = cont[j]
               /\ \A n \in Names : entry'[n] = j <=> entry[n] = j
  BY <1>1, <1>5, Points
<1>8. /\ InodeType' /\ dinode' \in [Dents -> Objs \cup {None, Gone}]
      /\ dclient' \in [Dents -> Inos \cup {None, Gone}]
      /\ Paired' /\ Started' /\ Sole' /\ Nameless' /\ OneInode' /\ Fresh' /\ DirtyBlk'
  BY <1>0, <1>1, <1>3, <1>5, <1>6, <1>7, Attach
<1>9. CacheType' /\ DentryType'
  BY <1>0, <1>6, <1>8 DEF CacheType, DentryType
<1>10. FlagType'
  BY <1>0, <1>6 DEF FlagType
<1>11. Born'
  <2>1. \A j \in mem' : life'[j] >= 1
    BY <1>4, <1>5, <1>6 DEF Born, CacheType
  <2> QED
    BY <1>4, <2>1 DEF Born
<1>12. /\ dinode'[d] = o /\ dclient'[d] = i
       /\ \A e \in Dents \ {d} :
             /\ dinode'[e] \in {dinode[e], Gone} /\ (dinode[e] = None => dinode'[e] = None)
             /\ dclient'[e] \in {dclient[e], Gone} /\ (dclient[e] = None => dclient'[e] = None)
  BY <1>3, Instantiated
<1>13. Blank' /\ Unique'
  BY <1>0, <1>1, <1>12 DEF Blank, Unique
<1>14. NameTruth'
  <2> SUFFICES ASSUME NEW e \in Dents, dst[e] = "hashed"
               PROVE  \/ dinode'[e] = None /\ (entry'[dname[e]] = None \/ faults > 0)
                      \/ /\ dinode'[e] # None /\ entry'[dname[e]] # None
                         /\ dclient'[e] \in {entry'[dname[e]], Gone}
    BY <1>0 DEF NameTruth
  <2>1. CASE e = d
    BY <2>1, <1>5, <1>12, Points
  <2>2. CASE e # d
    <3>1. entry'[dname[e]] = entry[dname[e]]
      BY <1>1, <1>5, <2>2, OtherName
    <3> QED
      BY <2>2, <3>1, <1>12, Points DEF NameTruth
  <2> QED
    BY <2>1, <2>2
<1> QED
  BY <1>4, <1>8, <1>9, <1>10, <1>11, <1>13, <1>14

\* Counts and unused client dentries change, and client inodes leave memory.
LEMMA CacheStep ==
    ASSUME NameiInv, UNCHANGED <<disk, dentry, inode>>, mem' \subseteq mem,
           CacheType', stray' \in BOOLEAN, oops' \in BOOLEAN, faults' >= faults
    PROVE  NameiInv'
<1> USE DEF NameiInv, disk, dentry, inode
<1>1. DiskType' /\ DentryType' /\ InodeType'
  BY DEF DiskType, DentryType, InodeType
<1>2. FlagType'
  BY DEF FlagType
<1>3. Born' /\ OneName' /\ NamesCounted' /\ Blank' /\ Unique'
  BY DEF Born, OneName, NamesCounted, Blank, Unique
<1>4. NameTruth'
  <2>1. faults > 0 => faults' > 0
    BY DEF CacheType
  <2> QED
    BY <2>1 DEF NameTruth
<1>5. Paired' /\ Started' /\ Sole' /\ Nameless' /\ OneInode'
  BY DEF Paired, Started, Sole, Nameless, OneInode, Live
<1>6. Fresh' /\ DirtyBlk'
  BY DEF Fresh, DirtyBlk
<1> QED
  BY <1>1, <1>2, <1>3, <1>4, <1>5, <1>6

\* A fault is one more.
LEMMA FaultCounts ==
    ASSUME CacheType, Fault
    PROVE  faults' = faults + 1 /\ faults' \in 0 .. MaxFaults /\ faults' > 0
  BY Bounds DEF CacheType, Fault

\* The kernel stops; the disk is what it was.
LEMMA StopSame ==
    ASSUME NameiInv, NEW b \in BOOLEAN, Stop(b), UNCHANGED disk, faults' \in 0 .. MaxFaults
    PROVE  NameiInv'
<1> USE DEF NameiInv, disk
<1>1. DiskType' /\ OneName' /\ NamesCounted'
  BY DEF DiskType, OneName, NamesCounted
<1>2. \A n \in Names : entry'[n] # None => life'[entry'[n]] >= 1
  BY DEF Born
<1> QED
  BY <1>1, <1>2, StopInv

\* The ways to stop.
LEMMA StopSteps ==
    ASSUME NameiInv,
           \/ \E d \in Dents, n \in Names : LookupErr(n, d)
           \/ \E d \in Dents : MakeErrBug(d) \/ MakeBug(d) \/ Crash(d)
           \/ ShrinkBug \/ Restart
    PROVE  NameiInv'
<1>1. UNCHANGED disk /\ (UNCHANGED faults \/ Fault)
  BY DEF LookupErr, MakeErrBug, Refused, MakeBug, Crash, ShrinkBug, Restart
<1>2. \E b \in BOOLEAN : Stop(b)
  BY DEF LookupErr, MakeErrBug, MakeBug, Crash, ShrinkBug, Restart
<1>3. faults' \in 0 .. MaxFaults
  BY <1>1, FaultCounts DEF NameiInv, CacheType
<1> QED
  BY <1>1, <1>2, <1>3, StopSame

\* The kernel stops after the client has made a file.
LEMMA MakeHalfBugInv ==
    ASSUME NameiInv, NEW d \in Dents, MakeHalfBug(d)
    PROVE  NameiInv'
<1>1. PICK i \in Inos, call \in DOMAIN KindOf : ClientMakes(d, i, KindOf[call])
  BY DEF MakeHalfBug
<1>2. dname[d] \in Names /\ Stop(TRUE) /\ Fault
  BY DEF MakeHalfBug, Negative, NameiInv, Blank
<1>3. KindOf[call] \in Kinds
  BY DEF KindOf, Kinds
<1>4. /\ DiskType' /\ OneName' /\ NamesCounted'
      /\ \A n \in Names : entry'[n] # None => life'[entry'[n]] >= 1
  BY <1>1, <1>2, <1>3, MakesDisk
<1>5. faults' \in 0 .. MaxFaults
  BY <1>2, FaultCounts DEF NameiInv
<1> QED
  BY <1>2, <1>4, <1>5, StopInv

\* The error path puts the client inode that the memory last pointed to.
LEMMA PutUnstartedType ==
    ASSUME CacheType, NEW old, NEW got \in SUBSET Inos, NEW n \in [Inos -> Int],
           PutUnstarted(old, got, n)
    PROVE  count' \in [Inos -> Int] /\ mem' \subseteq mem \cup got
<1>1. count' \in [Inos -> Int]
  <2>1. CASE Valid(old)
    <3>1. count' = [n EXCEPT ![old] = @ - 1] /\ old \in Inos
      BY <2>1 DEF PutUnstarted, Valid, CacheType
    <3> QED
      BY <3>1
  <2>2. CASE ~Valid(old)
    BY <2>2 DEF PutUnstarted
  <2> QED
    BY <2>1, <2>2
<1> QED
  BY <1>1 DEF PutUnstarted

\* A creation fails; the client's cache loses an inode and pages of it go.
LEMMA MakeErrInv ==
    ASSUME NameiInv, NEW d \in Dents, MakeErr(d)
    PROVE  NameiInv'
<1> USE DEF NameiInv
<1>1. UNCHANGED <<disk, dentry, inode, idle, stray, dcount, oops>> /\ (UNCHANGED faults \/ Fault)
  BY DEF MakeErr, Refused
<1>2. PICK o \in Objs : PutUnstarted(iclient[o], {}, count)
  BY DEF MakeErr
<1>3. count' \in [Inos -> Int] /\ mem' \subseteq mem \cup {}
  BY <1>2, PutUnstartedType DEF CacheType
<1>4. faults' \in 0 .. MaxFaults /\ faults' >= faults
  BY <1>1, FaultCounts DEF CacheType
<1>5. CacheType'
  BY <1>1, <1>3, <1>4 DEF CacheType
<1>6. stray' \in BOOLEAN /\ oops' \in BOOLEAN
  BY <1>1 DEF FlagType
<1> QED
  BY <1>1, <1>3, <1>4, <1>5, <1>6, CacheStep

\* An unused client dentry or a client inode leaves memory.
LEMMA CacheSteps ==
    ASSUME NameiInv, NEW i \in Inos, ShrinkDentry(i) \/ PruneInode(i)
    PROVE  NameiInv'
<1> USE DEF NameiInv
<1>1. UNCHANGED <<disk, dentry, inode, stray, dcount, oops, faults>>
  BY DEF ShrinkDentry, PruneInode
<1>2. CASE ShrinkDentry(i)
  <2>1. mem' \subseteq mem
    BY <1>2 DEF ShrinkDentry, PutClient
  <2>2. CacheType'
    BY <1>1, <1>2, <2>1, Bounds DEF CacheType, ShrinkDentry, PutClient
  <2>3. faults' >= faults
    BY <1>1 DEF CacheType
  <2>4. stray' \in BOOLEAN /\ oops' \in BOOLEAN
    BY <1>1 DEF FlagType
  <2> QED
    BY <1>1, <2>1, <2>2, <2>3, <2>4, CacheStep
<1>3. CASE PruneInode(i)
  <2>1. mem' \subseteq mem /\ CacheType' /\ faults' >= faults
    BY <1>1, <1>3 DEF PruneInode, CacheType
  <2>2. stray' \in BOOLEAN /\ oops' \in BOOLEAN
    BY <1>1 DEF FlagType
  <2> QED
    BY <1>1, <2>1, <2>2, CacheStep
<1> QED
  BY <1>2, <1>3

\* Attributes are copied up to the inode of d, from its client inode or from a
\* continuation.
LEMMA CopyUpStep ==
    ASSUME NameiInv, NEW d \in Dents, NEW nl \in Nat, Live(dinode[d]),
           CopyUp(dinode[d], nl), DiskType', FlagType',
           UNCHANGED <<entry, nlink, kind, life, linked, dst, dname, dinode, dclient,
                       icount, iclient, mem, count, idle, dcount, faults>>,
           \A j \in Inos : cont'[j] = {} => cont[j] = {},
           \/ nl = nlink[dclient[d]]
           \/ cont'[dclient[d]] # {} /\ kind[dclient[d]] # "blk"
    PROVE  NameiInv'
<1> USE DEF NameiInv
<1> DEFINE o == dinode[d]
<1>1. o \in Objs /\ icount[o] > 0 /\ iclient[o] = dclient[d]
  BY DEF Paired, Live
<1>2. /\ inlink'[o] = nl /\ \A p \in Objs \ {o} : inlink'[p] = inlink[p]
      /\ inlink' \in [Objs -> Nat]
      /\ idirty' = IF kind[iclient[o]] = "blk" THEN idirty \cup {o} ELSE idirty
  BY <1>1 DEF CopyUp, Dirty, InodeType
<1>3. InodeType' /\ CacheType'
  BY <1>1, <1>2 DEF InodeType, CacheType
<1>4. DentryType'
  BY DEF DentryType
<1>5. Born' /\ OneName' /\ NamesCounted' /\ Blank' /\ Unique' /\ NameTruth'
  BY DEF Born, OneName, NamesCounted, Blank, Unique, NameTruth
<1>6. Paired' /\ Started' /\ Sole' /\ Nameless' /\ OneInode'
  BY DEF Paired, Started, Sole, Nameless, OneInode, Live
<1>7. Fresh'
  <2> SUFFICES ASSUME NEW p \in Objs, icount[p] > 0, iclient[p] \in mem,
                      iclient[p] \notin linked,
                      cont'[iclient[p]] = {} \/ kind[iclient[p]] = "blk"
               PROVE  inlink'[p] = nlink[iclient[p]]
    BY DEF Fresh
  <2>1. CASE p = o
    BY <2>1, <1>1, <1>2
  <2>2. CASE p # o
    <3>1. iclient[p] \in Inos
      BY DEF CacheType
    <3> QED
      BY <2>2, <3>1, <1>2 DEF Fresh
  <2> QED
    BY <2>1, <2>2
<1>8. DirtyBlk'
  BY <1>1, <1>2 DEF DirtyBlk
<1> QED
  BY <1>3, <1>4, <1>5, <1>6, <1>7, <1>8

\* chunkfs_open.
LEMMA OpenInv ==
    ASSUME NameiInv, NEW d \in Dents, Open(d)
    PROVE  NameiInv'
<1> USE DEF NameiInv
<1> DEFINE i == dclient[d]
           o == dinode[d]
<1>1. /\ UNCHANGED <<disk, dst, dname, dinode, dclient, icount, iclient, client,
                      dcount, oops, faults>>
      /\ Live(o) /\ i \in Inos
  BY DEF Open, Usable, Sound, Valid, CacheType
<1>2. FlagType'
  <2>1. dopen' \in [Dents -> BOOLEAN]
    BY DEF Open, FlagType
  <2>2. dleak' \in [Dents -> BOOLEAN]
    BY DEF Open, FlagType
  <2> QED
    BY <1>1, <2>1, <2>2 DEF FlagType, client
<1>3. DiskType' /\ nlink[i] \in Nat
  BY <1>1 DEF DiskType, disk
<1>4. CASE kind[i] # "blk"
  BY <1>1, <1>2, <1>3, <1>4, CopyUpStep DEF Open, disk, client
<1>5. CASE kind[i] = "blk"
  <2>1. UNCHANGED <<disk, dst, dname, dinode, dclient, inode, client, dcount, oops, faults>>
    BY <1>1, <1>5 DEF Open, inode
  <2> USE DEF disk, inode, client
  <2>2. DentryType' /\ InodeType' /\ CacheType'
    BY <2>1 DEF DentryType, InodeType, CacheType
  <2>3. Born' /\ OneName' /\ NamesCounted' /\ Blank' /\ Unique' /\ NameTruth'
    BY <2>1 DEF Born, OneName, NamesCounted, Blank, Unique, NameTruth
  <2>4. Paired' /\ Started' /\ Sole' /\ Nameless' /\ OneInode'
    BY <2>1 DEF Paired, Started, Sole, Nameless, OneInode, Live
  <2>5. Fresh' /\ DirtyBlk'
    BY <2>1 DEF Fresh, DirtyBlk
  <2> QED
    BY <1>2, <1>3, <2>2, <2>3, <2>4, <2>5
<1> QED
  BY <1>4, <1>5

\* chunkfs_setattr, and the write that extends a file.
LEMMA AttrSteps ==
    ASSUME NameiInv, NEW d \in Dents, Setattr(d) \/ Extend(d)
    PROVE  NameiInv'
<1> USE DEF NameiInv
<1> DEFINE i == dclient[d]
           o == dinode[d]
<1>1. Live(o) /\ i \in mem /\ i \in Inos
  BY DEF Setattr, Extend, Usable, Sound, Valid, CacheType
<1>2. nlink[i] \in Nat /\ life[i] \in 1 .. MaxLife
  BY <1>1 DEF DiskType, Born
<1>3. FlagType'
  BY DEF Setattr, Extend, FlagType, dentry, client
<1>4. CASE Setattr(d)
  <2>1. DiskType'
    BY <1>4 DEF Setattr, DiskType, disk
  <2> QED
    BY <1>1, <1>2, <1>3, <1>4, <2>1, CopyUpStep DEF Setattr, disk, dentry, client
<1>5. CASE Extend(d)
  <2>1. cont' = [cont EXCEPT ![i] = @ \cup {life[i]}] /\ next' = next \cup {i}
    BY <1>5 DEF Extend
  <2>2. cont'[i] # {} /\ \A j \in Inos : cont'[j] = {} => cont[j] = {}
    BY <1>1, <2>1 DEF DiskType
  <2>3. DiskType'
    <3>1. cont' \in [Inos -> SUBSET (1 .. MaxLife)]
      BY <1>1, <1>2, <2>1 DEF DiskType
    <3> QED
      BY <1>1, <1>5, <2>1, <3>1 DEF DiskType, Extend
  <2>4. kind[i] # "blk"
    BY <1>5 DEF Extend
  <2> QED
    BY <1>1, <1>3, <1>5, <2>2, <2>3, <2>4, CopyUpStep DEF Extend, dentry, client
<1> QED
  BY <1>4, <1>5

\* chunkfs_write_inode of a special file: with one name it writes the count
\* that is there.
LEMMA WriteInodeInv ==
    ASSUME NameiInv, NEW o \in Objs, WriteInode(o)
    PROVE  NameiInv'
<1> USE DEF NameiInv
<1> DEFINE i == iclient[o]
<1>1. /\ UNCHANGED <<entry, kind, life, linked, next, cont, dentry, icount, iclient, inlink,
                      client, dcount, oops, faults>>
      /\ nlink' = [nlink EXCEPT ![i] = inlink[o]] /\ idirty' = idirty \ {o}
      /\ o \in idirty /\ icount[o] > 0 /\ i \in mem /\ i \in Inos
  BY DEF WriteInode, Live, Valid, CacheType
<1>2. kind[i] = "blk"
  BY <1>1 DEF DirtyBlk
<1>3. i \notin linked => nlink' = nlink
  <2> SUFFICES ASSUME i \notin linked PROVE nlink' = nlink
    OBVIOUS
  <2>1. inlink[o] = nlink[i]
    BY <1>1, <1>2 DEF Fresh
  <2> QED
    BY <1>1, <2>1 DEF DiskType
<1>4. \A j \in Inos \ {i} : nlink'[j] = nlink[j]
  BY <1>1 DEF DiskType
<1>5. DiskType' /\ InodeType'
  BY <1>1 DEF DiskType, InodeType
<1>6. DentryType' /\ CacheType'
  BY <1>1 DEF DentryType, CacheType, dentry, client
<1>7. FlagType'
  BY <1>1 DEF FlagType, dentry, client
<1>8. Born' /\ OneName' /\ Blank' /\ Unique' /\ NameTruth'
  BY <1>1 DEF Born, OneName, Blank, Unique, NameTruth, dentry, client
<1>9. Paired' /\ Started' /\ Sole' /\ Nameless' /\ OneInode'
  BY <1>1 DEF Paired, Started, Sole, Nameless, OneInode, Live, dentry
<1>10. Fresh'
  <2> SUFFICES ASSUME NEW p \in Objs, icount[p] > 0, iclient[p] \in mem,
                      iclient[p] \notin linked,
                      cont[iclient[p]] = {} \/ kind[iclient[p]] = "blk"
               PROVE  inlink[p] = nlink'[iclient[p]]
    BY <1>1 DEF Fresh, client
  <2>1. nlink'[iclient[p]] = nlink[iclient[p]]
    BY <1>3, <1>4 DEF CacheType
  <2> QED
    BY <2>1 DEF Fresh
<1>11. DirtyBlk'
  BY <1>1 DEF DirtyBlk
<1>12. NamesCounted'
  <2> SUFFICES ASSUME NEW j \in Inos, j \notin linked \/ (kind[j] # "blk" /\ life[j] = 1)
               PROVE  nlink'[j] = nlink[j]
    BY <1>1 DEF NamesCounted
  <2> QED
    BY <1>2, <1>3, <1>4
<1> QED
  BY <1>5, <1>6, <1>7, <1>8, <1>9, <1>10, <1>11, <1>12

\* Dentry d gives up its inode.  If that had one name it is the last reference.
LEMMA Detach ==
    ASSUME NameiInv, NEW d \in Dents, NEW nl, Live(dinode[d]),
           dinode' = [dinode EXCEPT ![d] = None], PutInode(dinode[d], nl),
           UNCHANGED <<kind, linked, cont, iclient>>,
           \A e \in Dents \ {d} : dst'[e] = dst[e] /\ dclient'[e] = dclient[e],
           \A n \in Names : entry'[n] \in {entry[n], None},
           \A j \in Inos : j # iclient[dinode[d]] => nlink'[j] = nlink[j]
    PROVE  /\ InodeType' /\ dinode' \in [Dents -> Objs \cup {None, Gone}]
           /\ mem' \subseteq mem /\ count' \in [Inos -> Int]
           /\ Paired' /\ Started' /\ Sole' /\ Nameless' /\ OneInode' /\ Fresh' /\ DirtyBlk'
<1> USE DEF NameiInv
<1> DEFINE o == dinode[d]
           i == iclient[o]
<1>1. o \in Objs /\ icount[o] \in Nat /\ icount[o] > 0 /\ i = dclient[d]
  BY DEF Paired, Live, InodeType
<1>2. /\ icount'[o] = icount[o] - 1 /\ icount' \in [Objs -> Nat]
      /\ \A p \in Objs \ {o} : icount'[p] = icount[p]
      /\ dinode' \in [Dents -> Objs \cup {None, Gone}]
      /\ dinode'[d] = None /\ \A e \in Dents \ {d} : dinode'[e] = dinode[e]
  BY <1>1 DEF PutInode, InodeType, DentryType
<1>3. /\ \A p \in Objs \ {o} : inlink'[p] = inlink[p]
      /\ inlink' \in [Objs -> Nat] /\ idirty' \subseteq idirty
      /\ icount[o] = 1 => o \notin idirty'
  BY <1>1 DEF PutInode, InodeType
<1>4. mem' \subseteq mem /\ count' \in [Inos -> Int]
  <2>1. CASE icount[o] = 1
    <3>1. count' = [count EXCEPT ![i] = @ - 1] /\ mem' \subseteq mem
      BY <2>1 DEF PutInode, PutClient
    <3>2. CASE i \in Inos
      BY <3>1, <3>2 DEF CacheType
    <3>3. CASE i \notin Inos
      BY <3>1, <3>3 DEF CacheType
    <3> QED
      BY <3>1, <3>2, <3>3
  <2>2. CASE icount[o] # 1
    BY <2>2 DEF PutInode, CacheType
  <2> QED
    BY <2>1, <2>2
<1>5. icount'[o] > 0 => i \in linked \cup {Gone}
  BY <1>1, <1>2 DEF Sole
<1>6. \A p \in Objs \ {o} : icount[p] > 0 /\ iclient[p] = i => i \in linked \cup {Gone}
  BY <1>1 DEF OneInode, Live
<1> HIDE DEF o, i
<1>7. InodeType'
  BY <1>2, <1>3 DEF InodeType
<1>8. \A p \in Objs : icount'[p] > 0 => icount[p] > 0
  BY <1>1, <1>2
<1>9. Paired'
  <2> SUFFICES ASSUME NEW e \in Dents, dinode'[e] \in Objs, icount'[dinode'[e]] > 0
               PROVE  dclient'[e] = iclient[dinode'[e]]
    BY DEF Paired, Live
  <2>1. e # d /\ dinode'[e] = dinode[e]
    BY <1>2, Points
  <2> QED
    BY <2>1, <1>8 DEF Paired, Live
<1>10. Started' /\ OneInode'
  BY <1>8 DEF Started, OneInode, Live
<1>11. Sole'
  <2> SUFFICES ASSUME NEW p \in Objs, icount'[p] > 0, iclient[p] \notin linked \cup {Gone}
               PROVE  /\ icount'[p] = 1
                      /\ \E e \in Dents : dinode'[e] = p
                      /\ \A e, f \in Dents : dinode'[e] = p /\ dinode'[f] = p => e = f
    BY DEF Sole
  <2>1. p # o
    BY <1>5 DEF i
  <2>2. \A e \in Dents : dinode'[e] = p <=> dinode[e] = p
    BY <2>1, <1>2, Points DEF o
  <2>3. /\ icount[p] = 1
        /\ \E e \in Dents : dinode[e] = p
        /\ \A e, f \in Dents : dinode[e] = p /\ dinode[f] = p => e = f
    BY <1>8 DEF Sole
  <2> QED
    BY <1>2, <2>1, <2>2, <2>3
<1>12. Nameless'
  <2> SUFFICES ASSUME NEW e \in Dents, NEW n \in Names, dst'[e] = "dropped",
                      dinode'[e] \in Objs, icount'[dinode'[e]] > 0,
                      dclient'[e] \notin linked \cup {Gone}
               PROVE  entry'[n] # dclient'[e]
    BY DEF Nameless, Live
  <2>1. e # d /\ dinode'[e] = dinode[e]
    BY <1>2, Points
  <2>2. dclient'[e] = dclient[e] /\ dst[e] = "dropped" /\ icount[dinode[e]] > 0
    BY <2>1, <1>8
  <2>3. dclient[e] = iclient[dinode[e]] /\ dclient[e] # None
    BY <2>1, <2>2 DEF Paired, Live, Started
  <2>4. entry[n] # dclient[e]
    BY <2>1, <2>2 DEF Nameless, Live
  <2> QED
    BY <2>2, <2>3, <2>4
<1>13. Fresh'
  <2> SUFFICES ASSUME NEW p \in Objs, icount'[p] > 0, iclient[p] \in mem',
                      iclient[p] \notin linked,
                      cont[iclient[p]] = {} \/ kind[iclient[p]] = "blk"
               PROVE  inlink'[p] = nlink'[iclient[p]]
    BY DEF Fresh
  <2>1. iclient[p] \in mem /\ iclient[p] \in Inos /\ iclient[p] # Gone
    BY <1>4, Points DEF CacheType
  <2>2. p # o /\ iclient[p] # i
    BY <2>1, <1>5, <1>6, <1>8 DEF i
  <2>3. nlink'[iclient[p]] = nlink[iclient[p]] /\ inlink'[p] = inlink[p]
    BY <2>1, <2>2, <1>3 DEF i, o
  <2> QED
    BY <2>1, <2>3, <1>8 DEF Fresh
<1>14. DirtyBlk'
  <2> SUFFICES ASSUME NEW p \in idirty'
               PROVE  icount'[p] > 0 /\ (iclient[p] \in Inos => kind[iclient[p]] = "blk")
    BY DEF DirtyBlk
  <2>1. p \in idirty /\ p \in Objs
    BY <1>3 DEF InodeType
  <2>2. icount'[p] > 0
    BY <2>1, <1>1, <1>2, <1>3 DEF DirtyBlk
  <2> QED
    BY <2>1, <2>2 DEF DirtyBlk
<1> QED
  BY <1>2, <1>4, <1>7, <1>9, <1>10, <1>11, <1>12, <1>13, <1>14

\* The VFS frees a dentry, with its reference to the inode.
LEMMA KillInv ==
    ASSUME NameiInv, NEW d \in Dents, dst[d] # "free", Kill(d)
    PROVE  NameiInv'
<1> USE DEF NameiInv
<1>0. UNCHANGED <<disk, iclient, dcount, oops, faults>>
  BY DEF Kill
<1>1. /\ dst' = [dst EXCEPT ![d] = "free"] /\ dname' = [dname EXCEPT ![d] = None]
      /\ dinode' = [dinode EXCEPT ![d] = None] /\ dclient' = [dclient EXCEPT ![d] = None]
  BY DEF Kill
<1>2. /\ dst'[d] = "free" /\ dname'[d] = None /\ dinode'[d] = None /\ dclient'[d] = None
      /\ \A e \in Dents \ {d} : /\ dst'[e] = dst[e] /\ dname'[e] = dname[e]
                                /\ dinode'[e] = dinode[e] /\ dclient'[e] = dclient[e]
  BY <1>1 DEF DentryType
<1>3. DiskType' /\ DentryType'
  BY <1>0, <1>1 DEF DiskType, DentryType, disk
<1>4. FlagType'
  <2>1. stray' \in BOOLEAN
    <3>1. \/ stray' = stray
          \/ stray' = (stray \/ (~dleak[d] /\ dclient[d] = Gone))
      BY DEF Kill
    <3>2. (stray \/ (~dleak[d] /\ dclient[d] = Gone)) \in BOOLEAN
      BY Zenon
    <3>3. stray \in BOOLEAN
      BY DEF FlagType
    <3> QED
      BY <3>1, <3>2, <3>3, Zenon
  <2>2. dleak' \in [Dents -> BOOLEAN]
    BY DEF Kill, FlagType
  <2>3. dopen' \in [Dents -> BOOLEAN]
    BY DEF Kill, FlagType
  <2> QED
    BY <1>0, <2>1, <2>2, <2>3 DEF FlagType
<1>5. idle' \in [Inos -> 0 .. MaxIdle]
  <2>1. CASE UNCHANGED idle
    BY <2>1 DEF CacheType
  <2>2. CASE dclient[d] \in Inos /\ idle[dclient[d]] < MaxIdle
             /\ idle' = [idle EXCEPT ![dclient[d]] = @ + 1]
    BY <2>2, Bounds DEF CacheType
  <2> QED
    BY <2>1, <2>2 DEF Kill
<1>6. /\ InodeType' /\ mem' \subseteq mem /\ count' \in [Inos -> Int]
      /\ Paired' /\ Started' /\ Sole' /\ Nameless' /\ OneInode' /\ Fresh' /\ DirtyBlk'
  <2>1. CASE dinode[d] = None
    <3>1. UNCHANGED <<icount, inlink, idirty, mem, count>>
      BY <2>1, Points DEF Kill, Live
    <3>2. dinode' = dinode
      BY <2>1, <1>1 DEF DentryType
    <3>3. InodeType' /\ mem' \subseteq mem /\ count' \in [Inos -> Int]
      BY <1>0, <3>1 DEF InodeType, CacheType
    <3>4. Paired'
      BY <1>0, <1>2, <2>1, <3>1, <3>2, Points DEF Paired, Live
    <3>5. Nameless'
      BY <1>0, <1>2, <2>1, <3>1, <3>2, Points DEF Nameless, Live, disk
    <3>6. Started' /\ Sole' /\ OneInode'
      BY <1>0, <3>1, <3>2 DEF Started, Sole, OneInode, Live, disk
    <3>7. Fresh' /\ DirtyBlk'
      BY <1>0, <3>1 DEF Fresh, DirtyBlk, disk
    <3> QED
      BY <3>3, <3>4, <3>5, <3>6, <3>7
  <2>2. CASE dinode[d] # None
    <3>1. Live(dinode[d]) /\ PutInode(dinode[d], nlink)
      BY <2>2 DEF Kill
    <3> QED
      BY <1>0, <1>1, <1>2, <3>1, Detach DEF disk
  <2> QED
    BY <2>1, <2>2
<1>7. CacheType'
  BY <1>0, <1>5, <1>6 DEF CacheType
<1>8. Born' /\ OneName' /\ NamesCounted'
  BY <1>0, <1>6 DEF Born, OneName, NamesCounted, disk
<1>9. Blank' /\ Unique'
  BY <1>2 DEF Blank, Unique
<1>10. NameTruth'
  BY <1>0, <1>2 DEF NameTruth, disk
<1> QED
  BY <1>3, <1>4, <1>6, <1>7, <1>8, <1>9, <1>10

\* The last close, of a file that keeps its dentry or of a deleted one, and a
\* dentry that is reclaimed.
LEMMA CloseInv ==
    ASSUME NameiInv, NEW d \in Dents, Close(d) \/ Reclaim(d)
    PROVE  NameiInv'
<1> USE DEF NameiInv
<1>1. CASE Kill(d) /\ dst[d] # "free"
  BY <1>1, KillInv
<1>2. CASE dopen' = [dopen EXCEPT ![d] = FALSE]
           /\ UNCHANGED <<disk, dst, dname, dinode, dclient, dleak, inode, client, dcount,
                          oops, faults>>
  <2> USE <1>2 DEF disk, inode, client
  <2>1. DiskType' /\ DentryType' /\ InodeType' /\ CacheType'
    BY DEF DiskType, DentryType, InodeType, CacheType
  <2>2. FlagType'
    BY DEF FlagType
  <2>3. Born' /\ OneName' /\ NamesCounted' /\ Blank' /\ Unique' /\ NameTruth'
    BY DEF Born, OneName, NamesCounted, Blank, Unique, NameTruth
  <2>4. Paired' /\ Started' /\ Sole' /\ Nameless' /\ OneInode'
    BY DEF Paired, Started, Sole, Nameless, OneInode, Live
  <2>5. Fresh' /\ DirtyBlk'
    BY DEF Fresh, DirtyBlk
  <2> QED
    BY <2>1, <2>2, <2>3, <2>4, <2>5
<1> QED
  BY <1>1, <1>2 DEF Close, Reclaim

\* The client removes a name x of inode i.
LEMMA RemovesDisk ==
    ASSUME NameiInv, NEW x \in Names, NEW i \in Inos, entry[x] = i, nlink[i] > 0,
           entry' = [entry EXCEPT ![x] = None], nlink' = [nlink EXCEPT ![i] = @ - 1],
           UNCHANGED <<kind, life, linked, next, cont>>
    PROVE  DiskType' /\ OneName' /\ NamesCounted'
<1> USE DEF NameiInv
<1>1. /\ entry'[x] = None /\ \A n \in Names \ {x} : entry'[n] = entry[n]
      /\ nlink[i] \in Nat /\ nlink'[i] = nlink[i] - 1
      /\ \A j \in Inos \ {i} : nlink'[j] = nlink[j]
  BY DEF DiskType
<1>2. DiskType'
  BY <1>1 DEF DiskType
<1>3. OneName'
  BY <1>1 DEF OneName
<1>4. NamesCounted'
  <2> SUFFICES ASSUME NEW j \in Inos, j \notin linked \/ (kind[j] # "blk" /\ life[j] = 1)
               PROVE  nlink'[j] = Cardinality(NamesOf(j)')
    BY DEF NamesCounted, NamesOf
  <2>1. nlink[j] = Cardinality(NamesOf(j))
    BY DEF NamesCounted, NamesOf
  <2>2. CASE j = i
    <3>1. NamesOf(i)' = NamesOf(i) \ {x} /\ x \in NamesOf(i)
      BY <1>1, Points DEF NamesOf
    <3>2. Cardinality(NamesOf(i) \ {x}) = Cardinality(NamesOf(i)) - 1
      BY <3>1, NamesFinite, FS_RemoveElement
    <3> QED
      BY <1>1, <2>1, <2>2, <3>1, <3>2
  <2>3. CASE j # i
    <3>1. NamesOf(j)' = NamesOf(j)
      BY <1>1, <2>3, Points DEF NamesOf
    <3> QED
      BY <1>1, <2>1, <2>3, <3>1
  <2> QED
    BY <2>2, <2>3
<1> QED
  BY <1>2, <1>3, <1>4

\* The inode of a dentry that a call can go through.
LEMMA PositiveInode ==
    ASSUME NameiInv, NEW d \in Dents, Positive(d)
    PROVE  /\ dst[d] = "hashed" /\ dinode[d] \in Objs /\ icount[dinode[d]] > 0
           /\ dclient[d] \in Inos /\ dclient[d] \in mem /\ iclient[dinode[d]] = dclient[d]
           /\ dname[d] \in Names /\ entry[dname[d]] = dclient[d]
<1> USE DEF NameiInv
<1>1. /\ dst[d] = "hashed" /\ dinode[d] \in Objs /\ icount[dinode[d]] > 0
      /\ dclient[d] \in mem /\ dclient[d] \in Inos
  BY DEF Positive, Sound, Valid, Live, CacheType
<1>2. iclient[dinode[d]] = dclient[d] /\ dname[d] \in Names
  BY <1>1 DEF Paired, Live, Blank
<1>3. entry[dname[d]] = dclient[d]
  BY <1>1, Points DEF NameTruth
<1> QED
  BY <1>1, <1>2, <1>3

\* The name goes; the inode stays for the open file.
LEMMA DropInv ==
    ASSUME NameiInv, NEW d \in Dents, NEW o \in Objs, NEW i \in Inos,
           o = dinode[d], i = dclient[d], iclient[o] = i, icount[o] > 0,
           dname[d] \in Names, entry[dname[d]] = i, nlink[i] > 0,
           CopyUp(o, nlink[i] - 1), dst' = [dst EXCEPT ![d] = "dropped"],
           entry' = [entry EXCEPT ![dname[d]] = None],
           nlink' = [nlink EXCEPT ![i] = @ - 1],
           UNCHANGED <<kind, linked, cont, dinode, dclient, icount, iclient, mem>>
    PROVE  /\ InodeType'
           /\ Paired' /\ Started' /\ Sole' /\ Nameless' /\ OneInode' /\ Fresh' /\ DirtyBlk'
<1> USE DEF NameiInv
<1>1. /\ entry'[dname[d]] = None /\ \A n \in Names \ {dname[d]} : entry'[n] = entry[n]
      /\ nlink[i] \in Nat /\ nlink'[i] = nlink[i] - 1
      /\ \A j \in Inos \ {i} : nlink'[j] = nlink[j]
      /\ \A e \in Dents \ {d} : dst'[e] = dst[e]
  BY DEF DiskType, DentryType
<1>2. /\ inlink'[o] = nlink'[i] /\ \A p \in Objs \ {o} : inlink'[p] = inlink[p]
      /\ inlink' \in [Objs -> Nat]
      /\ idirty' = IF kind[i] = "blk" THEN idirty \cup {o} ELSE idirty
  BY <1>1 DEF CopyUp, Dirty, InodeType
<1>3. InodeType'
  BY <1>2 DEF InodeType
<1>4. Paired' /\ Started' /\ Sole' /\ OneInode'
  BY DEF Paired, Started, Sole, OneInode, Live
<1>5. Nameless'
  <2> SUFFICES ASSUME NEW e \in Dents, NEW n \in Names, dst'[e] = "dropped",
                      dinode[e] \in Objs, icount[dinode[e]] > 0,
                      dclient[e] \notin linked \cup {Gone}
               PROVE  entry'[n] # dclient[e]
    BY DEF Nameless, Live
  <2>1. dclient[e] # None
    BY DEF Paired, Live, Started
  <2>2. CASE e = d
    BY <1>1, <2>1, <2>2 DEF OneName
  <2>3. CASE e # d
    <3>1. entry[n] # dclient[e]
      BY <1>1, <2>3 DEF Nameless, Live
    <3> QED
      BY <1>1, <2>1, <3>1
  <2> QED
    BY <2>2, <2>3
<1>6. Fresh'
  <2> SUFFICES ASSUME NEW p \in Objs, icount[p] > 0, iclient[p] \in mem,
                      iclient[p] \notin linked,
                      cont[iclient[p]] = {} \/ kind[iclient[p]] = "blk"
               PROVE  inlink'[p] = nlink'[iclient[p]]
    BY DEF Fresh
  <2>1. CASE p = o
    BY <1>2, <2>1
  <2>2. CASE p # o
    <3>1. iclient[p] \in Inos \ {i}
      BY <2>2, Points DEF OneInode, Live, CacheType
    <3> QED
      BY <1>1, <1>2, <2>2, <3>1 DEF Fresh
  <2> QED
    BY <2>1, <2>2
<1>7. DirtyBlk'
  BY <1>2 DEF DirtyBlk
<1> QED
  BY <1>3, <1>4, <1>5, <1>6, <1>7

\* chunkfs_unlink and chunkfs_rmdir.
LEMMA RemoveInv ==
    ASSUME NameiInv, NEW d \in Dents, Remove(d)
    PROVE  NameiInv'
<1> USE DEF NameiInv
<1> DEFINE i == dclient[d]
           o == dinode[d]
           x == dname[d]
<1>0. UNCHANGED <<kind, life, linked, next, cont, dname, dclient, dleak, dopen, iclient,
                  idle, stray, dcount, oops, faults>>
  BY DEF Remove
<1>1. /\ dst[d] = "hashed" /\ o \in Objs /\ icount[o] > 0
      /\ i \in Inos /\ i \in mem /\ iclient[o] = i /\ x \in Names /\ entry[x] = i
  BY PositiveInode DEF Remove
<1>2. /\ nlink[i] > 0 /\ entry' = [entry EXCEPT ![x] = None]
      /\ nlink' = [nlink EXCEPT ![i] = @ - 1]
  BY DEF Remove
<1>3. DiskType' /\ OneName' /\ NamesCounted'
  BY <1>0, <1>1, <1>2, RemovesDisk
<1>4. /\ entry'[x] = None /\ \A n \in Names \ {x} : entry'[n] = entry[n]
      /\ \A j \in Inos \ {i} : nlink'[j] = nlink[j]
  BY <1>1, <1>2 DEF DiskType
<1>5. /\ InodeType' /\ DentryType' /\ mem' \subseteq mem /\ count' \in [Inos -> Int]
      /\ Paired' /\ Started' /\ Sole' /\ Nameless' /\ OneInode' /\ Fresh' /\ DirtyBlk'
      /\ Blank' /\ Unique' /\ NameTruth'
  <2>1. ASSUME NEW e \in Dents \ {d}, dst[e] = "hashed"
        PROVE  entry'[dname[e]] = entry[dname[e]]
    BY <1>1, <1>4, <2>1, OtherName
  <2>2. CASE /\ dinode' = [dinode EXCEPT ![d] = None]
             /\ PutInode(o, nlink') /\ UNCHANGED dst
    <3>1. /\ InodeType' /\ dinode' \in [Dents -> Objs \cup {None, Gone}]
          /\ mem' \subseteq mem /\ count' \in [Inos -> Int]
          /\ Paired' /\ Started' /\ Sole' /\ Nameless' /\ OneInode' /\ Fresh' /\ DirtyBlk'
      BY <1>0, <1>1, <1>4, <2>2, Detach DEF Live
    <3>2. dinode'[d] = None /\ \A e \in Dents \ {d} : dinode'[e] = dinode[e]
      BY <2>2 DEF DentryType
    <3>3. DentryType'
      BY <1>0, <2>2, <3>1 DEF DentryType
    <3>4. Blank' /\ Unique'
      BY <1>0, <1>1, <2>2, <3>2 DEF Blank, Unique
    <3>5. NameTruth'
      BY <1>0, <1>4, <2>1, <2>2, <3>2 DEF NameTruth
    <3> QED
      BY <3>1, <3>3, <3>4, <3>5
  <2>3. CASE /\ CopyUp(o, nlink[i] - 1) /\ dst' = [dst EXCEPT ![d] = "dropped"]
             /\ UNCHANGED <<dinode, icount, mem, count>>
    <3>1. /\ InodeType'
          /\ Paired' /\ Started' /\ Sole' /\ Nameless' /\ OneInode' /\ Fresh' /\ DirtyBlk'
      BY <1>0, <1>1, <1>2, <2>3, DropInv
    <3>2. dst'[d] = "dropped" /\ \A e \in Dents \ {d} : dst'[e] = dst[e]
      BY <2>3 DEF DentryType
    <3>3. DentryType' /\ mem' \subseteq mem /\ count' \in [Inos -> Int]
      BY <1>0, <2>3 DEF DentryType, CacheType
    <3>4. Blank' /\ Unique'
      BY <1>0, <1>1, <2>3, <3>2 DEF Blank, Unique
    <3>5. NameTruth'
      BY <1>0, <2>1, <2>3, <3>2 DEF NameTruth
    <3> QED
      BY <3>1, <3>3, <3>4, <3>5
  <2> QED
    BY <2>2, <2>3 DEF Remove
<1>6. CacheType'
  BY <1>0, <1>5 DEF CacheType
<1>7. FlagType'
  BY <1>0 DEF FlagType
<1>8. Born'
  BY <1>0, <1>4, <1>5 DEF Born
<1> QED
  BY <1>3, <1>5, <1>6, <1>7, <1>8

\* The client gives inode i another name x.
LEMMA LinksDisk ==
    ASSUME NameiInv, NEW x \in Names, NEW i \in Inos, entry[x] = None, life[i] >= 1,
           entry' = [entry EXCEPT ![x] = i], nlink' = [nlink EXCEPT ![i] = @ + 1],
           linked' = linked \cup {i}, UNCHANGED <<kind, life, next, cont>>
    PROVE  /\ DiskType' /\ OneName' /\ NamesCounted'
           /\ \A n \in Names : entry'[n] # None => life'[entry'[n]] >= 1
<1> USE DEF NameiInv
<1>1. /\ entry'[x] = i /\ \A n \in Names \ {x} : entry'[n] = entry[n]
      /\ nlink[i] \in Nat /\ nlink'[i] = nlink[i] + 1
      /\ \A j \in Inos \ {i} : nlink'[j] = nlink[j]
  BY DEF DiskType
<1>2. DiskType'
  BY <1>1 DEF DiskType
<1>3. OneName'
  BY <1>1 DEF OneName
<1>4. NamesCounted'
  <2> SUFFICES ASSUME NEW j \in Inos, j \notin linked' \/ (kind[j] # "blk" /\ life[j] = 1)
               PROVE  nlink'[j] = Cardinality(NamesOf(j)')
    BY DEF NamesCounted, NamesOf
  <2>1. nlink[j] = Cardinality(NamesOf(j))
    BY DEF NamesCounted, NamesOf
  <2>2. CASE j = i
    <3>1. NamesOf(i)' = NamesOf(i) \cup {x} /\ x \notin NamesOf(i)
      BY <1>1, Points DEF NamesOf
    <3>2. Cardinality(NamesOf(i) \cup {x}) = Cardinality(NamesOf(i)) + 1
      BY <3>1, NamesFinite, FS_AddElement
    <3> QED
      BY <1>1, <2>1, <2>2, <3>1, <3>2
  <2>3. CASE j # i
    <3>1. NamesOf(j)' = NamesOf(j)
      BY <1>1, <2>3, Points DEF NamesOf
    <3> QED
      BY <1>1, <2>1, <2>3, <3>1
  <2> QED
    BY <2>2, <2>3
<1>5. \A n \in Names : entry'[n] # None => life'[entry'[n]] >= 1
  BY <1>1 DEF Born
<1> QED
  BY <1>2, <1>3, <1>4, <1>5

\* chunkfs_link: from here on the history excuses the inode's counts.
LEMMA LinkInv ==
    ASSUME NameiInv, NEW d \in Dents, NEW e \in Dents, Link(d, e)
    PROVE  NameiInv'
<1> USE DEF NameiInv
<1> DEFINE i == dclient[d]
           o == dinode[d]
           x == dname[e]
<1>0. UNCHANGED <<kind, life, next, cont, dst, dname, dleak, dopen, icount, iclient,
                  mem, idle, stray, oops, faults>>
  BY DEF Link
<1>1. /\ dst[d] = "hashed" /\ o \in Objs /\ icount[o] > 0
      /\ i \in Inos /\ i \in mem /\ iclient[o] = i
  BY PositiveInode DEF Link
<1>2. /\ dst[e] = "hashed" /\ dinode[e] = None /\ dclient[e] = None /\ entry[x] = None
      /\ x \in Names
  BY DEF Link, Negative, Blank
<1>3. /\ entry' = [entry EXCEPT ![x] = i] /\ nlink' = [nlink EXCEPT ![i] = @ + 1]
      /\ linked' = linked \cup {i} /\ count' = [count EXCEPT ![i] = @ + 1]
      /\ dclient' = [dclient EXCEPT ![e] = i] /\ dinode' = [dinode EXCEPT ![e] = o]
      /\ CopyUp(o, nlink[i] + 1) /\ dcount < MaxLinks /\ dcount' = dcount + 1
  BY DEF Link
<1>4. life[i] >= 1
  BY <1>1 DEF Born
<1>5. /\ DiskType' /\ OneName' /\ NamesCounted'
      /\ \A n \in Names : entry'[n] # None => life'[entry'[n]] >= 1
  BY <1>0, <1>1, <1>2, <1>3, <1>4, LinksDisk
<1>6. /\ entry'[x] = i /\ \A n \in Names \ {x} : entry'[n] = entry[n]
      /\ \A j \in Inos \ {i} : nlink'[j] = nlink[j]
      /\ dclient'[e] = i /\ dinode'[e] = o
      /\ \A f \in Dents \ {e} : dclient'[f] = dclient[f] /\ dinode'[f] = dinode[f]
  BY <1>1, <1>2, <1>3 DEF DiskType, DentryType
<1>7. /\ \A p \in Objs \ {o} : inlink'[p] = inlink[p]
      /\ inlink' \in [Objs -> Nat]
      /\ idirty' = IF kind[i] = "blk" THEN idirty \cup {o} ELSE idirty
  BY <1>1, <1>3 DEF CopyUp, Dirty, InodeType, DiskType
<1>8. InodeType' /\ DentryType'
  BY <1>0, <1>1, <1>3, <1>7 DEF InodeType, DentryType
<1>9. CacheType'
  BY <1>0, <1>1, <1>3, Bounds DEF CacheType
<1>10. FlagType'
  BY <1>0 DEF FlagType
<1>11. Born'
  BY <1>0, <1>5 DEF Born
<1>12. Blank' /\ Unique'
  BY <1>0, <1>2, <1>6 DEF Blank, Unique
<1>13. NameTruth'
  <2> SUFFICES ASSUME NEW f \in Dents, dst[f] = "hashed"
               PROVE  \/ dinode'[f] = None /\ (entry'[dname[f]] = None \/ faults > 0)
                      \/ /\ dinode'[f] # None /\ entry'[dname[f]] # None
                         /\ dclient'[f] \in {entry'[dname[f]], Gone}
    BY <1>0 DEF NameTruth
  <2>1. CASE f = e
    BY <1>1, <1>6, <2>1, Points
  <2>2. CASE f # e
    <3>1. entry'[dname[f]] = entry[dname[f]]
      BY <1>2, <1>6, <2>2, OtherName
    <3> QED
      BY <1>6, <2>2, <3>1 DEF NameTruth
  <2> QED
    BY <2>1, <2>2
<1>14. Paired' /\ Started'
  BY <1>0, <1>1, <1>6 DEF Paired, Started, Live
<1>15. Sole'
  <2> SUFFICES ASSUME NEW p \in Objs, icount[p] > 0, iclient[p] \notin linked' \cup {Gone}
               PROVE  /\ icount[p] = 1
                      /\ \E f \in Dents : dinode'[f] = p
                      /\ \A f, g \in Dents : dinode'[f] = p /\ dinode'[g] = p => f = g
    BY <1>0 DEF Sole
  <2>1. p # o /\ iclient[p] \notin linked \cup {Gone}
    BY <1>1, <1>3
  <2>2. \A f \in Dents : dinode'[f] = p <=> dinode[f] = p
    BY <1>2, <1>6, <2>1, Points
  <2>3. /\ icount[p] = 1
        /\ \E f \in Dents : dinode[f] = p
        /\ \A f, g \in Dents : dinode[f] = p /\ dinode[g] = p => f = g
    BY <2>1 DEF Sole
  <2> QED
    BY <2>2, <2>3
<1>16. Nameless'
  <2> SUFFICES ASSUME NEW f \in Dents, NEW n \in Names, dst[f] = "dropped",
                      dinode'[f] \in Objs, icount[dinode'[f]] > 0,
                      dclient'[f] \notin linked' \cup {Gone}
               PROVE  entry'[n] # dclient'[f]
    BY <1>0 DEF Nameless, Live
  <2>1. f # e /\ dclient'[f] = dclient[f] /\ dinode'[f] = dinode[f]
    BY <1>2, <1>6
  <2>2. dclient[f] \notin linked \cup {Gone} /\ dclient[f] # i
    BY <1>3, <2>1
  <2>3. entry[n] # dclient[f]
    BY <2>1, <2>2 DEF Nameless, Live
  <2> QED
    BY <1>6, <2>1, <2>2, <2>3
<1>17. OneInode'
  BY <1>0, <1>3 DEF OneInode, Live
<1>18. Fresh'
  <2> SUFFICES ASSUME NEW p \in Objs, icount[p] > 0, iclient[p] \in mem,
                      iclient[p] \notin linked',
                      cont[iclient[p]] = {} \/ kind[iclient[p]] = "blk"
               PROVE  inlink'[p] = nlink'[iclient[p]]
    BY <1>0 DEF Fresh
  <2>1. iclient[p] \in Inos \ {i} /\ iclient[p] \notin linked /\ p # o
    BY <1>1, <1>3 DEF CacheType
  <2> QED
    BY <1>6, <1>7, <2>1 DEF Fresh
<1>19. DirtyBlk'
  BY <1>0, <1>1, <1>7 DEF DirtyBlk
<1> QED
  BY <1>5, <1>8, <1>9, <1>10, <1>11, <1>12, <1>13, <1>14, <1>15, <1>16, <1>17, <1>18, <1>19

\* A creation that failed half way: the file is there, the dentry negative.
LEMMA MakeHalfInv ==
    ASSUME NameiInv, NEW d \in Dents, MakeHalf(d)
    PROVE  NameiInv'
<1> USE DEF NameiInv
<1>0. UNCHANGED <<dst, dname, dinode, dleak, dopen, icount, inlink, idirty, dcount, oops>>
  BY DEF MakeHalf
<1>1. dst[d] = "hashed" /\ dinode[d] = None /\ dname[d] \in Names /\ Fault
  BY DEF MakeHalf, Negative, Blank
<1>2. PICK i \in Inos, o \in Objs, call \in DOMAIN KindOf :
          /\ ClientMakes(d, i, KindOf[call])
          /\ PutUnstarted(Lost(iclient, i)[o], {i}, [count EXCEPT ![i] = 1])
          /\ idle' = [idle EXCEPT ![i] = 0]
          /\ stray' = (stray \/ idle[i] > 0)
          /\ iclient' = Lost(iclient, i)
          /\ dclient' = [Lost(dclient, i) EXCEPT ![d] = i]
  BY DEF MakeHalf
<1>3. KindOf[call] \in Kinds
  BY DEF KindOf, Kinds
<1>4. /\ DiskType' /\ OneName' /\ NamesCounted'
      /\ \A n \in Names : entry'[n] # None => life'[entry'[n]] >= 1
      /\ life'[i] >= 1
  BY <1>1, <1>2, <1>3, MakesDisk
<1>5. /\ i \notin mem
      /\ \A j \in Inos \ {i} :
            /\ j \in linked' <=> j \in linked
            /\ nlink'[j] = nlink[j] /\ kind'[j] = kind[j] /\ cont'[j] = cont[j]
            /\ life'[j] = life[j]
      /\ entry'[dname[d]] = i
      /\ \A n \in Names \ {dname[d]} : entry'[n] = entry[n]
      /\ \A j \in Inos \ {i}, n \in Names : entry'[n] = j <=> entry[n] = j
  BY <1>1, <1>2, Points DEF ClientMakes, DiskType, Unused
<1>6. count' \in [Inos -> Int] /\ mem' \subseteq mem \cup {i}
  <2>1. [count EXCEPT ![i] = 1] \in [Inos -> Int]
    BY DEF CacheType
  <2> QED
    BY <1>2, <2>1, PutUnstartedType
<1>7. faults' \in 0 .. MaxFaults /\ faults' > 0
  BY <1>1, FaultCounts
<1>8. /\ iclient' \in [Objs -> Inos \cup {None, Gone}]
      /\ \A p \in Objs : iclient'[p] = IF iclient[p] = i THEN Gone ELSE iclient[p]
  BY <1>2 DEF InodeType, Lost
<1>9. /\ dclient' \in [Dents -> Inos \cup {None, Gone}] /\ dclient'[d] = i
      /\ \A e \in Dents \ {d} : dclient'[e] = IF dclient[e] = i THEN Gone ELSE dclient[e]
  <2>1. /\ Lost(dclient, i) \in [Dents -> Inos \cup {None, Gone}]
        /\ \A e \in Dents : Lost(dclient, i)[e] = IF dclient[e] = i THEN Gone ELSE dclient[e]
    BY DEF DentryType, Lost
  <2> QED
    BY <1>2, <2>1
<1>10. InodeType' /\ DentryType'
  BY <1>0, <1>8, <1>9 DEF InodeType, DentryType
<1>11. CacheType'
  <2>1. idle' \in [Inos -> 0 .. MaxIdle]
    BY <1>2, Bounds DEF CacheType
  <2>2. mem' \subseteq Inos
    BY <1>6 DEF CacheType
  <2> QED
    BY <1>0, <1>6, <1>7, <2>1, <2>2 DEF CacheType
<1>12. FlagType'
  <2>1. stray' \in BOOLEAN
    BY <1>2, Zenon
  <2> QED
    BY <1>0, <2>1 DEF FlagType
<1>13. Born'
  <2>1. \A j \in mem' : life'[j] >= 1
    BY <1>4, <1>5, <1>6 DEF Born, CacheType
  <2> QED
    BY <1>4, <2>1 DEF Born
<1>14. Blank' /\ Unique'
  BY <1>0, <1>1, <1>9, Points DEF Blank, Unique
<1>15. NameTruth'
  <2> SUFFICES ASSUME NEW e \in Dents, dst[e] = "hashed"
               PROVE  \/ dinode[e] = None
                      \/ /\ dinode[e] # None /\ entry'[dname[e]] # None
                         /\ dclient'[e] \in {entry'[dname[e]], Gone}
    BY <1>0, <1>7 DEF NameTruth
  <2>1. CASE e = d
    BY <1>1, <2>1
  <2>2. CASE e # d
    <3>1. entry'[dname[e]] = entry[dname[e]]
      BY <1>1, <1>5, <2>2, OtherName
    <3> QED
      BY <1>9, <2>2, <3>1 DEF NameTruth
  <2> QED
    BY <2>1, <2>2
<1>16. Paired'
  <2> SUFFICES ASSUME NEW e \in Dents, dinode[e] \in Objs, icount[dinode[e]] > 0
               PROVE  dclient'[e] = iclient'[dinode[e]]
    BY <1>0 DEF Paired, Live
  <2>1. e # d /\ dclient[e] = iclient[dinode[e]]
    BY <1>1, Points DEF Paired, Live
  <2> QED
    BY <1>8, <1>9, <2>1
<1>17. Started'
  BY <1>0, <1>8, Points DEF Started
<1>18. \A p \in Objs : icount[p] > 0 /\ iclient'[p] # Gone =>
          /\ iclient'[p] = iclient[p] /\ iclient[p] \in Inos \ {i}
          /\ iclient[p] \in linked' <=> iclient[p] \in linked
  <2> SUFFICES ASSUME NEW p \in Objs, icount[p] > 0, iclient'[p] # Gone
               PROVE  /\ iclient'[p] = iclient[p] /\ iclient[p] \in Inos \ {i}
                      /\ iclient[p] \in linked' <=> iclient[p] \in linked
    OBVIOUS
  <2>1. iclient'[p] = iclient[p] /\ iclient[p] \in Inos \ {i}
    BY <1>8 DEF Started, InodeType
  <2> QED
    BY <1>5, <2>1
<1>19. Sole'
  <2> SUFFICES ASSUME NEW p \in Objs, icount[p] > 0, iclient'[p] \notin linked' \cup {Gone}
               PROVE  /\ icount[p] = 1
                      /\ \E f \in Dents : dinode[f] = p
                      /\ \A f, g \in Dents : dinode[f] = p /\ dinode[g] = p => f = g
    BY <1>0 DEF Sole
  <2>1. iclient[p] \notin linked \cup {Gone}
    BY <1>18
  <2> QED
    BY <2>1 DEF Sole
<1>20. Nameless'
  <2> SUFFICES ASSUME NEW e \in Dents, NEW n \in Names, dst[e] = "dropped",
                      dinode[e] \in Objs, icount[dinode[e]] > 0,
                      dclient'[e] \notin linked' \cup {Gone}
               PROVE  entry'[n] # dclient'[e]
    BY <1>0 DEF Nameless, Live
  <2>1. e # d /\ dclient'[e] = dclient[e] /\ dclient[e] # i
    BY <1>1, <1>9
  <2>2. dclient[e] = iclient[dinode[e]] /\ dclient[e] \in Inos
    BY <2>1 DEF Paired, Live, Started, InodeType
  <2>3. dclient[e] \notin linked \cup {Gone}
    BY <1>5, <2>1, <2>2
  <2> QED
    BY <1>5, <2>1, <2>2, <2>3 DEF Nameless, Live
<1>21. OneInode'
  <2> SUFFICES ASSUME NEW p \in Objs, NEW q \in Objs, p # q, icount[p] > 0, icount[q] > 0,
                      iclient'[p] = iclient'[q], iclient'[p] # Gone
               PROVE  iclient'[p] \in linked'
    BY <1>0 DEF OneInode, Live
  <2> QED
    BY <1>18 DEF OneInode, Live
<1>22. Fresh'
  <2> SUFFICES ASSUME NEW p \in Objs, icount[p] > 0, iclient'[p] \in mem',
                      iclient'[p] \notin linked',
                      cont'[iclient'[p]] = {} \/ kind'[iclient'[p]] = "blk"
               PROVE  inlink[p] = nlink'[iclient'[p]]
    BY <1>0 DEF Fresh
  <2>1. iclient'[p] # Gone
    BY <1>11, Points DEF CacheType
  <2>2. /\ iclient'[p] = iclient[p] /\ iclient[p] \in Inos \ {i}
        /\ iclient[p] \notin linked /\ iclient[p] \in mem
    BY <1>6, <1>18, <2>1
  <2> QED
    BY <1>5, <2>2 DEF Fresh
<1>23. DirtyBlk'
  <2> SUFFICES ASSUME NEW p \in idirty
               PROVE  icount[p] > 0 /\ (iclient'[p] \in Inos => kind'[iclient'[p]] = "blk")
    BY <1>0 DEF DirtyBlk
  <2>1. p \in Objs /\ icount[p] > 0
    BY DEF DirtyBlk, InodeType
  <2> QED
    BY <1>5, <1>18, <2>1, Points DEF DirtyBlk
<1> QED
  BY <1>4, <1>10, <1>11, <1>12, <1>13, <1>14, <1>15, <1>16, <1>17, <1>19, <1>20, <1>21,
     <1>22, <1>23

-----------------------------------------------------------------------------
(* The theorems                                                            *)

\* Every step keeps the invariant.
LEMMA NameiStep == NameiInv /\ [Next]_vars => NameiInv'
<1> SUFFICES ASSUME NameiInv, [Next]_vars PROVE NameiInv'
  OBVIOUS
<1>1. ASSUME NEW d \in Dents, NEW n \in Names, LookupNothing(n, d) PROVE NameiInv'
  BY <1>1, LookupNothingInv
<1>2. ASSUME NEW d \in Dents, NEW n \in Names, NEW o \in Objs, Lookup(n, d, o)
      PROVE  NameiInv'
  BY <1>2, LookupInv
<1>3. ASSUME NEW d \in Dents, Create(d) \/ Symlink(d) \/ Mkdir(d) \/ Mknod(d)
      PROVE  NameiInv'
  <2>1. {"create", "symlink", "mkdir", "mknod"} \subseteq DOMAIN KindOf
    BY DEF KindOf
  <2> QED
    BY <1>3, <2>1, MakeInv DEF Create, Symlink, Mkdir, Mknod
<1>4. ASSUME NEW d \in Dents, MakeErr(d) \/ MakeHalf(d) \/ MakeHalfBug(d) PROVE NameiInv'
  BY <1>4, MakeErrInv, MakeHalfInv, MakeHalfBugInv
<1>5. ASSUME NEW d \in Dents, NEW e \in Dents, Link(d, e) PROVE NameiInv'
  BY <1>5, LinkInv
<1>6. ASSUME NEW d \in Dents, Unlink(d) \/ Rmdir(d) PROVE NameiInv'
  BY <1>6, RemoveInv DEF Unlink, Rmdir
<1>7. ASSUME NEW d \in Dents, Open(d) \/ Extend(d) \/ Setattr(d) PROVE NameiInv'
  BY <1>7, OpenInv, AttrSteps
<1>8. ASSUME NEW d \in Dents, Close(d) \/ Reclaim(d) PROVE NameiInv'
  BY <1>8, CloseInv
<1>9. ASSUME NEW o \in Objs, WriteInode(o) PROVE NameiInv'
  BY <1>9, WriteInodeInv
<1>10. ASSUME NEW i \in Inos, ShrinkDentry(i) \/ PruneInode(i) PROVE NameiInv'
  BY <1>10, CacheSteps
<1>11. ASSUME \/ \E d \in Dents, n \in Names : LookupErr(n, d)
              \/ \E d \in Dents : MakeErrBug(d) \/ MakeBug(d) \/ Crash(d)
              \/ ShrinkBug \/ Restart
       PROVE  NameiInv'
  BY <1>11, StopSteps
<1>12. CASE UNCHANGED vars
  <2>1. UNCHANGED <<disk, dentry, inode, client, dcount, oops, faults>>
    BY <1>12 DEF vars
  <2>2. mem' \subseteq mem /\ CacheType' /\ faults' >= faults
    BY <2>1 DEF NameiInv, CacheType, client
  <2>3. stray' \in BOOLEAN /\ oops' \in BOOLEAN
    BY <2>1 DEF NameiInv, FlagType, client
  <2> QED
    BY <2>1, <2>2, <2>3, CacheStep
<1> QED
  BY <1>1, <1>2, <1>3, <1>4, <1>5, <1>6, <1>7, <1>8, <1>9, <1>10, <1>11, <1>12
     DEF Next, DentryNext

\* The inductive invariant holds in every state of a directory, whatever the
\* order of calls, reclaims, failing client calls, stops and restarts.
THEOREM NameiInductive == Spec => []NameiInv
  BY NameiInit, NameiStep, PTL DEF Spec

\* Every variable keeps to the values it is declared for.
THEOREM NamesTypeCorrect == Spec => []NamesType
<1>1. NameiInv => NamesType
  <2> SUFFICES ASSUME NameiInv PROVE NamesType
    OBVIOUS
  <2>1. DiskType /\ DentryType /\ InodeType /\ CacheType /\ FlagType
    BY DEF NameiInv
  <2> QED
    BY <2>1, Zenon DEF NamesType, DiskType, DentryType, InodeType, CacheType, FlagType
<1> QED
  BY <1>1, NameiInductive, PTL

\* A dentry in the cache tells the truth about its name: chunkfs_lookup, the
\* creating calls, link, unlink and rmdir change the cache and the client's
\* directory together.
THEOREM NameTruthCorrect == Spec => []NameTruth
<1>1. NameiInv => NameTruth
  BY DEF NameiInv
<1> QED
  BY <1>1, NameiInductive, PTL

\* chunkfs_lookup never makes a second inode for a file that always had one
\* name.
THEOREM OneInodeCorrect == Spec => []OneInode
<1>1. NameiInv => OneInode
  BY DEF NameiInv
<1> QED
  BY <1>1, NameiInductive, PTL

\* The link count that chunkfs shows of such a file is the client's.
THEOREM NlinkFreshCorrect == Spec => []NlinkFresh
<1>1. NameiInv => NlinkFresh
  BY DEF NameiInv, Fresh, NlinkFresh, Live, Valid
<1> QED
  BY <1>1, NameiInductive, PTL

\* The client's link counts are the numbers of names: chunkfs_write_inode can
\* spoil only those of special files that had a second name.
THEOREM NamesCountedCorrect == Spec => []NamesCounted
<1>1. NameiInv => NamesCounted
  BY DEF NameiInv
<1> QED
  BY <1>1, NameiInductive, PTL

\* The count of an inode whose file always had one name is the number of its
\* dentries.
THEOREM InodesHeldCorrect == Spec => []InodesHeld
<1>1. NameiInv => InodesHeld
  <2> SUFFICES ASSUME NameiInv, NEW o \in Objs, icount[o] > 0,
                      iclient[o] \notin linked \cup {Gone}
               PROVE  icount[o] = Cardinality({d \in Dents : dinode[d] = o})
    BY DEF InodesHeld, Live
  <2>1. icount[o] = 1
    BY DEF NameiInv, Sole
  <2>2. PICK e \in Dents : {d \in Dents : dinode[d] = o} = {e}
    BY DEF NameiInv, Sole
  <2>3. Cardinality({e}) = 1
    BY FS_Singleton
  <2> QED
    BY <2>1, <2>2, <2>3
<1> QED
  BY <1>1, NameiInductive, PTL
=============================================================================
