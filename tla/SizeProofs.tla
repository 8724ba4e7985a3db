----------------------------- MODULE SizeProofs -----------------------------
(***************************************************************************)
(* The size that copy_up_inode computes: with one task, i_size is the size *)
(* of all the parts together whenever the task is between calls, although  *)
(* the sum is made without the lock and over inodes that nobody reads      *)
(* from disk, calls end early, lookups cut the list and the machine        *)
(* restarts.  (With two tasks a sum can be out of date when it is stored.) *)
(***************************************************************************)
EXTENDS ChunkFileProofs, WellFoundedInduction

\* At most one task uses the file
OneTask == \A t, u \in Tasks : t = u

-----------------------------------------------------------------------------
(* The inductive invariant                                                 *)

\* The task has not begun to change the file in this call
Settled == {"idle", "open", "lock", "walk", "tail", "create", "sync"}

SizeInv == hashed /\ faults = 0 =>
    /\ (\A t \in Tasks : pc[t] \in Settled) => isize = Total
    /\ \A t \in Tasks : pc[t] = "sum" => Linked(part[t]) /\ sum[t] = SizeTo[part[t]]

-----------------------------------------------------------------------------
(* Partial sums                                                            *)

\* Every set of natural numbers has a least one, which is what the inductions
\* below use.
LEMMA LeastNat ==
    ASSUME NEW T, T \subseteq Nat, T # {}
    PROVE  \E x \in T : \A y \in T : x <= y
<1> DEFINE R == OpToRel(<, Nat)
<1>1. IsWellFoundedOn(R, Nat)
  BY NatLessThanWellFounded
<1>2. \A x, y \in Nat : y < x => <<y, x>> \in R
  BY DEF OpToRel
<1> HIDE DEF R
<1>3. PICK x \in T : \A y \in T : ~(<<y, x>> \in R)
  BY <1>1, WFMin
<1>4. ASSUME NEW y \in T PROVE x <= y
  <2>1. x \in Nat /\ y \in Nat
    OBVIOUS
  <2>2. ~(y < x)
    BY <1>2, <1>3, <2>1
  <2> QED
    BY <2>1, <2>2
<1> QED
  BY <1>4

\* f sums up the numbers w[1], w[2], ..., w[n]
Sums(f, w, n) == /\ f \in [0 .. n -> Nat]
                 /\ f[0] = 0
                 /\ \A k \in 1 .. n : f[k] = f[k - 1] + w[k]

\* There are sums of any number of numbers.
LEMMA SumsExist ==
    ASSUME NEW n \in Nat, NEW w \in [1 .. n -> Nat]
    PROVE  \E f : Sums(f, w, n)
<1> DEFINE T == {m \in 0 .. n : ~ \E f : Sums(f, w, m)}
<1>0. n \in 0 .. n
  OBVIOUS
<1> SUFFICES ASSUME T # {} PROVE FALSE
  BY <1>0, Zenon
<1>1. PICK m \in T : \A y \in T : m <= y
  <2>1. T \subseteq Nat
    OBVIOUS
  <2> HIDE DEF T
  <2> QED
    BY <2>1, LeastNat
<1>2. m \in 0 .. n /\ ~ \E f : Sums(f, w, m)
  OBVIOUS
<1>3. m # 0
  <2>1. Sums([k \in 0 .. 0 |-> 0], w, 0)
    BY DEF Sums
  <2> QED
    BY <1>2, <2>1
<1>4. PICK f : Sums(f, w, m - 1)
  <2>1. m - 1 \in 0 .. n /\ ~(m <= m - 1)
    BY <1>2, <1>3
  <2> QED
    BY <1>1, <2>1
<1> DEFINE g == [k \in 0 .. m |-> IF k = m THEN f[m - 1] + w[m] ELSE f[k]]
<1>5. Sums(g, w, m)
  <2>1. m \in 1 .. n /\ m - 1 \in 0 .. m - 1 /\ w[m] \in Nat /\ f \in [0 .. m - 1 -> Nat]
    BY <1>2, <1>3, <1>4 DEF Sums
  <2>2. g \in [0 .. m -> Nat] /\ g[0] = 0
    BY <1>4, <2>1 DEF Sums
  <2>3. ASSUME NEW k \in 1 .. m PROVE g[k] = g[k - 1] + w[k]
    <3>1. CASE k = m
      BY <2>1, <3>1
    <3>2. CASE k # m
      <4>1. k \in 1 .. m - 1 /\ k - 1 \in 0 .. m /\ k - 1 # m /\ k \in 0 .. m
        BY <2>1, <3>2
      <4>2. g[k] = f[k] /\ g[k - 1] = f[k - 1]
        BY <3>2, <4>1
      <4> HIDE DEF g
      <4> QED
        BY <1>4, <4>1, <4>2 DEF Sums
    <3> QED
      BY <3>1, <3>2
  <2> QED
    BY <2>2, <2>3 DEF Sums
<1> QED
  BY <1>2, <1>5

\* Sums of the same numbers are the same.
LEMMA SumsAgree ==
    ASSUME NEW n \in Nat, NEW v, NEW w, NEW f, NEW g, Sums(f, v, n), Sums(g, w, n),
           NEW m \in 0 .. n, \A k \in 1 .. m : v[k] = w[k]
    PROVE  f[m] = g[m]
<1> DEFINE T == {k \in 0 .. m : f[k] # g[k]}
<1> SUFFICES ASSUME T # {} PROVE FALSE
  OBVIOUS
<1>1. PICK k \in T : \A y \in T : k <= y
  <2>1. T \subseteq Nat
    OBVIOUS
  <2> HIDE DEF T
  <2> QED
    BY <2>1, LeastNat
<1>2. k \in 1 .. m /\ k - 1 \in 0 .. m /\ f[k] # g[k] /\ k \in 1 .. n
  BY DEF Sums
<1>3. f[k - 1] = g[k - 1]
  BY <1>1, <1>2
<1> QED
  BY <1>2, <1>3 DEF Sums

\* Zeros add nothing.
LEMMA SumsEnd ==
    ASSUME NEW n \in Nat, NEW w, NEW f, Sums(f, w, n),
           NEW m \in 0 .. n, \A k \in m + 1 .. n : w[k] = 0
    PROVE  f[n] = f[m]
<1> DEFINE T == {k \in m .. n : f[k] # f[m]}
<1> SUFFICES ASSUME T # {} PROVE FALSE
  OBVIOUS
<1>1. PICK k \in T : \A y \in T : k <= y
  <2>1. T \subseteq Nat
    OBVIOUS
  <2> HIDE DEF T
  <2> QED
    BY <2>1, LeastNat
<1>2. k \in m + 1 .. n /\ k - 1 \in m .. n /\ f[k] # f[m] /\ k \in 1 .. n
  OBVIOUS
<1>3. f[k - 1] = f[m]
  BY <1>1, <1>2
<1>4. f[k] = f[k - 1] + 0 /\ f[k - 1] \in Nat
  <2>1. k - 1 \in 0 .. n /\ w[k] = 0
    BY <1>2
  <2> QED
    BY <1>2, <2>1 DEF Sums
<1> QED
  BY <1>2, <1>3, <1>4

\* What each part adds to the size
Weights == [k \in Chunks |-> IF Linked(k) THEN Len(data[k]) ELSE 0]

\* SizeTo is well defined, and what its recursion says.
LEMMA SizeToSums == IInv => Sums(SizeTo, Weights, NChunks) /\ Weights \in [Chunks -> Nat]
<1> SUFFICES ASSUME IInv PROVE Sums(SizeTo, Weights, NChunks) /\ Weights \in [Chunks -> Nat]
  OBVIOUS
<1> DEFINE Body(g) == [k \in 0 .. NChunks |->
               IF k = 0 THEN 0 ELSE g[k - 1] + (IF Linked(k) THEN Len(data[k]) ELSE 0)]
<1>1. SizeTo = CHOOSE g : g = Body(g)
  BY DEF SizeTo
<1>2. Weights \in [Chunks -> Nat] /\ NChunks \in Nat
  <2>1. \A k \in Chunks : Len(data[k]) \in Nat
    BY DEF IInv, TypeOK, DiskType
  <2> QED
    BY <2>1, ChunkAssumption DEF Weights
<1>3. PICK f : Sums(f, Weights, NChunks)
  BY <1>2, SumsExist DEF Chunks
<1>4. \A g : /\ DOMAIN Body(g) = 0 .. NChunks /\ Body(g)[0] = 0
             /\ \A k \in Chunks : Body(g)[k] = g[k - 1] + Weights[k]
  BY <1>2 DEF Weights, Chunks
<1>5. f = Body(f)
  <2>1. \A k \in 0 .. NChunks : f[k] = Body(f)[k]
    <3> SUFFICES ASSUME NEW k \in 0 .. NChunks PROVE f[k] = Body(f)[k]
      OBVIOUS
    <3> HIDE DEF Body
    <3>1. CASE k = 0
      BY <1>3, <1>4, <3>1 DEF Sums
    <3>2. CASE k # 0
      <4>1. k \in Chunks /\ k \in 1 .. NChunks
        BY <1>2, <3>2 DEF Chunks
      <4> QED
        BY <1>3, <1>4, <4>1 DEF Sums
    <3> QED
      BY <3>1, <3>2
  <2>2. f = [k \in 0 .. NChunks |-> f[k]]
    BY <1>3 DEF Sums
  <2>3. Body(f) = [k \in 0 .. NChunks |-> Body(f)[k]]
    OBVIOUS
  <2> HIDE DEF Body
  <2> QED
    BY <2>1, <2>2, <2>3
<1>6. SizeTo = Body(SizeTo)
  <2> HIDE DEF Body
  <2> QED
    BY <1>1, <1>5
<1>7. /\ DOMAIN SizeTo = 0 .. NChunks /\ SizeTo[0] = 0
      /\ SizeTo = [k \in 0 .. NChunks |-> SizeTo[k]]
      /\ \A k \in Chunks : SizeTo[k] = SizeTo[k - 1] + Weights[k]
  <2>1. SizeTo = [k \in 0 .. NChunks |-> SizeTo[k]]
    BY <1>6
  <2> HIDE DEF Body
  <2>2. /\ DOMAIN Body(SizeTo) = 0 .. NChunks /\ Body(SizeTo)[0] = 0
        /\ \A k \in Chunks : Body(SizeTo)[k] = SizeTo[k - 1] + Weights[k]
    BY <1>4
  <2> QED
    BY <1>6, <2>1, <2>2
<1>8. \A k \in 0 .. NChunks : SizeTo[k] = f[k]
  <2> DEFINE T == {k \in 0 .. NChunks : SizeTo[k] # f[k]}
  <2> SUFFICES ASSUME T # {} PROVE FALSE
    OBVIOUS
  <2>1. PICK k \in T : \A y \in T : k <= y
    <3>1. T \subseteq Nat
      OBVIOUS
    <3> HIDE DEF T
    <3> QED
      BY <3>1, LeastNat
  <2>2. k \in 1 .. NChunks /\ k - 1 \in 0 .. NChunks /\ SizeTo[k] # f[k]
    BY <1>2, <1>3, <1>7 DEF Sums
  <2>3. SizeTo[k - 1] = f[k - 1]
    BY <2>1, <2>2
  <2> QED
    BY <1>3, <1>7, <2>2, <2>3 DEF Sums, Chunks
<1>9. SizeTo \in [0 .. NChunks -> Nat]
  <2>1. \A k \in 0 .. NChunks : SizeTo[k] \in Nat
    BY <1>3, <1>8 DEF Sums
  <2> QED
    BY <1>7, <2>1
<1> QED
  BY <1>2, <1>7, <1>9 DEF Sums, Chunks

\* The sizes depend on the links and the data only.
LEMMA SizesKept ==
    ASSUME IInv, IInv', UNCHANGED <<xattr, data>>
    PROVE  \A k \in 0 .. NChunks : SizeTo'[k] = SizeTo[k]
<1>1. Sums(SizeTo, Weights, NChunks) /\ Sums(SizeTo, Weights, NChunks)'
  <2>1. IInv' => Sums(SizeTo, Weights, NChunks)'
    BY SizeToSums, PTL
  <2> QED
    BY <2>1, SizeToSums
<1>2. \A k : Linked(k)' <=> Linked(k)
  BY DEF Linked, NextInode
<1>3. \A k \in Chunks : Weights'[k] = Weights[k]
  BY <1>2 DEF Weights
<1>4. NChunks \in Nat
  BY ChunkAssumption
<1>5. Sums(SizeTo', Weights', NChunks)
  BY <1>1 DEF Sums
<1> SUFFICES ASSUME NEW m \in 0 .. NChunks PROVE SizeTo'[m] = SizeTo[m]
  OBVIOUS
<1>6. \A k \in 1 .. m : Weights'[k] = Weights[k]
  BY <1>3, <1>4 DEF Chunks
<1> QED
  BY <1>1, <1>4, <1>5, <1>6, SumsAgree

-----------------------------------------------------------------------------
(* The walk over the inodes                                                *)

\* A next of 0 leads to no chunk.
LEMMA UinoZero == UINO_TO_CHUNK_ID(0) = 0
<1>1. 0 \in 0 .. ChunkSpace - 1 /\ 0 \in 0 .. InoSpace - 1 /\ InoSpace \in Nat
  BY SpaceAssumption
<1>2. MAKE_UINO(0, 0) = 0
  BY <1>1 DEF MAKE_UINO
<1> QED
  BY <1>1, <1>2, UinoRoundTrip

\* Nothing is reached over a part without a link.
LEMMA CutHere ==
    \A k \in Chunks : xattr[k]["next"] = 0 => \A m \in k + 1 .. NChunks : ~Linked(m)
<1> SUFFICES ASSUME NEW k \in Chunks, xattr[k]["next"] = 0, NEW m \in k + 1 .. NChunks
             PROVE  ~Linked(m)
  OBVIOUS
<1>1. k \in 1 .. m - 1 /\ k + 1 # 0
  BY ChunkAssumption DEF Chunks
<1> QED
  BY <1>1, UinoZero DEF Linked, NextInode

\* A part that is reached has its attributes and is in the inode cache.
LEMMA ReachedFacts ==
    ASSUME IInv, hashed, faults = 0, NEW k \in Chunks, Linked(k)
    PROVE  Complete(k) /\ k \in cached
<1>1. \A i \in Chunks : i < k => Links(i)
  <2> SUFFICES ASSUME NEW i \in Chunks, i < k PROVE Links(i)
    OBVIOUS
  <2>1. i \in 1 .. k - 1 /\ i + 1 # 0
    BY DEF Chunks
  <2> QED
    BY <2>1, UinoZero DEF Linked, NextInode, Links
<1>2. k \in cached
  <2>1. HeadPart <= k
    BY DEF HeadPart, Chunks
  <2> QED
    BY <1>1, <2>1 DEF IInv, Fresh
<1>3. CASE k = HeadPart
  BY <1>2, <1>3 DEF IInv
<1>4. CASE k # HeadPart
  <2>1. k - 1 \in Chunks /\ k - 1 < k /\ (k - 1) + 1 = k
    BY <1>4, ChunkAssumption DEF HeadPart, Chunks
  <2>2. Ready(k)
    BY <1>1, <2>1 DEF IInv, LinksOK
  <2> QED
    BY <1>2, <2>2 DEF Ready
<1> QED
  BY <1>3, <1>4

\* get_next_inode goes from one part to the next, which is in the cache.
LEMMA NextReached ==
    ASSUME IInv, hashed, faults = 0, NEW k \in Chunks, Linked(k), HasNext(k)
    PROVE  /\ NextInode(k) = k + 1 /\ k + 1 \in Chunks /\ Linked(k + 1)
           /\ SizeOf(k + 1) = Len(data[k + 1])
<1>1. NextInode(k) = k + 1 /\ k + 1 \in Chunks
  BY NextInodeFacts
<1>2. xattr[k]["next"] # Unset
  BY DEF HasNext, Complete, Fields
<1>3. Linked(k + 1)
  <2>1. 1 .. (k + 1) - 1 = (1 .. k - 1) \cup {k}
    BY DEF Chunks
  <2> QED
    BY <1>1, <1>2, <2>1 DEF Linked
<1>4. k + 1 \in cached
  BY <1>1, <1>3, ReachedFacts
<1> QED
  BY <1>1, <1>3, <1>4 DEF SizeOf

-----------------------------------------------------------------------------
(* The steps                                                               *)

\* A step that leaves the file as it is, or after which it is being changed.
LEMMA SizeStep ==
    ASSUME OneTask, IInv, IInv', SizeInv, NEW t \in Tasks, hashed, faults' = 0 => faults = 0,
           \/ faults' # 0
           \/ pc[t] \in Settled /\ pc'[t] \in Settled /\ UNCHANGED <<xattr, data, isize>>
           \/ pc'[t] \in {"setnew", "setprev", "load", "io", "up"}
    PROVE  SizeInv'
<1>1. \A u \in Tasks : u = t
  BY DEF OneTask
<1>2. CASE faults' # 0
  BY <1>2 DEF SizeInv
<1>3. CASE /\ faults' = 0 /\ pc[t] \in Settled /\ pc'[t] \in Settled
           /\ UNCHANGED <<xattr, data, isize>>
  <2>1. isize = Total
    BY <1>1, <1>3 DEF SizeInv
  <2>2. Total' = Total
    BY <1>3, SizesKept, ChunkAssumption DEF Total
  <2>3. \A u \in Tasks : pc'[u] # "sum"
    BY <1>1, <1>3 DEF Settled
  <2> QED
    BY <1>3, <2>1, <2>2, <2>3 DEF SizeInv
<1>4. CASE pc'[t] \in {"setnew", "setprev", "load", "io", "up"}
  BY <1>1, <1>4 DEF SizeInv, Settled
<1> QED
  BY <1>2, <1>3, <1>4

\* A system call begins.
LEMMA EnterSize ==
    ASSUME OneTask, IInv, IInv', SizeInv, NEW t \in Tasks, Enter(t)
    PROVE  SizeInv'
<1>1. LocalType /\ hashed /\ faults' = faults
  <2>1. LocalType
    BY DEF IInv, TypeOK
  <2>2. hashed
    BY Pinned DEF Enter, Open, Read, Pread, ReadFrom, Write, Pwrite, WriteTo, Fsync, Seek,
       Close, Setattr
  <2>3. faults' = faults
    BY DEF Enter, Open, Read, Pread, ReadFrom, Write, Pwrite, WriteTo, Fsync, Seek, Close, Setattr
  <2> QED
    BY <2>1, <2>2, <2>3
<1>2. CASE Open(t) \/ Read(t) \/ Pread(t) \/ Write(t) \/ Pwrite(t) \/ Fsync(t)
  <2>1. pc[t] \in Settled /\ pc'[t] \in Settled /\ UNCHANGED <<xattr, data, isize>>
    BY <1>1, <1>2 DEF Open, Read, Pread, ReadFrom, Write, Pwrite, WriteTo, Fsync, Begin, Goto,
       LocalType, disk, inode, Settled
  <2> QED
    BY <1>1, <2>1, SizeStep
<1>3. CASE Seek(t) \/ Close(t)
  <2>1. pc[t] \in Settled /\ pc'[t] \in Settled /\ UNCHANGED <<xattr, data, isize>>
    BY <1>1, <1>3 DEF Seek, Close, Goto, LocalType, disk, inode, Settled
  <2> QED
    BY <1>1, <2>1, SizeStep
<1>4. CASE Setattr(t)
  <2>1. pc'[t] = "up"
    BY <1>1, <1>4 DEF Setattr, Begin, Goto, LocalType
  <2> QED
    BY <1>1, <2>1, SizeStep
<1> QED
  BY <1>2, <1>3, <1>4 DEF Enter

\* Looking for a part, creating one, reading, writing and syncing it.
LEMMA PartSize ==
    ASSUME OneTask, IInv, IInv', SizeInv, NEW t \in Tasks,
           \/ Lock(t) \/ WalkOn(t) \/ WalkFound(t) \/ WalkNoOpen(t) \/ WalkEnd(t) \/ WalkErr(t)
           \/ TailOn(t) \/ TailEnd(t) \/ TailErr(t) \/ Create(t) \/ CreateErr(t)
           \/ SetNew(t) \/ SetPrev(t) \/ SetErr(t) \/ LoadNew(t) \/ LoadNewErr(t)
           \/ ReadClient(t) \/ WriteClient(t) \/ ClientErr(t)
           \/ SyncOn(t) \/ SyncLost(t) \/ SyncEnd(t) \/ SyncErr(t)
    PROVE  SizeInv'
<1>1. LocalType /\ TaskOK(t) /\ faults \in Nat
  BY InputAssumption DEF IInv, TypeOK, HistoryType
<1>2. hashed
  BY Pinned DEF Lock, WalkOn, WalkFound, WalkNoOpen, WalkEnd, WalkErr, TailOn, TailEnd, TailErr,
     Create, CreateErr, SetNew, SetPrev, SetErr, LoadNew, LoadNewErr, ReadClient, WriteClient,
     ClientErr, SyncOn, SyncLost, SyncEnd, SyncErr
<1>3. faults' = faults \/ Fault
  BY FaultFacts DEF Lock, WalkOn, WalkFound, WalkNoOpen, WalkEnd, WalkErr, TailOn, TailEnd,
     TailErr, Create, CreateErr, SetNew, SetPrev, SetErr, SetField, LoadNew, LoadNewErr,
     ReadClient, WriteClient, ClientErr, SyncOn, SyncLost, SyncEnd, SyncErr, IInv, TypeOK
<1>4. Fault => faults' # 0
  BY <1>1 DEF Fault
<1>5. \A r : Return(t, r) => pc'[t] \in Settled
  BY <1>1 DEF Return, Goto, LocalType, Settled
<1>6. CASE Lock(t) \/ WalkOn(t) \/ WalkEnd(t) \/ WalkErr(t) \/ TailOn(t) \/ TailEnd(t)
           \/ TailErr(t) \/ CreateErr(t) \/ SyncOn(t) \/ SyncEnd(t) \/ SyncErr(t)
  <2>1. pc[t] \in Settled /\ UNCHANGED <<xattr, data, isize>>
    BY <1>6 DEF Lock, WalkOn, WalkEnd, WalkErr, TailOn, TailEnd, TailErr, CreateErr, SyncOn,
       SyncEnd, SyncErr, disk, inode, Settled
  <2>2. (\E r : Return(t, r)) \/ pc'[t] \in {"walk", "sync", "tail", "create"}
    BY <1>1, <1>6 DEF Lock, WalkOn, WalkEnd, WalkErr, TailOn, TailEnd, TailErr, CreateErr,
       SyncOn, SyncEnd, SyncErr, Goto, LocalType
  <2>3. pc'[t] \in Settled
    BY <1>5, <2>2 DEF Settled
  <2> QED
    BY <1>2, <1>3, <1>4, <2>1, <2>3, SizeStep
<1>7. CASE WalkNoOpen(t) \/ SyncLost(t) \/ SetErr(t)
  BY <1>2, <1>4, <1>7, SizeStep DEF WalkNoOpen, SyncLost, SetErr
<1>8. CASE WalkFound(t) \/ Create(t) \/ LoadNew(t) \/ ReadClient(t) \/ WriteClient(t) \/ ClientErr(t)
  <2>1. pc'[t] \in {"setnew", "io", "up"}
    BY <1>1, <1>8 DEF WalkFound, Create, LoadNew, ReadClient, WriteClient, ClientErr, Goto, LocalType
  <2> QED
    BY <1>2, <1>3, <1>4, <2>1, SizeStep
<1>9. CASE SetNew(t) \/ SetPrev(t)
  <2>1. pc'[t] \in {"setnew", "setprev", "load"}
    BY <1>1, <1>9 DEF SetNew, SetPrev, SetField, LocalType
  <2> QED
    BY <1>2, <1>3, <1>4, <2>1, SizeStep
<1>10. CASE LoadNewErr(t)
  <2>1. faults' # 0
    BY <1>1, <1>4, <1>10 DEF LoadNewErr, TaskOK, ToChunk
  <2> QED
    BY <1>2, <2>1, SizeStep
<1> QED
  BY <1>6, <1>7, <1>8, <1>9, <1>10

\* copy_up_inode: the sum grows part by part, to the end of the list.
LEMMA SumSize ==
    ASSUME OneTask, IInv, IInv', SizeInv, NEW t \in Tasks, SumStart(t) \/ SumOn(t) \/ SumEnd(t)
    PROVE  SizeInv'
<1> SUFFICES ASSUME faults' = 0 PROVE SizeInv'
  BY DEF SizeInv
<1>1. /\ LocalType /\ TaskOK(t) /\ hashed /\ faults = 0
      /\ UNCHANGED <<xattr, data, hashed>>
  <2>1. hashed
    BY Pinned DEF SumStart, SumOn, SumEnd
  <2>2. UNCHANGED <<xattr, data, hashed>>
    BY DEF SumStart, SumOn, SumEnd, disk, inode
  <2>3. faults = 0
    BY InputAssumption DEF SumStart, SumOn, SumEnd, Fault, IInv, TypeOK, HistoryType
  <2> QED
    BY <2>1, <2>2, <2>3 DEF IInv, TypeOK
<1>2. \A u \in Tasks : u = t
  BY DEF OneTask
<1>3. Sums(SizeTo, Weights, NChunks) /\ \A k \in 0 .. NChunks : SizeTo'[k] = SizeTo[k]
  BY <1>1, SizeToSums, SizesKept
<1>4. \A k : Linked(k)' <=> Linked(k)
  BY <1>1 DEF Linked, NextInode
<1>5. \A k \in Chunks : Linked(k) => SizeTo[k] = SizeTo[k - 1] + Len(data[k])
  BY <1>3 DEF Sums, Weights, Chunks
<1>6. NChunks \in Nat /\ HeadPart \in Chunks /\ \A k \in Chunks : k \in 0 .. NChunks /\ k \in 1 .. NChunks
  BY ChunkAssumption DEF HeadPart, Chunks
<1>7. CASE SumStart(t)
  <2>1. pc'[t] = "sum" /\ part'[t] = HeadPart /\ sum'[t] = Len(data[HeadPart])
    BY <1>1, <1>7 DEF SumStart, Goto, LocalType
  <2>2. Linked(HeadPart)
    BY DEF Linked, HeadPart
  <2>3. SizeTo[HeadPart] = Len(data[HeadPart])
    <3>1. SizeTo[0] = 0 /\ HeadPart - 1 = 0 /\ Len(data[HeadPart]) \in Nat
      BY <1>3, <1>6 DEF Sums, HeadPart, IInv, TypeOK, DiskType
    <3> QED
      BY <1>5, <1>6, <2>2, <3>1
  <2>4. sum'[t] = SizeTo'[part'[t]]
    BY <1>3, <1>6, <2>1, <2>3
  <2>5. Linked(part[t])'
    BY <1>4, <2>1, <2>2
  <2> QED
    BY <1>2, <2>1, <2>4, <2>5 DEF SizeInv, Settled
<1>8. CASE SumOn(t)
  <2>1. /\ pc[t] = "sum" /\ HasNext(part[t]) /\ pc'[t] = "sum"
        /\ part'[t] = NextInode(part[t]) /\ sum'[t] = sum[t] + SizeOf(NextInode(part[t]))
    BY <1>1, <1>8 DEF SumOn, LocalType
  <2>2. part[t] \in Chunks /\ Linked(part[t]) /\ sum[t] = SizeTo[part[t]]
    BY <1>1, <2>1 DEF TaskOK, SizeInv
  <2>3. /\ NextInode(part[t]) = part[t] + 1 /\ part[t] + 1 \in Chunks /\ Linked(part[t] + 1)
        /\ SizeOf(part[t] + 1) = Len(data[part[t] + 1])
    BY <1>1, <2>1, <2>2, NextReached
  <2>4. (part[t] + 1) - 1 = part[t]
    BY <2>2 DEF Chunks
  <2>5. sum'[t] = SizeTo[part[t] + 1]
    BY <1>5, <2>1, <2>2, <2>3, <2>4
  <2>6. sum'[t] = SizeTo'[part'[t]]
    BY <1>3, <1>6, <2>1, <2>3, <2>5
  <2>7. Linked(part[t])'
    BY <1>4, <2>1, <2>3
  <2> QED
    BY <1>2, <2>1, <2>6, <2>7 DEF SizeInv, Settled
<1>9. CASE SumEnd(t)
  <2>1. pc[t] = "sum" /\ ~HasNext(part[t]) /\ pc'[t] \in {"idle", "open"} /\ isize' = sum[t]
    BY <1>1, <1>9 DEF SumEnd, Fault, Return, Goto, LocalType
  <2>2. part[t] \in Chunks /\ Linked(part[t]) /\ sum[t] = SizeTo[part[t]]
    BY <1>1, <2>1 DEF TaskOK, SizeInv
  <2>3. xattr[part[t]]["next"] = 0
    BY <1>1, <2>1, <2>2, ReachedFacts DEF HasNext
  <2>4. \A m \in part[t] + 1 .. NChunks : Weights[m] = 0
    <3>1. \A m \in part[t] + 1 .. NChunks : ~Linked(m) /\ m \in Chunks
      BY <2>2, <2>3, CutHere DEF Chunks
    <3> QED
      BY <3>1 DEF Weights
  <2>5. SizeTo[NChunks] = SizeTo[part[t]]
    BY <1>3, <1>6, <2>2, <2>4, SumsEnd
  <2>6. isize' = Total'
    BY <1>3, <1>6, <2>1, <2>2, <2>5 DEF Total
  <2> QED
    BY <1>2, <2>1, <2>6 DEF SizeInv
<1> QED
  BY <1>7, <1>8, <1>9

\* Eviction, restart, lookup: a lookup leaves the head alone in the list, and
\* takes its size.
LEMMA WorldSize ==
    ASSUME IInv, IInv', SizeInv, Evict \/ Restart \/ Lookup \/ LookupErr
    PROVE  SizeInv'
<1>1. CASE Evict \/ Restart
  BY <1>1 DEF Evict, Restart, SizeInv
<1>2. CASE LookupErr
  <2>1. faults' # 0
    BY <1>2, InputAssumption DEF LookupErr, Fault, IInv, TypeOK, HistoryType
  <2> QED
    BY <2>1 DEF SizeInv
<1>3. CASE Lookup
  <2>1. /\ \A t \in Tasks : pc'[t] = "idle"
        /\ isize' = Len(data[HeadPart]) /\ data' = data
    BY <1>3 DEF Lookup, local, IInv
  <2>2. HeadPart \in Chunks /\ xattr'[HeadPart]["next"] = 0
    <3>1. HeadPart \in Chunks
      BY ChunkAssumption DEF HeadPart, Chunks
    <3>2. xattr'[HeadPart] = InitData
      BY <1>3, <3>1 DEF Lookup, IInv, TypeOK, DiskType
    <3> QED
      BY <3>1, <3>2, InitDataFacts
  <2>3. \A m \in HeadPart + 1 .. NChunks : ~Linked(m)'
    <3>1. (\A k \in Chunks : xattr[k]["next"] = 0 => \A m \in k + 1 .. NChunks : ~Linked(m))'
      BY CutHere, PTL
    <3> QED
      BY <2>2, <3>1
  <2>4. Sums(SizeTo', Weights', NChunks)
    <3>1. Sums(SizeTo, Weights, NChunks)'
      BY SizeToSums, PTL
    <3> QED
      BY <3>1 DEF Sums
  <2>5. \A m \in HeadPart + 1 .. NChunks : Weights'[m] = 0
    BY <2>3 DEF Weights, Chunks, HeadPart
  <2>6. Weights'[HeadPart] = Len(data[HeadPart]) /\ Len(data[HeadPart]) \in Nat
    <3>1. Linked(HeadPart)'
      BY DEF Linked, HeadPart
    <3> QED
      BY <2>1, <2>2, <3>1 DEF Weights, IInv, TypeOK, DiskType
  <2>7. NChunks \in Nat /\ HeadPart \in 0 .. NChunks /\ HeadPart \in 1 .. NChunks /\ HeadPart - 1 = 0
    BY ChunkAssumption DEF HeadPart
  <2>8. SizeTo'[NChunks] = SizeTo'[HeadPart]
    BY <2>4, <2>5, <2>7, SumsEnd
  <2>9. SizeTo'[HeadPart] = SizeTo'[0] + Weights'[HeadPart] /\ SizeTo'[0] = 0
    BY <2>4, <2>7 DEF Sums
  <2>10. isize' = Total'
    BY <2>1, <2>6, <2>8, <2>9 DEF Total
  <2>11. \A t \in Tasks : pc'[t] # "sum"
    BY <2>1
  <2> QED
    BY <2>10, <2>11 DEF SizeInv
<1> QED
  BY <1>1, <1>2, <1>3

\* The file is empty.
LEMMA InitSize ==
    ASSUME Init
    PROVE  SizeInv
<1>1. IInv
  BY InitInv
<1>2. Sums(SizeTo, Weights, NChunks) /\ NChunks \in Nat /\ 0 \in 0 .. NChunks
  BY <1>1, SizeToSums, ChunkAssumption
<1>3. \A k \in 0 + 1 .. NChunks : Weights[k] = 0
  BY DEF Weights, Init, Chunks
<1>4. SizeTo[NChunks] = SizeTo[0] /\ SizeTo[0] = 0
  <2>1. SizeTo[NChunks] = SizeTo[0]
    BY <1>2, <1>3, SumsEnd
  <2> QED
    BY <1>2, <2>1 DEF Sums
<1>5. isize = Total /\ \A t \in Tasks : pc[t] # "sum"
  BY <1>4 DEF Total, Init
<1> QED
  BY <1>5 DEF SizeInv

\* The sum of copy_up_inode is that of the parts it has passed, and i_size that
\* of all the parts from the end of one such sum to the next change.
THEOREM SizeInductive == OneTask => (Spec => []SizeInv)
<1> SUFFICES ASSUME OneTask PROVE Spec => []SizeInv
  OBVIOUS
<1>1. Init => SizeInv
  BY InitSize
<1>2. IInv /\ IInv' /\ SizeInv /\ [Next]_vars => SizeInv'
  <2> SUFFICES ASSUME IInv, IInv', SizeInv, [Next]_vars PROVE SizeInv'
    OBVIOUS
  <2>1. ASSUME NEW t \in Tasks, Enter(t) PROVE SizeInv'
    BY <2>1, EnterSize
  <2>2. ASSUME NEW t \in Tasks, Step(t) PROVE SizeInv'
    BY <2>2, PartSize, SumSize DEF Step
  <2>3. CASE Evict \/ Restart \/ Lookup \/ LookupErr
    BY <2>3, WorldSize
  <2>4. CASE UNCHANGED vars
    <3>1. UNCHANGED <<xattr, data, hashed, faults, isize, pc, part, sum>>
      BY <2>4 DEF vars, disk, inode, local
    <3>2. /\ \A k \in 0 .. NChunks : SizeTo'[k] = SizeTo[k]
          /\ NChunks \in 0 .. NChunks /\ \A t \in Tasks : part[t] \in 0 .. NChunks
      BY <3>1, SizesKept, ChunkAssumption DEF IInv, TypeOK, LocalType
    <3>3. Total' = Total /\ \A t \in Tasks : SizeTo'[part[t]] = SizeTo[part[t]]
      BY <3>2 DEF Total
    <3>4. \A t \in Tasks : Linked(part[t])' <=> Linked(part[t])
      BY <3>1 DEF Linked, NextInode
    <3> QED
      BY <3>1, <3>3, <3>4 DEF SizeInv
  <2> QED
    BY <2>1, <2>2, <2>3, <2>4 DEF Next
<1> QED
  BY <1>1, <1>2, Inductive, PTL DEF Spec

\* i_size is right between the calls of one task, however the calls ended, the
\* list grew, and lookups cut it, as long as no client call failed.
THEOREM SizeSettlesCorrect == OneTask => (Spec => []SizeSettles)
<1> SUFFICES ASSUME OneTask PROVE Spec => []SizeSettles
  OBVIOUS
<1>1. SizeInv => SizeSettles
  BY DEF SizeInv, SizeSettles, Settled
<1> QED
  BY <1>1, SizeInductive, PTL

=============================================================================
