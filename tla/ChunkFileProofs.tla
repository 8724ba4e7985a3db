-------------------------- MODULE ChunkFileProofs --------------------------
(***************************************************************************)
(* The safety of the continuation list for every number of tasks, chunks   *)
(* and blocks: Spec => []TypeOK, []ChainOK, []NoWildCont and []ReachCached.*)
(* All four follow from the inductive invariant IInv; the count of the     *)
(* tasks that die in create_continuation, from CountInv.                   *)
(***************************************************************************)
EXTENDS ChunkFile, UinoProofs, FiniteSetTheorems, TLAPS

-----------------------------------------------------------------------------
(* The inductive invariant                                                 *)

\* cd_start and cd_prev are determined by the chunk
StartOf(k) == (k - 1) * CLen
PrevOf(k)  == IF k = HeadPart THEN 0 ELSE co_uino(k - 1)

\* The link from part k leads to the part in the next chunk
LinksOn(k, u) == k + 1 \in Chunks /\ u = co_uino(k + 1)

Links(k) == xattr[k]["next"] \notin {Unset, 0}

\* What the attributes of a part may be
FieldsOK ==
    \A k \in Chunks :
        /\ xattr[k]["next"] \in {Unset, 0} \/ LinksOn(k, xattr[k]["next"])
        /\ xattr[k]["prev"] \in {Unset, PrevOf(k)}
        /\ xattr[k]["start"] \in {Unset, StartOf(k)}
        /\ xattr[k]["len"] \in {Unset, CLen}

\* A part that something links to is there, and complete if nothing failed
Ready(k) == k \in made /\ (faults = 0 => Complete(k))

LinksOK == \A k \in Chunks : Links(k) => Complete(k) /\ Ready(k + 1)

\* A continuation in memory: next may be out of date, but leads to a part
HeldOK(k, d) ==
    /\ Complete(k)
    /\ d["next"] = 0 \/ (LinksOn(k, d["next"]) /\ Ready(k + 1))
    /\ d["prev"] = PrevOf(k)
    /\ d["start"] = StartOf(k)
    /\ d["len"] = CLen

\* All that can be reached from part j is in the inode cache
Fresh(j) == \A m \in Chunks : j <= m /\ (\A i \in Chunks : j <= i /\ i < m => Links(i)) => m \in cached

Creating == {"create", "setnew", "setprev", "load"}

TaskOK(t) ==
    /\ pc[t] \in {"walk", "tail", "sync"} => part[t] = 0 \/ HeldOK(part[t], cd[t])
    /\ pc[t] \in Creating => /\ part[t] \in Chunks
                             /\ HeldOK(part[t], cd[t])
                             /\ cd[t]["next"] = 0
    /\ pc[t] \in Creating \ {"create"} => part[t] + 1 \in made \cap cached
    /\ pc[t] = "setnew" =>
          \A i \in 1 .. fld[t] - 1 : xattr[part[t] + 1][Order[i]] # Unset
    /\ pc[t] \in {"setprev", "load"} /\ faults = 0 => Complete(part[t] + 1)
    /\ (pc[t] = "setnew" /\ fld[t] > 1) \/ pc[t] \in {"setprev", "load"} =>
          (faults = 0 => Fresh(part[t] + 1))
    /\ pc[t] \in {"idle", "open", "lock", "walk", "tail", "create"} => fld[t] = 1
    /\ pc[t] = "dead" => faults # 0
    /\ pc[t] \in {"io", "up", "sum"} => part[t] \in Chunks
    /\ pc[t] \in {"idle", "open", "lock"} => part[t] = 0

\* The position is the one the call began with, then that in a part that was
\* loaded; one that goes back to the VFS is not negative
PosOK(t) ==
    /\ pc[t] \in {"lock", "walk", "tail"} \cup Creating => ppos[t] = call[t].at
    /\ pc[t] \in {"tail"} \cup Creating => call[t].op \in Writes
    /\ pc[t] = "lock" => call[t].op \in {"open", "fsync"} \cup Reads \cup Writes
    /\ pc[t] = "walk" => call[t].op \in {"open"} \cup Reads \cup Writes
    /\ pc[t] = "sync" => call[t].op = "fsync"
    /\ pc[t] = "io" => /\ call[t].op \in Reads \cup Writes
                       /\ Complete(part[t])
                       /\ ppos[t] = call[t].at - StartOf(part[t])
    /\ pc[t] = "io" /\ call[t].op \in Reads => ppos[t] \in 0 .. CLen - 1
    /\ pc[t] \in {"up", "sum"} /\ res[t] # Err => ppos[t] >= 0

IInv ==
    /\ TypeOK
    /\ FieldsOK
    /\ LinksOK
    /\ Complete(HeadPart)
    /\ hashed /\ faults = 0 => Fresh(HeadPart)
    /\ ~hashed => \A t \in Tasks : pc[t] = "idle"
    /\ \A t \in Tasks : TaskOK(t) /\ PosOK(t)

-----------------------------------------------------------------------------
(* Facts about the constants and the data of a continuation                *)

\* The uino of a part is not 0 and leads back to its chunk.
LEMMA UinoFacts ==
    ASSUME NEW k \in Chunks
    PROVE  co_uino(k) \in Nat \ {0} /\ UINO_TO_CHUNK_ID(co_uino(k)) = k
<1>1. /\ k \in 1 .. ChunkSpace - 1
      /\ k \in 0 .. ChunkSpace - 1
      /\ Ino[k] \in 0 .. InoSpace - 1
  BY ChunkAssumption, SpaceAssumption DEF Chunks
<1>. QED
  BY <1>1, UinoRoundTrip, UinoNotZero DEF co_uino

\* Only the head has the head's uino.
LEMMA UinoOfHead ==
    ASSUME NEW k \in Chunks, k # HeadPart
    PROVE  co_uino(k) # co_uino(HeadPart)
<1>1. HeadPart \in Chunks
  BY ChunkAssumption DEF HeadPart, Chunks
<1>. QED
  BY <1>1, UinoFacts

\* Each part starts where the one before it ends, the head at 0.
LEMMA StartFacts ==
    /\ StartOf(HeadPart) = 0
    /\ \A k \in Chunks : StartOf(k) \in Nat /\ StartOf(k + 1) = StartOf(k) + CLen
<1>1. StartOf(HeadPart) = 0
  BY ChunkAssumption DEF StartOf, HeadPart
<1>2. ASSUME NEW k \in Chunks
      PROVE  StartOf(k) \in Nat /\ StartOf(k + 1) = StartOf(k) + CLen
  <2>1. k \in Nat /\ k - 1 \in Nat /\ CLen \in Nat
    BY ChunkAssumption DEF Chunks
  <2>2. (k - 1) * CLen \in Nat
    BY <2>1
  <2>3. ((k + 1) - 1) * CLen = (k - 1) * CLen + CLen
    BY <2>1
  <2>. QED
    BY <2>2, <2>3 DEF StartOf
<1>. QED
  BY <1>1, <1>2

LEMMA CDFacts ==
    ASSUME NEW n \in Int, NEW p \in Int, NEW s \in Int, NEW l \in Int
    PROVE  /\ CD(n, p, s, l) \in [Fields -> Int]
           /\ CD(n, p, s, l)["next"] = n
           /\ CD(n, p, s, l)["prev"] = p
           /\ CD(n, p, s, l)["start"] = s
           /\ CD(n, p, s, l)["len"] = l
  BY DEF CD, Fields

LEMMA OrderFacts ==
    /\ Order[1] = "next" /\ Order[2] = "prev" /\ Order[3] = "start" /\ Order[4] = "len"
    /\ \A i \in 1 .. 4 : Order[i] \in Fields
    /\ \A f \in Fields : \E i \in 1 .. 4 : f = Order[i]
  BY DEF Order, Fields

\* The data create_continuation writes to the new part and to the last one
LEMMA NewDataFacts ==
    ASSUME NEW k \in Chunks, k + 1 \in Chunks, NEW d \in [Fields -> Int],
           d["start"] = StartOf(k), d["len"] = CLen
    PROVE  /\ NewData(k, d) \in [Fields -> Int]
           /\ NewData(k, d)["next"] = 0
           /\ NewData(k, d)["prev"] = PrevOf(k + 1)
           /\ NewData(k, d)["start"] = StartOf(k + 1)
           /\ NewData(k, d)["len"] = CLen
           /\ PrevData(k, d) \in [Fields -> Int]
           /\ PrevData(k, d)["next"] = co_uino(k + 1)
           /\ \A f \in Fields \ {"next"} : PrevData(k, d)[f] = d[f]
<1>1. co_uino(k) \in Int /\ co_uino(k + 1) \in Int
  BY UinoFacts
<1>2. StartOf(k) + CLen = StartOf(k + 1) /\ StartOf(k) \in Int /\ CLen \in Int
  BY StartFacts, ChunkAssumption
<1>3. PrevOf(k + 1) = co_uino(k)
  BY DEF PrevOf, HeadPart, Chunks
<1>4. NewData(k, d) = CD(0, co_uino(k), StartOf(k + 1), CLen)
  BY <1>2 DEF NewData
<1>5. StartOf(k + 1) \in Int
  BY <1>2
<1>6. PrevData(k, d) \in [Fields -> Int] /\ PrevData(k, d)["next"] = co_uino(k + 1)
  BY <1>1 DEF PrevData, Fields
<1>7. \A f \in Fields \ {"next"} : PrevData(k, d)[f] = d[f]
  BY DEF PrevData, Fields
<1>8. /\ CD(0, co_uino(k), StartOf(k + 1), CLen) \in [Fields -> Int]
      /\ CD(0, co_uino(k), StartOf(k + 1), CLen)["next"] = 0
      /\ CD(0, co_uino(k), StartOf(k + 1), CLen)["prev"] = co_uino(k)
      /\ CD(0, co_uino(k), StartOf(k + 1), CLen)["start"] = StartOf(k + 1)
      /\ CD(0, co_uino(k), StartOf(k + 1), CLen)["len"] = CLen
  BY <1>1, <1>2, <1>5 DEF CD, Fields
<1>. QED
  BY <1>3, <1>4, <1>6, <1>7, <1>8

-----------------------------------------------------------------------------
(* Steps that leave the attributes alone                                   *)

\* The locals of u that the invariant speaks of are as before
Kept(u) == /\ pc'[u] = pc[u] /\ call'[u] = call[u] /\ ppos'[u] = ppos[u]
           /\ part'[u] = part[u] /\ cd'[u] = cd[u] /\ fld'[u] = fld[u] /\ res'[u] = res[u]

\* Attributes stay, files are only created, inodes only cached
Quiet == /\ xattr' = xattr /\ hashed' = hashed
         /\ made \subseteq made' /\ cached \subseteq cached'
         /\ faults' \in {faults, faults + 1}

\* A quiet step keeps what the invariant says of a task whose locals stay.
LEMMA KeptTask ==
    ASSUME IInv, Quiet, NEW u \in Tasks, Kept(u)
    PROVE  TaskOK(u)' /\ PosOK(u)'
<1>1. faults \in Nat /\ (faults' = 0 => faults = 0)
  BY InputAssumption DEF IInv, TypeOK, HistoryType, Quiet
<1>2. \A k : Complete(k)' <=> Complete(k)
  BY DEF Complete, Quiet
<1>3. \A j : Fresh(j) => Fresh(j)'
  BY DEF Fresh, Links, Quiet
<1>4. \A k, d : HeldOK(k, d) => HeldOK(k, d)'
  BY <1>1, <1>2 DEF HeldOK, Ready, LinksOn, Quiet
<1>5. TaskOK(u) /\ PosOK(u)
  BY DEF IInv
<1>6. PosOK(u)'
  BY <1>2, <1>5 DEF PosOK, Kept
<1>7. /\ \A i \in 1 .. fld[u] - 1 : xattr'[part[u] + 1][Order[i]] = xattr[part[u] + 1][Order[i]]
      /\ part[u] + 1 \in made \cap cached => part[u] + 1 \in made' \cap cached'
  BY DEF Quiet
<1>8. TaskOK(u)'
  BY <1>1, <1>2, <1>3, <1>4, <1>5, <1>7 DEF TaskOK, Kept
<1>. QED
  BY <1>6, <1>8

\* A quiet step of t, after which t itself is as the invariant says.
LEMMA QuietStep ==
    ASSUME IInv, Quiet, TypeOK', hashed,
           NEW t \in Tasks, TaskOK(t)', PosOK(t)',
           \A u \in Tasks \ {t} : Kept(u)
    PROVE  IInv'
<1>1. faults \in Nat /\ (faults' = 0 => faults = 0)
  BY InputAssumption DEF IInv, TypeOK, HistoryType, Quiet
<1>2. \A u \in Tasks : TaskOK(u)' /\ PosOK(u)'
  BY KeptTask
<1>3. FieldsOK' /\ Complete(HeadPart)'
  BY DEF IInv, FieldsOK, Complete, Quiet
<1>4. LinksOK'
  BY <1>1 DEF IInv, LinksOK, Links, Ready, Complete, Quiet
<1>5. (hashed /\ faults = 0 => Fresh(HeadPart))'
  BY <1>1 DEF IInv, Fresh, Links, Quiet
<1>6. hashed'
  BY DEF Quiet
<1>. QED
  BY <1>2, <1>3, <1>4, <1>5, <1>6 DEF IInv

\* A call that returns leaves the task between calls, with a proper f_pos.
LEMMA ReturnLocals ==
    ASSUME IInv, NEW t \in Tasks, NEW r, Return(t, r),
           call[t].op \in {"read", "write"} /\ r # Err => ppos[t] >= 0
    PROVE  /\ LocalType'
           /\ TaskOK(t)' /\ PosOK(t)'
           /\ \A u \in Tasks \ {t} : Kept(u)
<1>1. LocalType
  BY DEF IInv, TypeOK
<1>2. NoData \in [Fields -> Int]
  BY DEF NoData, CD
<1>3. pc'[t] \in {"idle", "open"} /\ pc' \in [Tasks -> Places]
  BY <1>1 DEF LocalType, Return, Goto, Places
<1>4. fpos' \in [Tasks -> Nat]
  BY <1>1 DEF LocalType, Return
<1>5. call' \in [Tasks -> CallType]
  BY <1>1 DEF LocalType, Return, NoCall, CallType, Ops
<1>6. /\ ppos' \in [Tasks -> Int]
      /\ part' \in [Tasks -> 0 .. NChunks]
      /\ cd' \in [Tasks -> [Fields -> Int]]
      /\ fld' \in [Tasks -> 1 .. 4]
      /\ sum' \in [Tasks -> Nat]
      /\ DOMAIN res' = Tasks
  BY <1>1, <1>2, ChunkAssumption DEF LocalType, Return, Drop
<1>7. TaskOK(t)' /\ PosOK(t)'
  <2>1. part'[t] = 0 /\ fld'[t] = 1
    BY <1>1 DEF LocalType, Return, Drop
  <2>. QED
    BY <1>3, <2>1 DEF TaskOK, PosOK, Creating
<1>8. \A u \in Tasks \ {t} : Kept(u)
  BY <1>1 DEF LocalType, Return, Drop, Goto, Kept
<1>. QED
  BY <1>3, <1>4, <1>5, <1>6, <1>7, <1>8 DEF LocalType

\* A task inside or between calls of an open file keeps the dentry hashed.
LEMMA Pinned ==
    ASSUME IInv, NEW t \in Tasks, pc[t] # "idle"
    PROVE  hashed
  BY DEF IInv

\* A client call that may fail counts its failure, if it has one.
LEMMA FaultFacts ==
    ASSUME HistoryType, NEW t
    PROVE  /\ UNCHANGED faults \/ Fault =>
                 faults' \in {faults, faults + 1} /\ faults' \in 0 .. MaxFaults
           /\ Enoent(t) \/ Enodata(t) \/ Nowhere(t) => UNCHANGED faults \/ Fault
<1>1. UNCHANGED faults \/ Fault =>
         faults' \in {faults, faults + 1} /\ faults' \in 0 .. MaxFaults
  BY InputAssumption DEF Fault, HistoryType
<1>2. Enoent(t) \/ Enodata(t) \/ Nowhere(t) => UNCHANGED faults \/ Fault
  BY DEF Enoent, Enodata, Nowhere
<1>. QED
  BY <1>1, <1>2

\* get_next_cont only ever returns parts that exist and load.
LEMMA FollowingFacts ==
    ASSUME IInv, NEW t \in Tasks, NextCont(t)
    PROVE  Following(t) \in Chunks /\ Complete(Following(t))
<1>1. HeadPart \in Chunks
  BY ChunkAssumption DEF HeadPart, Chunks
<1>2. made \subseteq Chunks
  BY DEF IInv, TypeOK, DiskType
<1>. QED
  BY <1>1, <1>2 DEF NextCont, PathOK, Following

\* The data of a complete part is what a held continuation must be.
LEMMA LoadedOK ==
    ASSUME IInv, NEW k \in Chunks, Complete(k)
    PROVE  HeldOK(k, xattr[k]) /\ xattr[k] \in [Fields -> Int]
<1>1. \A f \in {"next", "prev", "start", "len"} : xattr[k][f] # Unset
  BY DEF Complete, Fields
<1>2. xattr[k]["next"] = 0 \/ (LinksOn(k, xattr[k]["next"]) /\ Ready(k + 1))
  BY <1>1 DEF IInv, FieldsOK, LinksOK, Links
<1>3. /\ xattr[k]["prev"] = PrevOf(k)
      /\ xattr[k]["start"] = StartOf(k)
      /\ xattr[k]["len"] = CLen
  BY <1>1 DEF IInv, FieldsOK
<1>. QED
  BY <1>2, <1>3 DEF HeldOK, IInv, TypeOK, DiskType

\* Holding a loaded part
LEMMA HoldLocals ==
    ASSUME IInv, NEW t \in Tasks, NEW k \in Chunks, Complete(k), Hold(t, k)
    PROVE  /\ part' \in [Tasks -> 0 .. NChunks] /\ cd' \in [Tasks -> [Fields -> Int]]
           /\ part'[t] = k /\ cd'[t] = xattr[k]
           /\ \A u \in Tasks \ {t} : part'[u] = part[u] /\ cd'[u] = cd[u]
  BY LoadedOK DEF IInv, TypeOK, LocalType, Hold, Chunks

-----------------------------------------------------------------------------
(* One lemma per action                                                    *)

\* The kind of a call, with O_APPEND given or absent
LEMMA SysCallType ==
    ASSUME IInv, NEW op \in Ops, NEW n \in Nat, NEW v \in Blocks \cup {Hole}, NEW p \in Nat
    PROVE  /\ \A a \in BOOLEAN : /\ SysCall(op, n, v, p, a) \in CallType
                                 /\ SysCall(op, n, v, p, a).op = op
           /\ SysCall(op, n, v, p, FALSE) \in CallType
           /\ SysCall(op, n, v, p, FALSE).op = op
<1>1. wend \in Nat
  BY DEF IInv, TypeOK, HistoryType
<1>. QED
  BY <1>1 DEF SysCall, CallType

\* Begin, and the locals it leaves alone
LEMMA BeginLocals ==
    ASSUME IInv, NEW t \in Tasks, NEW c \in CallType, NEW where \in Places, Begin(t, c, where)
    PROVE  /\ pc' \in [Tasks -> Places]
           /\ call' \in [Tasks -> CallType]
           /\ ppos' \in [Tasks -> Int]
           /\ DOMAIN res' = Tasks
           /\ pc'[t] = where /\ call'[t] = c /\ ppos'[t] = c.at /\ c.at \in Nat
           /\ \A u \in Tasks \ {t} : /\ pc'[u] = pc[u] /\ call'[u] = call[u]
                                     /\ ppos'[u] = ppos[u] /\ res'[u] = res[u]
<1>1. LocalType
  BY DEF IInv, TypeOK
<1>2. c.at \in Nat
  BY DEF CallType
<1>3. /\ pc' \in [Tasks -> Places] /\ pc'[t] = where
      /\ \A u \in Tasks \ {t} : pc'[u] = pc[u]
  BY <1>1 DEF LocalType, Begin, Goto
<1>4. /\ call' \in [Tasks -> CallType] /\ call'[t] = c
      /\ \A u \in Tasks \ {t} : call'[u] = call[u]
  BY <1>1 DEF LocalType, Begin
<1>5. /\ ppos' \in [Tasks -> Int] /\ ppos'[t] = c.at
      /\ \A u \in Tasks \ {t} : ppos'[u] = ppos[u]
  BY <1>1, <1>2 DEF LocalType, Begin
<1>6. DOMAIN res' = Tasks /\ \A u \in Tasks \ {t} : res'[u] = res[u]
  BY <1>1 DEF LocalType, Begin
<1>. QED
  BY <1>2, <1>3, <1>4, <1>5, <1>6

\* Between calls a task holds no continuation
LEMMA IdlePart ==
    ASSUME IInv, NEW t \in Tasks, pc[t] \in {"idle", "open"}
    PROVE  part[t] = 0 /\ fld[t] = 1
  BY DEF IInv, TaskOK

LEMMA EnterInv ==
    ASSUME IInv, NEW t \in Tasks, Enter(t)
    PROVE  IInv'
<1>1. /\ DiskType /\ InodeType /\ LocalType /\ HistoryType
      /\ part[t] = 0 /\ fld[t] = 1
      /\ \A k \in Chunks : k \in 0 .. NChunks
      /\ HeadPart \in Chunks
  <2>1. pc[t] \in {"idle", "open"}
    BY DEF Enter, Open, Read, Pread, ReadFrom, Write, Pwrite, WriteTo, Fsync, Seek, Close, Setattr
  <2>. QED
    BY <2>1, IdlePart, ChunkAssumption DEF IInv, TypeOK, Chunks, HeadPart
<1>2. hashed
  BY Pinned DEF Enter, Open, Read, Pread, ReadFrom, Write, Pwrite, WriteTo, Fsync, Seek, Close, Setattr
<1>3. CASE \E c \in CallType :
             /\ c.op \in {"open", "fsync"} \cup Reads \cup Writes
             /\ Begin(t, c, "lock")
             /\ owed' \in [Tasks -> SUBSET Chunks]
             /\ UNCHANGED <<disk, inode, lock, fpos, part, cd, fld, sum, wend, faults>>
  <2>1. PICK c \in CallType : /\ c.op \in {"open", "fsync"} \cup Reads \cup Writes
                              /\ Begin(t, c, "lock")
    BY <1>3
  <2>2. "lock" \in Places
    BY DEF Places
  <2>3. /\ pc' \in [Tasks -> Places]
        /\ call' \in [Tasks -> CallType]
        /\ ppos' \in [Tasks -> Int]
        /\ DOMAIN res' = Tasks
        /\ pc'[t] = "lock" /\ call'[t] = c /\ ppos'[t] = c.at
        /\ \A u \in Tasks \ {t} : /\ pc'[u] = pc[u] /\ call'[u] = call[u]
                                  /\ ppos'[u] = ppos[u] /\ res'[u] = res[u]
    BY <2>1, <2>2, BeginLocals
  <2>4. TypeOK'
    BY <1>1, <1>3, <2>3 DEF TypeOK, DiskType, InodeType, LocalType, HistoryType, disk, inode
  <2>5. TaskOK(t)' /\ PosOK(t)'
    BY <1>1, <1>3, <2>1, <2>3 DEF TaskOK, PosOK, Creating
  <2>6. Quiet /\ \A u \in Tasks \ {t} : Kept(u)
    BY <1>3, <2>3 DEF Quiet, Kept, disk, inode
  <2>. QED
    BY <1>2, <2>4, <2>5, <2>6, QuietStep
<1>4. CASE Open(t) \/ Read(t) \/ Pread(t) \/ Write(t) \/ Pwrite(t) \/ Fsync(t)
  <2>1. fpos[t] \in Nat /\ 0 \in Nat /\ \A p \in 0 .. MaxPos : p \in Nat
    BY <1>1, InputAssumption DEF LocalType
  <2>2. {"open", "read", "pread", "write", "pwrite", "fsync"} \subseteq Ops
    BY DEF Ops, Reads, Writes
  <2>3. CASE Open(t)
    <3>1. SysCall("open", 0, Hole, 0, FALSE) \in CallType /\ SysCall("open", 0, Hole, 0, FALSE).op = "open"
      BY <2>1, <2>2, SysCallType
    <3>. QED
      BY <1>1, <1>3, <2>3, <3>1 DEF Open, HistoryType
  <2>4. ASSUME NEW op \in Reads, NEW p \in Nat, ReadFrom(t, op, p)
        PROVE  IInv'
    <3>1. PICK n \in ReadLens : Begin(t, SysCall(op, n, Hole, p, FALSE), "lock")
      BY <2>4 DEF ReadFrom
    <3>2. n \in Nat /\ op \in Ops
      BY <2>2, InputAssumption DEF Reads
    <3>3. /\ SysCall(op, n, Hole, p, FALSE) \in CallType
          /\ SysCall(op, n, Hole, p, FALSE).op \in Reads
      BY <3>2, SysCallType
    <3>. QED
      BY <1>1, <1>3, <2>4, <3>1, <3>3 DEF ReadFrom, HistoryType
  <2>5. ASSUME NEW op \in Writes, NEW p \in Nat, WriteTo(t, op, p)
        PROVE  IInv'
    <3>1. PICK n \in WriteLens, v \in Blocks, a \in Appends :
             Begin(t, SysCall(op, n, v, p, a), "lock")
      BY <2>5 DEF WriteTo
    <3>2. n \in Nat /\ v \in Blocks \cup {Hole} /\ a \in BOOLEAN /\ op \in Ops
      BY <2>2, InputAssumption DEF Writes
    <3>3. /\ SysCall(op, n, v, p, a) \in CallType
          /\ SysCall(op, n, v, p, a).op \in Writes
      BY <3>2, SysCallType
    <3>. QED
      BY <1>1, <1>3, <2>5, <3>1, <3>3 DEF WriteTo, HistoryType
  <2>6. CASE Fsync(t)
    <3>1. SysCall("fsync", 0, Hole, fpos[t], FALSE) \in CallType /\ SysCall("fsync", 0, Hole, fpos[t], FALSE).op = "fsync"
      BY <2>1, <2>2, SysCallType
    <3>. QED
      BY <1>1, <1>3, <2>6, <3>1 DEF Fsync, HistoryType, DiskType
  <2>7. "read" \in Reads /\ "pread" \in Reads /\ "write" \in Writes /\ "pwrite" \in Writes
    BY DEF Reads, Writes
  <2>. QED
    BY <1>4, <2>1, <2>3, <2>4, <2>5, <2>6, <2>7 DEF Read, Pread, Write, Pwrite
<1>5. CASE Seek(t) \/ Close(t)
  <2>1. /\ pc' \in [Tasks -> Places] /\ pc'[t] \in {"idle", "open"}
        /\ fpos' \in [Tasks -> Nat] /\ DOMAIN res' = Tasks
        /\ owed' \in [Tasks -> SUBSET Chunks]
        /\ \A u \in Tasks \ {t} : pc'[u] = pc[u] /\ res'[u] = res[u]
        /\ UNCHANGED <<disk, inode, lock, call, ppos, part, cd, fld, sum, wend, faults>>
    <3>1. CASE Seek(t)
      <4>1. PICK p \in 0 .. MaxPos : fpos' = [fpos EXCEPT ![t] = p]
        BY <3>1 DEF Seek
      <4>2. p \in Nat
        BY InputAssumption
      <4>. QED
        BY <1>1, <3>1, <4>1, <4>2 DEF Seek, LocalType, HistoryType
    <3>2. CASE Close(t)
      <4>1. "idle" \in Places
        BY DEF Places
      <4>. QED
        BY <1>1, <3>2, <4>1 DEF Close, Goto, LocalType, HistoryType
    <3>. QED
      BY <1>5, <3>1, <3>2
  <2>2. TypeOK'
    BY <1>1, <2>1 DEF TypeOK, DiskType, InodeType, LocalType, HistoryType, disk, inode
  <2>3. TaskOK(t)' /\ PosOK(t)'
    BY <1>1, <2>1 DEF TaskOK, PosOK, Creating
  <2>4. Quiet /\ \A u \in Tasks \ {t} : Kept(u)
    BY <2>1 DEF Quiet, Kept, disk, inode
  <2>. QED
    BY <1>2, <2>2, <2>3, <2>4, QuietStep
<1>6. CASE Setattr(t)
  <2>1. PICK op \in Ops, n \in Nat : Begin(t, SysCall(op, n, Hole, fpos[t], FALSE), "up")
    BY <1>6, InputAssumption DEF Setattr, Ops
  <2>2. "up" \in Places /\ SysCall(op, n, Hole, fpos[t], FALSE) \in CallType
    BY <1>1, SysCallType DEF Places, LocalType
  <2>3. /\ pc' \in [Tasks -> Places]
        /\ call' \in [Tasks -> CallType]
        /\ ppos' \in [Tasks -> Int]
        /\ DOMAIN res' = Tasks
        /\ pc'[t] = "up" /\ ppos'[t] \in Nat
        /\ \A u \in Tasks \ {t} : /\ pc'[u] = pc[u] /\ call'[u] = call[u]
                                  /\ ppos'[u] = ppos[u] /\ res'[u] = res[u]
    BY <2>1, <2>2, BeginLocals
  <2>4. \A s \in Seq(Blocks \cup {Hole}), n1 \in Nat : Resized(s, n1) \in Seq(Blocks \cup {Hole})
    BY DEF Resized
  <2>5. DiskType' /\ wend' \in Nat
    <3>1. CASE \E n1 \in Sizes : /\ data' = [data EXCEPT ![HeadPart] = Resized(@, n1)]
                                 /\ wend' = Least(n1, wend)
                                 /\ dirty' = dirty \cup {HeadPart}
                                 /\ UNCHANGED cattr
      <4>1. PICK n1 \in Sizes : /\ data' = [data EXCEPT ![HeadPart] = Resized(@, n1)]
                                /\ wend' = Least(n1, wend)
        BY <3>1
      <4>2. n1 \in Nat
        BY InputAssumption
      <4>3. data' \in [Chunks -> Seq(Blocks \cup {Hole})] /\ wend' \in Nat
        BY <1>1, <2>4, <4>1, <4>2 DEF DiskType, HistoryType, Least
      <4>. QED
        BY <1>1, <1>6, <3>1, <4>3 DEF DiskType, Setattr
    <3>2. CASE \E m \in Modes : /\ cattr' = [cattr EXCEPT ![HeadPart] = m]
                                /\ UNCHANGED <<data, wend, dirty>>
      BY <1>1, <1>6, <3>2 DEF DiskType, HistoryType, Setattr
    <3>. QED
      BY <1>6, <3>1, <3>2 DEF Setattr
  <2>6. /\ InodeType' /\ HistoryType'
        /\ part' \in [Tasks -> 0 .. NChunks] /\ part'[t] = HeadPart
        /\ \A u \in Tasks \ {t} : part'[u] = part[u]
        /\ UNCHANGED <<xattr, made, inode, fpos, cd, fld, sum, faults>>
    BY <1>1, <1>6, <2>5 DEF InodeType, HistoryType, LocalType, Setattr, inode
  <2>7. LocalType'
    BY <1>1, <2>3, <2>6 DEF LocalType
  <2>8. TaskOK(t)' /\ PosOK(t)'
    BY <1>1, <2>3, <2>6 DEF TaskOK, PosOK, Creating
  <2>9. Quiet /\ \A u \in Tasks \ {t} : Kept(u)
    BY <2>3, <2>6 DEF Quiet, Kept, inode
  <2>. QED
    BY <1>2, <2>5, <2>6, <2>7, <2>8, <2>9, QuietStep DEF TypeOK
<1>. QED
  BY <1>4, <1>5, <1>6 DEF Enter

\* The steps of get_cont_at_offset and open_cont_file
LEMMA WalkInv ==
    ASSUME IInv, NEW t \in Tasks,
           Lock(t) \/ WalkOn(t) \/ WalkFound(t) \/ WalkNoOpen(t) \/ WalkEnd(t) \/ WalkErr(t)
    PROVE  IInv'
<1>1. /\ DiskType /\ InodeType /\ LocalType /\ HistoryType
      /\ TaskOK(t) /\ PosOK(t)
      /\ pc[t] \in {"lock", "walk"}
  BY DEF IInv, TypeOK, Lock, WalkOn, WalkFound, WalkNoOpen, WalkEnd, WalkErr
<1>2. hashed /\ ppos[t] \in Nat
  BY <1>1, Pinned DEF PosOK, LocalType, CallType
<1>3. CASE Lock(t)
  <2>1. /\ TypeOK' /\ pc'[t] \in {"walk", "sync"}
        /\ pc'[t] = "walk" <=> call[t].op # "fsync"
        /\ \A u \in Tasks \ {t} : pc'[u] = pc[u]
    BY <1>1, <1>3 DEF TypeOK, DiskType, InodeType, LocalType, HistoryType, Lock, Goto, Places,
       disk, inode
  <2>2. TaskOK(t)' /\ PosOK(t)'
    BY <1>1, <1>2, <1>3, <2>1 DEF Lock, TaskOK, PosOK, Creating
  <2>3. Quiet /\ \A u \in Tasks \ {t} : Kept(u)
    BY <1>3, <2>1 DEF Lock, Quiet, Kept, disk, inode
  <2>. QED
    BY <1>2, <2>1, <2>2, <2>3, QuietStep
<1>4. CASE WalkOn(t)
  <2>1. Following(t) \in Chunks /\ Complete(Following(t)) /\ Hold(t, Following(t))
    BY <1>4, FollowingFacts DEF WalkOn
  <2>2. /\ part' \in [Tasks -> 0 .. NChunks] /\ cd' \in [Tasks -> [Fields -> Int]]
        /\ part'[t] = Following(t) /\ cd'[t] = xattr[Following(t)]
        /\ \A u \in Tasks \ {t} : part'[u] = part[u] /\ cd'[u] = cd[u]
    BY <2>1, HoldLocals
  <2>3. TypeOK'
    BY <1>1, <1>4, <2>2 DEF TypeOK, DiskType, InodeType, LocalType, HistoryType, WalkOn, disk, inode
  <2>4. HeldOK(part[t], cd[t])'
    <3>1. HeldOK(Following(t), xattr[Following(t)])
      BY <2>1, LoadedOK
    <3>2. UNCHANGED <<xattr, made, faults>>
      BY <1>4 DEF WalkOn, disk
    <3>. QED
      BY <2>2, <3>1, <3>2 DEF HeldOK, Ready, Complete
  <2>5. TaskOK(t)' /\ PosOK(t)'
    BY <1>1, <1>4, <2>4 DEF WalkOn, TaskOK, PosOK, Creating
  <2>6. Quiet /\ \A u \in Tasks \ {t} : Kept(u)
    BY <1>4, <2>2 DEF WalkOn, Quiet, Kept, disk, inode
  <2>. QED
    BY <1>2, <2>3, <2>5, <2>6, QuietStep
<1>5. CASE WalkFound(t)
  <2>1. Following(t) \in Chunks /\ Complete(Following(t)) /\ Hold(t, Following(t))
    BY <1>5, FollowingFacts DEF WalkFound
  <2>2. /\ part' \in [Tasks -> 0 .. NChunks] /\ cd' \in [Tasks -> [Fields -> Int]]
        /\ part'[t] = Following(t)
        /\ \A u \in Tasks \ {t} : part'[u] = part[u] /\ cd'[u] = cd[u]
    BY <2>1, HoldLocals
  <2>3. /\ xattr[Following(t)]["start"] = StartOf(Following(t)) /\ StartOf(Following(t)) \in Nat
        /\ ppos[t] >= StartOf(Following(t)) /\ ppos[t] < StartOf(Following(t)) + CLen
    <3>1. xattr[Following(t)]["start"] = StartOf(Following(t)) /\ xattr[Following(t)]["len"] = CLen
      BY <2>1, LoadedOK DEF HeldOK
    <3>. QED
      BY <1>5, <2>1, <3>1, StartFacts DEF WalkFound, Covers
  <2>4. /\ ppos' \in [Tasks -> Int] /\ ppos'[t] = ppos[t] - StartOf(Following(t))
        /\ pc' \in [Tasks -> Places] /\ pc'[t] \in {"up", "io"}
        /\ \A u \in Tasks \ {t} : ppos'[u] = ppos[u] /\ pc'[u] = pc[u]
    BY <1>1, <1>2, <1>5, <2>3 DEF WalkFound, Goto, LocalType, Places
  <2>5. TypeOK'
    BY <1>1, <1>5, <2>1, <2>2, <2>4
       DEF TypeOK, DiskType, InodeType, LocalType, HistoryType, WalkFound, Unlock, disk
  <2>6. pc'[t] = "io" => call'[t].op \in Reads \cup Writes
    <3>1. pc[t] = "walk" => call[t].op \in {"open"} \cup Reads \cup Writes
      BY <1>1 DEF PosOK
    <3>. QED
      BY <1>1, <1>5, <3>1 DEF WalkFound, Goto, LocalType
  <2>7. TaskOK(t)'
    BY <2>1, <2>2, <2>4 DEF TaskOK, Creating
  <2>9. PosOK(t)'
    <3>1. Complete(part[t])' /\ UNCHANGED call /\ pc[t] = "walk"
      BY <1>5, <2>1, <2>2 DEF WalkFound, Complete, disk
    <3>2. ppos'[t] \in 0 .. CLen - 1 /\ ppos'[t] = call'[t].at - StartOf(part'[t])
      BY <1>1, <1>2, <2>2, <2>3, <2>4, <3>1, ChunkAssumption DEF PosOK
    <3>. QED
      BY <2>4, <2>6, <3>1, <3>2, ChunkAssumption DEF PosOK, Creating
  <2>8. Quiet /\ \A u \in Tasks \ {t} : Kept(u)
    BY <1>5, <2>2, <2>4 DEF WalkFound, Quiet, Kept, disk
  <2>. QED
    BY <1>2, <2>5, <2>7, <2>8, <2>9, QuietStep
<1>6. CASE WalkNoOpen(t) \/ WalkErr(t) \/ (WalkEnd(t) /\ call[t].op \notin Writes)
  <2>1. PICK r : Return(t, r)
    BY <1>6 DEF WalkNoOpen, WalkErr, WalkEnd
  <2>2. /\ LocalType' /\ TaskOK(t)' /\ PosOK(t)'
        /\ \A u \in Tasks \ {t} : Kept(u)
    BY <1>2, <2>1, ReturnLocals
  <2>3. /\ UNCHANGED <<disk, inode, owed, wend>> /\ lock' = NoTask
        /\ faults' \in {faults, faults + 1} /\ faults' \in 0 .. MaxFaults
    BY <1>1, <1>6, FaultFacts DEF WalkNoOpen, WalkErr, WalkEnd, Unlock
  <2>4. TypeOK'
    BY <1>1, <2>2, <2>3 DEF TypeOK, DiskType, InodeType, HistoryType, disk, inode
  <2>5. Quiet
    BY <2>3 DEF Quiet, disk, inode
  <2>. QED
    BY <1>2, <2>2, <2>4, <2>5, QuietStep
<1>7. CASE WalkEnd(t) /\ call[t].op \in Writes
  <2>1. /\ pc' \in [Tasks -> Places] /\ pc'[t] = "tail"
        /\ part' \in [Tasks -> 0 .. NChunks] /\ part'[t] = 0
        /\ cd' \in [Tasks -> [Fields -> Int]]
        /\ \A u \in Tasks \ {t} : pc'[u] = pc[u] /\ part'[u] = part[u] /\ cd'[u] = cd[u]
    <3>1. NoData \in [Fields -> Int] /\ "tail" \in Places /\ 0 \in 0 .. NChunks
      BY ChunkAssumption DEF NoData, CD, Places
    <3>2. Goto(t, "tail") /\ Drop(t)
      BY <1>7 DEF WalkEnd
    <3>. QED
      BY <1>1, <3>1, <3>2 DEF Goto, Drop, LocalType
  <2>5. /\ UNCHANGED <<disk, inode, owed, wend>> /\ lock' = NoTask
        /\ UNCHANGED <<call, fpos, ppos, fld, sum, res>>
        /\ faults' \in {faults, faults + 1} /\ faults' \in 0 .. MaxFaults
    BY <1>1, <1>7, FaultFacts DEF WalkEnd, Unlock
  <2>2. TypeOK'
    BY <1>1, <2>1, <2>5 DEF TypeOK, DiskType, InodeType, LocalType, HistoryType, disk, inode
  <2>3. TaskOK(t)' /\ PosOK(t)'
    BY <1>1, <1>2, <1>7, <2>1, <2>5 DEF WalkEnd, TaskOK, PosOK, Creating
  <2>4. Quiet /\ \A u \in Tasks \ {t} : Kept(u)
    BY <2>1, <2>5 DEF Quiet, Kept, disk, inode
  <2>. QED
    BY <1>2, <2>2, <2>3, <2>4, QuietStep
<1>. QED
  BY <1>3, <1>4, <1>5, <1>6, <1>7

\* The steps of create_continuation that write no attribute
LEMMA CreateInv ==
    ASSUME IInv, NEW t \in Tasks,
           \/ TailOn(t) \/ TailEnd(t) \/ TailErr(t) \/ Create(t) \/ CreateErr(t)
           \/ SetErr(t) \/ LoadNew(t) \/ LoadNewErr(t)
    PROVE  IInv'
<1>1. /\ DiskType /\ InodeType /\ LocalType /\ HistoryType
      /\ TaskOK(t) /\ PosOK(t)
      /\ pc[t] \in {"tail"} \cup Creating
  BY DEF IInv, TypeOK, TailOn, TailEnd, TailErr, Create, CreateErr, SetErr, LoadNew, LoadNewErr, Creating
<1>2. hashed /\ ppos[t] \in Nat /\ call[t].op \in Writes
  BY <1>1, Pinned DEF PosOK, LocalType, CallType, Creating
<1>3. pc[t] \in Creating => /\ part[t] \in Chunks /\ HeldOK(part[t], cd[t]) /\ cd[t]["next"] = 0
  BY <1>1 DEF TaskOK
<1>4. faults \in Nat
  BY <1>1, InputAssumption DEF HistoryType
<1>5. CASE TailOn(t)
  <2>1. Following(t) \in Chunks /\ Complete(Following(t)) /\ Hold(t, Following(t))
    BY <1>5, FollowingFacts DEF TailOn
  <2>2. /\ part' \in [Tasks -> 0 .. NChunks] /\ cd' \in [Tasks -> [Fields -> Int]]
        /\ part'[t] = Following(t) /\ cd'[t] = xattr[Following(t)]
        /\ \A u \in Tasks \ {t} : part'[u] = part[u] /\ cd'[u] = cd[u]
    BY <2>1, HoldLocals
  <2>3. TypeOK'
    BY <1>1, <1>5, <2>2 DEF TypeOK, DiskType, InodeType, LocalType, HistoryType, TailOn, disk, inode
  <2>4. HeldOK(part[t], cd[t])'
    <3>1. HeldOK(Following(t), xattr[Following(t)])
      BY <2>1, LoadedOK
    <3>2. UNCHANGED <<xattr, made, faults>>
      BY <1>5 DEF TailOn, disk
    <3>. QED
      BY <2>2, <3>1, <3>2 DEF HeldOK, Ready, Complete
  <2>5. TaskOK(t)' /\ PosOK(t)'
    BY <1>1, <1>5, <2>4 DEF TailOn, TaskOK, PosOK, Creating
  <2>6. Quiet /\ \A u \in Tasks \ {t} : Kept(u)
    BY <1>5, <2>2 DEF TailOn, Quiet, Kept, disk, inode
  <2>. QED
    BY <1>2, <2>3, <2>5, <2>6, QuietStep
<1>6. CASE TailEnd(t)
  <2>1. part[t] \in Chunks /\ HeldOK(part[t], cd[t])
    BY <1>1, <1>6 DEF TailEnd, TaskOK, AtEnd, LocalType, Chunks
  <2>2. cd[t]["next"] = 0
    <3>1. SUFFICES ASSUME LinksOn(part[t], cd[t]["next"]), cd[t]["next"] = co_uino(HeadPart)
                   PROVE  FALSE
      BY <1>6, <2>1 DEF TailEnd, AtEnd, HeldOK
    <3>2. part[t] + 1 \in Chunks /\ part[t] + 1 # HeadPart
      BY <2>1, <3>1 DEF LinksOn, HeadPart, Chunks
    <3>. QED
      BY <3>1, <3>2, UinoOfHead DEF LinksOn
  <2>3. /\ TypeOK' /\ pc'[t] = "create" /\ \A u \in Tasks \ {t} : pc'[u] = pc[u]
    BY <1>1, <1>6 DEF TypeOK, DiskType, InodeType, LocalType, HistoryType, TailEnd, Goto, Places,
       disk, inode
  <2>4. HeldOK(part[t], cd[t])'
    BY <1>6, <2>1 DEF TailEnd, HeldOK, Ready, Complete, disk
  <2>5. TaskOK(t)' /\ PosOK(t)'
    BY <1>1, <1>2, <1>6, <2>1, <2>2, <2>3, <2>4 DEF TailEnd, TaskOK, PosOK, Creating
  <2>6. Quiet /\ \A u \in Tasks \ {t} : Kept(u)
    BY <1>6, <2>3 DEF TailEnd, Quiet, Kept, disk, inode
  <2>. QED
    BY <1>2, <2>3, <2>5, <2>6, QuietStep
<1>7. CASE \/ TailErr(t) \/ CreateErr(t)
           \/ LoadNewErr(t) /\ Return(t, Err)
  <2>1. Return(t, Err)
    BY <1>7 DEF TailErr, CreateErr, LoadNewErr
  <2>2. /\ LocalType' /\ TaskOK(t)' /\ PosOK(t)'
        /\ \A u \in Tasks \ {t} : Kept(u)
    BY <1>2, <2>1, ReturnLocals
  <2>3. /\ UNCHANGED <<disk, inode, lock, owed, wend>>
        /\ faults' \in {faults, faults + 1} /\ faults' \in 0 .. MaxFaults
    BY <1>1, <1>7, FaultFacts DEF TailErr, CreateErr, LoadNewErr
  <2>4. TypeOK'
    BY <1>1, <2>2, <2>3 DEF TypeOK, DiskType, InodeType, HistoryType, disk, inode
  <2>5. Quiet
    BY <2>3 DEF Quiet, disk, inode
  <2>. QED
    BY <1>2, <2>2, <2>4, <2>5, QuietStep
<1>8. CASE Create(t)
  <2>1. part[t] \in Chunks /\ part[t] + 1 \in Chunks
    BY <1>3, <1>8 DEF Create, ToChunk, Creating
  <2>2. /\ made' = made \cup {part[t] + 1} /\ cached' = cached \cup {part[t] + 1}
        /\ pc' \in [Tasks -> Places] /\ pc'[t] = "setnew" /\ \A u \in Tasks \ {t} : pc'[u] = pc[u]
        /\ cattr' \in [Chunks -> Modes \cup {ContMode}]
    BY <1>1, <1>8, <2>1 DEF Create, ToChunk, Goto, LocalType, DiskType, Places
  <2>3. TypeOK'
    BY <1>1, <1>8, <2>1, <2>2 DEF TypeOK, DiskType, InodeType, LocalType, HistoryType, Create
  <2>4. HeldOK(part[t], cd[t])'
    BY <1>3, <1>8, <2>2 DEF Create, HeldOK, Ready, Complete, Creating
  <2>5. fld[t] = 1
    BY <1>1, <1>8 DEF Create, TaskOK
  <2>6. TaskOK(t)' /\ PosOK(t)'
    BY <1>1, <1>2, <1>3, <1>8, <2>1, <2>2, <2>4, <2>5 DEF Create, TaskOK, PosOK, Creating
  <2>7. Quiet /\ \A u \in Tasks \ {t} : Kept(u)
    BY <1>8, <2>2 DEF Create, Quiet, Kept
  <2>. QED
    BY <1>2, <2>3, <2>6, <2>7, QuietStep
<1>9. CASE SetErr(t)
  <2>1. /\ pc' \in [Tasks -> Places] /\ pc'[t] \in {"setprev", "load"}
        /\ fld' \in [Tasks -> 1 .. 4]
        /\ \A u \in Tasks \ {t} : pc'[u] = pc[u] /\ fld'[u] = fld[u]
    BY <1>1, <1>9 DEF SetErr, Goto, LocalType, Places
  <2>2. /\ faults' = faults + 1 /\ faults' \in 0 .. MaxFaults /\ faults' # 0
        /\ UNCHANGED <<disk, inode, lock, call, fpos, ppos, part, cd, sum, res, owed, wend>>
    BY <1>1, <1>4, <1>9, InputAssumption DEF SetErr, Fault, HistoryType
  <2>3. TypeOK'
    BY <1>1, <2>1, <2>2 DEF TypeOK, DiskType, InodeType, LocalType, HistoryType, disk, inode
  <2>4. pc[t] \in Creating \ {"create"}
    BY <1>9 DEF SetErr, Creating
  <2>5. HeldOK(part[t], cd[t])'
    BY <1>3, <2>2, <2>4 DEF HeldOK, Ready, Complete, disk
  <2>6. part'[t] + 1 \in made' \cap cached'
    BY <1>1, <2>2, <2>4 DEF TaskOK, disk, inode
  <2>7. TaskOK(t)' /\ PosOK(t)'
    <3>1. ppos'[t] = call'[t].at
      BY <1>1, <2>2, <2>4 DEF PosOK
    <3>. QED
      BY <1>2, <1>3, <2>1, <2>2, <2>4, <2>5, <2>6, <3>1 DEF TaskOK, PosOK, Creating
  <2>8. Quiet /\ \A u \in Tasks \ {t} : Kept(u)
    BY <2>1, <2>2 DEF Quiet, Kept, disk, inode
  <2>. QED
    BY <1>2, <2>3, <2>7, <2>8, QuietStep
<1>10. CASE LoadNew(t)
  <2>1. part[t] + 1 \in Chunks /\ Complete(part[t] + 1) /\ Hold(t, part[t] + 1)
    BY <1>1, <1>10 DEF LoadNew, ToChunk, TaskOK, Creating, DiskType
  <2>2. /\ part' \in [Tasks -> 0 .. NChunks] /\ cd' \in [Tasks -> [Fields -> Int]]
        /\ part'[t] = part[t] + 1
        /\ \A u \in Tasks \ {t} : part'[u] = part[u] /\ cd'[u] = cd[u]
    BY <2>1, HoldLocals
  <2>3. /\ xattr[part[t] + 1]["start"] = StartOf(part[t] + 1)
        /\ StartOf(part[t] + 1) \in Int /\ CLen \in Nat
    BY <2>1, LoadedOK, StartFacts, ChunkAssumption DEF HeldOK
  <2>4. /\ ppos' \in [Tasks -> Int] /\ ppos'[t] = ppos[t] - StartOf(part[t] + 1)
        /\ pc' \in [Tasks -> Places] /\ pc'[t] = "io"
        /\ \A u \in Tasks \ {t} : ppos'[u] = ppos[u] /\ pc'[u] = pc[u]
    BY <1>1, <1>10, <2>3 DEF LoadNew, ToChunk, Goto, LocalType, Places
  <2>9. /\ call' \in [Tasks -> CallType] /\ call'[t].op = call[t].op /\ call'[t].at = call[t].at
        /\ \A u \in Tasks \ {t} : call'[u] = call[u]
    <3>1. call[t] \in CallType
      BY <1>1 DEF LocalType
    <3>2. /\ [call[t] EXCEPT !.app = FALSE] \in CallType
          /\ [call[t] EXCEPT !.app = FALSE].op = call[t].op
          /\ [call[t] EXCEPT !.app = FALSE].at = call[t].at
      BY <3>1 DEF CallType
    <3>3. call' = [call EXCEPT ![t] = [call[t] EXCEPT !.app = FALSE]]
      BY <1>10 DEF LoadNew
    <3>. QED
      BY <1>1, <3>2, <3>3 DEF LocalType
  <2>5. TypeOK'
    BY <1>1, <1>10, <2>2, <2>4, <2>9
       DEF TypeOK, DiskType, InodeType, LocalType, HistoryType, LoadNew, disk, inode
  <2>6. TaskOK(t)' /\ PosOK(t)'
    <3>1. Complete(part[t])' /\ ppos[t] = call[t].at
      BY <1>1, <1>10, <2>1, <2>2 DEF LoadNew, Complete, PosOK, Creating, disk
    <3>2. call'[t].op \in Writes /\ call'[t].op \notin Reads
      BY <1>2, <2>9 DEF Reads, Writes
    <3>. QED
      BY <2>1, <2>2, <2>3, <2>4, <2>9, <3>1, <3>2 DEF TaskOK, PosOK, Creating
  <2>7. Quiet /\ \A u \in Tasks \ {t} : Kept(u)
    BY <1>10, <2>2, <2>4, <2>9 DEF LoadNew, Quiet, Kept, disk, inode
  <2>. QED
    BY <1>2, <2>5, <2>6, <2>7, QuietStep
<1>11. CASE LoadNewErr(t) /\ Goto(t, "dead")
                          /\ UNCHANGED <<call, fpos, ppos, part, cd, fld, sum, res>>
  <2>0. faults' \in {faults, faults + 1} /\ faults' \in 0 .. MaxFaults
    BY <1>1, <1>11, FaultFacts DEF LoadNewErr
  <2>1. /\ TypeOK' /\ pc'[t] = "dead" /\ \A u \in Tasks \ {t} : pc'[u] = pc[u]
    BY <1>1, <1>11, <2>0 DEF TypeOK, DiskType, InodeType, LocalType, HistoryType, LoadNewErr, Goto,
       Places, disk, inode
  <2>2. faults' # 0
    BY <1>1, <1>4, <1>11 DEF LoadNewErr, Fault, ToChunk, TaskOK
  <2>3. TaskOK(t)' /\ PosOK(t)'
    BY <2>1, <2>2 DEF TaskOK, PosOK, Creating
  <2>4. Quiet /\ \A u \in Tasks \ {t} : Kept(u)
    BY <1>11, <2>0, <2>1 DEF LoadNewErr, Quiet, Kept, disk, inode
  <2>. QED
    BY <1>2, <2>1, <2>3, <2>4, QuietStep
<1>12. CASE LoadNewErr(t)
  BY <1>7, <1>11, <1>12 DEF LoadNewErr
<1>. QED
  BY <1>5, <1>6, <1>7, <1>8, <1>9, <1>10, <1>12

LEMMA ReadAtLen ==
    ASSUME NEW S, NEW s \in Seq(S), NEW p \in Nat, NEW n \in Nat
    PROVE  Len(ReadAt(s, p, n)) \in Nat
<1>1. Least(p + n, Len(s)) \in 0 .. Len(s)
  BY DEF Least
<1>2. ReadAt(s, p, n) \in Seq(S)
  BY <1>1 DEF ReadAt
<1>. QED
  BY <1>2

LEMMA WriteAtSeq ==
    ASSUME NEW s \in Seq(Blocks \cup {Hole}), NEW p \in Nat, NEW n \in Nat,
           NEW v \in Blocks \cup {Hole}
    PROVE  WriteAt(s, p, n, v) \in Seq(Blocks \cup {Hole})
<1>. DEFINE B == Blocks \cup {Hole}
            m == Most(Len(s), p + n)
            e(i) == IF p < i /\ i <= p + n THEN v ELSE IF i <= Len(s) THEN s[i] ELSE Hole
<1>1. m \in Nat
  BY DEF Most
<1>2. \A i \in 1 .. m : e(i) \in B
  BY <1>1
<1>3. Hole \in B /\ [i \in 1 .. m |-> e(i)] \in [1 .. m -> B]
  BY <1>2
<1>. HIDE DEF m, e, B
<1>4. [i \in 1 .. m |-> e(i)] \in Seq(B)
  BY <1>1, <1>3
<1>. QED
  BY <1>4 DEF WriteAt, m, e, B

\* get_next_inode follows a link to the part in the next chunk.
LEMMA NextInodeFacts ==
    ASSUME IInv, NEW k \in Chunks, HasNext(k)
    PROVE  NextInode(k) = k + 1 /\ NextInode(k) \in Chunks
<1>1. xattr[k]["next"] \notin {Unset, 0}
  BY DEF HasNext, Complete, Fields
<1>2. LinksOn(k, xattr[k]["next"])
  BY <1>1 DEF IInv, FieldsOK
<1>. QED
  BY <1>2, UinoFacts DEF LinksOn, NextInode

\* The client's I/O, copy_up_inode and fsync
LEMMA ClientInv ==
    ASSUME IInv, NEW t \in Tasks,
           \/ ReadClient(t) \/ WriteClient(t) \/ ClientErr(t)
           \/ SumStart(t) \/ SumOn(t) \/ SumEnd(t)
           \/ SyncOn(t) \/ SyncLost(t) \/ SyncEnd(t) \/ SyncErr(t)
    PROVE  IInv'
<1>1. /\ DiskType /\ InodeType /\ LocalType /\ HistoryType
      /\ TaskOK(t) /\ PosOK(t)
      /\ pc[t] \in {"io", "up", "sum", "sync"}
  BY DEF IInv, TypeOK, ReadClient, WriteClient, ClientErr, SumStart, SumOn, SumEnd,
     SyncOn, SyncLost, SyncEnd, SyncErr
<1>2. hashed /\ (pc[t] # "sync" => part[t] \in Chunks) /\ HeadPart \in Chunks
  BY <1>1, Pinned, ChunkAssumption DEF TaskOK, HeadPart, Chunks
<1>3. /\ call[t].n \in Nat /\ call[t].v \in Blocks \cup {Hole} /\ call[t].at \in Nat
      /\ ppos[t] \in Int /\ fpos[t] \in Nat /\ faults \in Nat
  BY <1>1, InputAssumption DEF LocalType, CallType, HistoryType
<1>4. CASE ReadClient(t)
  <2>1. ppos[t] \in Nat /\ data[part[t]] \in Seq(Blocks \cup {Hole})
    BY <1>1, <1>2, <1>3, <1>4, ChunkAssumption DEF ReadClient, PosOK, DiskType
  <2>2. Len(ReadAt(data[part[t]], ppos[t], call[t].n)) \in Nat
    BY <1>3, <2>1, ReadAtLen
  <2>3. /\ ppos' \in [Tasks -> Int] /\ ppos'[t] >= 0
        /\ pc' \in [Tasks -> Places] /\ pc'[t] = "up" /\ DOMAIN res' = Tasks
        /\ \A u \in Tasks \ {t} : ppos'[u] = ppos[u] /\ pc'[u] = pc[u] /\ res'[u] = res[u]
    BY <1>1, <1>4, <2>1, <2>2 DEF ReadClient, Goto, LocalType, Places
  <2>4. TypeOK'
    BY <1>1, <1>4, <2>3
       DEF TypeOK, DiskType, InodeType, LocalType, HistoryType, ReadClient, disk, inode
  <2>5. TaskOK(t)' /\ PosOK(t)'
    BY <1>2, <1>4, <2>3 DEF ReadClient, TaskOK, PosOK, Creating
  <2>6. Quiet /\ \A u \in Tasks \ {t} : Kept(u)
    BY <1>4, <2>3 DEF ReadClient, Quiet, Kept, disk, inode
  <2>. QED
    BY <1>2, <2>4, <2>5, <2>6, QuietStep
<1>5. CASE WriteClient(t)
  <2>1. WritePos(t) \in Nat /\ data[part[t]] \in Seq(Blocks \cup {Hole}) /\ part[t] \in Chunks
    BY <1>1, <1>2, <1>3, <1>5 DEF WriteClient, WritePos, Refused, DiskType
  <2>2. WriteAt(data[part[t]], WritePos(t), call[t].n, call[t].v) \in Seq(Blocks \cup {Hole})
    BY <1>3, <2>1, WriteAtSeq
  <2>3. data' \in [Chunks -> Seq(Blocks \cup {Hole})] /\ dirty' \subseteq Chunks /\ wend' \in Nat
    BY <1>1, <1>3, <1>5, <2>1, <2>2 DEF WriteClient, DiskType, HistoryType, LocalType, Most
  <2>4. /\ ppos' \in [Tasks -> Int] /\ ppos'[t] >= 0
        /\ pc' \in [Tasks -> Places] /\ pc'[t] = "up"
        /\ \A u \in Tasks \ {t} : ppos'[u] = ppos[u] /\ pc'[u] = pc[u]
    BY <1>1, <1>3, <1>5, <2>1 DEF WriteClient, Goto, LocalType, Places
  <2>5. TypeOK'
    BY <1>1, <1>5, <2>3, <2>4
       DEF TypeOK, DiskType, InodeType, LocalType, HistoryType, WriteClient, inode
  <2>6. TaskOK(t)' /\ PosOK(t)'
    BY <1>2, <1>5, <2>1, <2>4 DEF WriteClient, TaskOK, PosOK, Creating
  <2>7. Quiet /\ \A u \in Tasks \ {t} : Kept(u)
    BY <1>5, <2>4 DEF WriteClient, Quiet, Kept, inode
  <2>. QED
    BY <1>2, <2>5, <2>6, <2>7, QuietStep
<1>6. CASE ClientErr(t)
  <2>1. /\ pc' \in [Tasks -> Places] /\ pc'[t] = "up" /\ DOMAIN res' = Tasks /\ res'[t] = Err
        /\ \A u \in Tasks \ {t} : pc'[u] = pc[u] /\ res'[u] = res[u]
    BY <1>1, <1>6 DEF ClientErr, Goto, LocalType, Places
  <2>2. faults' \in {faults, faults + 1} /\ faults' \in 0 .. MaxFaults
    BY <1>1, <1>6, InputAssumption DEF ClientErr, Fault, HistoryType
  <2>3. TypeOK'
    BY <1>1, <1>6, <2>1, <2>2
       DEF TypeOK, DiskType, InodeType, LocalType, HistoryType, ClientErr, disk, inode
  <2>4. TaskOK(t)' /\ PosOK(t)'
    BY <1>2, <1>6, <2>1 DEF ClientErr, TaskOK, PosOK, Creating
  <2>5. Quiet /\ \A u \in Tasks \ {t} : Kept(u)
    BY <1>6, <2>1, <2>2 DEF ClientErr, Quiet, Kept, disk, inode
  <2>. QED
    BY <1>2, <2>3, <2>4, <2>5, QuietStep
<1>7. CASE SumStart(t)
  <2>1. cattr[part[t]] \in Modes \cup {ContMode} /\ Len(data[HeadPart]) \in Nat
    BY <1>1, <1>2, <1>7 DEF SumStart, DiskType
  <2>2. NoData \in [Fields -> Int]
    BY DEF NoData, CD
  <2>3. /\ pc' \in [Tasks -> Places] /\ pc'[t] = "sum"
        /\ part' \in [Tasks -> 0 .. NChunks] /\ part'[t] = HeadPart
        /\ cd' \in [Tasks -> [Fields -> Int]] /\ sum' \in [Tasks -> Nat]
        /\ fpos' \in [Tasks -> Nat]
        /\ \A u \in Tasks \ {t} : pc'[u] = pc[u] /\ part'[u] = part[u] /\ cd'[u] = cd[u]
    BY <1>1, <1>2, <1>3, <1>7, <2>1, <2>2 DEF SumStart, FilePos, Goto, LocalType, Places, Chunks
  <2>4. TypeOK'
    BY <1>1, <1>7, <2>1, <2>3
       DEF TypeOK, DiskType, InodeType, LocalType, HistoryType, SumStart, disk
  <2>5. TaskOK(t)' /\ PosOK(t)'
    BY <1>1, <1>2, <1>7, <2>3 DEF SumStart, TaskOK, PosOK, Creating
  <2>6. Quiet /\ \A u \in Tasks \ {t} : Kept(u)
    BY <1>7, <2>3 DEF SumStart, Quiet, Kept, disk
  <2>. QED
    BY <1>2, <2>4, <2>5, <2>6, QuietStep
<1>8. CASE SumOn(t)
  <2>1. part[t] \in Chunks /\ NextInode(part[t]) \in Chunks
    BY <1>2, <1>8, NextInodeFacts DEF SumOn
  <2>2. SizeOf(NextInode(part[t])) \in Nat
    BY <1>1, <2>1 DEF SizeOf, DiskType
  <2>3. /\ part' \in [Tasks -> 0 .. NChunks] /\ part'[t] \in Chunks
        /\ sum' \in [Tasks -> Nat]
        /\ \A u \in Tasks \ {t} : part'[u] = part[u]
    BY <1>1, <1>8, <2>1, <2>2 DEF SumOn, LocalType, Chunks
  <2>4. TypeOK'
    BY <1>1, <1>8, <2>3 DEF TypeOK, DiskType, InodeType, LocalType, HistoryType, SumOn, disk, inode
  <2>5. TaskOK(t)' /\ PosOK(t)'
    BY <1>1, <1>8, <2>3 DEF SumOn, TaskOK, PosOK, Creating
  <2>6. Quiet /\ \A u \in Tasks \ {t} : Kept(u)
    BY <1>8, <2>3 DEF SumOn, Quiet, Kept, disk, inode
  <2>. QED
    BY <1>2, <2>4, <2>5, <2>6, QuietStep
<1>9. CASE SumEnd(t)
  <2>1. Return(t, res[t]) /\ (res[t] # Err => ppos[t] >= 0)
    BY <1>1, <1>9 DEF SumEnd, PosOK
  <2>2. /\ LocalType' /\ TaskOK(t)' /\ PosOK(t)'
        /\ \A u \in Tasks \ {t} : Kept(u)
    BY <2>1, ReturnLocals
  <2>5. faults' \in {faults, faults + 1} /\ faults' \in 0 .. MaxFaults
    BY <1>1, <1>9, FaultFacts DEF SumEnd
  <2>3. TypeOK'
    BY <1>1, <1>9, <2>2, <2>5 DEF TypeOK, DiskType, InodeType, LocalType, HistoryType, SumEnd, disk
  <2>4. Quiet
    BY <1>9, <2>5 DEF SumEnd, Quiet, disk
  <2>. QED
    BY <1>2, <2>2, <2>3, <2>4, QuietStep
<1>10. CASE SyncOn(t) \/ SyncLost(t)
  <2>1. Following(t) \in Chunks /\ Complete(Following(t)) /\ Hold(t, Following(t))
    BY <1>10, FollowingFacts DEF SyncOn, SyncLost
  <2>2. /\ part' \in [Tasks -> 0 .. NChunks] /\ cd' \in [Tasks -> [Fields -> Int]]
        /\ part'[t] = Following(t) /\ cd'[t] = xattr[Following(t)]
        /\ \A u \in Tasks \ {t} : part'[u] = part[u] /\ cd'[u] = cd[u]
    BY <2>1, HoldLocals
  <2>3. /\ faults' \in {faults, faults + 1} /\ faults' \in 0 .. MaxFaults
        /\ dirty' \subseteq Chunks /\ owed' \in [Tasks -> SUBSET Chunks]
        /\ UNCHANGED <<xattr, made, data, cattr, inode, lock, pc, call, fpos, ppos, fld, sum, res, wend>>
    BY <1>1, <1>10, InputAssumption DEF SyncOn, SyncLost, Fault, HistoryType, DiskType, disk
  <2>4. TypeOK'
    BY <1>1, <2>2, <2>3 DEF TypeOK, DiskType, InodeType, LocalType, HistoryType, inode
  <2>5. HeldOK(part[t], cd[t])'
    <3>1. HeldOK(Following(t), xattr[Following(t)])
      BY <2>1, LoadedOK
    <3>2. UNCHANGED <<xattr, made>> /\ (faults' = 0 => faults = 0)
      BY <1>3, <2>3
    <3>. QED
      BY <2>2, <3>1, <3>2 DEF HeldOK, Ready, Complete
  <2>6. TaskOK(t)' /\ PosOK(t)'
    <3>1. pc'[t] = "sync" /\ call'[t].op = "fsync"
      BY <1>1, <1>10, <2>3 DEF SyncOn, SyncLost, PosOK
    <3>. QED
      BY <2>5, <3>1 DEF TaskOK, PosOK, Creating
  <2>7. Quiet /\ \A u \in Tasks \ {t} : Kept(u)
    BY <2>2, <2>3 DEF Quiet, Kept, inode
  <2>. QED
    BY <1>2, <2>4, <2>6, <2>7, QuietStep
<1>11. CASE SyncEnd(t) \/ SyncErr(t)
  <2>1. PICK r : Return(t, r)
    BY <1>11 DEF SyncEnd, SyncErr
  <2>2. call[t].op = "fsync"
    BY <1>1, <1>11 DEF SyncEnd, SyncErr, PosOK
  <2>3. /\ LocalType' /\ TaskOK(t)' /\ PosOK(t)'
        /\ \A u \in Tasks \ {t} : Kept(u)
    BY <2>1, <2>2, ReturnLocals
  <2>4. /\ UNCHANGED <<disk, inode, owed, wend>> /\ lock' = NoTask
        /\ faults' \in {faults, faults + 1} /\ faults' \in 0 .. MaxFaults
    BY <1>1, <1>11, FaultFacts DEF SyncEnd, SyncErr, Unlock
  <2>5. TypeOK'
    BY <1>1, <2>3, <2>4 DEF TypeOK, DiskType, InodeType, HistoryType, disk, inode
  <2>6. Quiet
    BY <2>4 DEF Quiet, disk, inode
  <2>. QED
    BY <1>2, <2>3, <2>5, <2>6, QuietStep
<1>. QED
  BY <1>4, <1>5, <1>6, <1>7, <1>8, <1>9, <1>10, <1>11

-----------------------------------------------------------------------------
(* Steps that write an attribute                                           *)

\* Attributes are written over, never removed
Grows == \A j \in Chunks, f \in Fields : xattr[j][f] # Unset => xattr'[j][f] # Unset

\* A setxattr of t keeps the invariant if it keeps the parts about attributes
\* and links and what the invariant says of t.
LEMMA SetStep ==
    ASSUME IInv, TypeOK', hashed, UNCHANGED <<made, cached, faults, hashed>>,
           Grows, FieldsOK', LinksOK', faults = 0 => \A j \in Int : Fresh(j) => Fresh(j)',
           NEW t \in Tasks, TaskOK(t)', PosOK(t)', \A u \in Tasks \ {t} : Kept(u)
    PROVE  IInv'
<1>1. \A j \in Chunks : Complete(j) => Complete(j)'
  BY DEF Complete, Grows
<1>2. HeadPart \in Chunks /\ made \subseteq Chunks
  BY ChunkAssumption DEF HeadPart, Chunks, IInv, TypeOK, DiskType
<1>3. \A k \in Chunks : \A d : HeldOK(k, d) => HeldOK(k, d)'
  BY <1>1, <1>2 DEF HeldOK, Ready
<1>4. ASSUME NEW u \in Tasks, u # t
      PROVE  TaskOK(u)' /\ PosOK(u)'
  <2>1. TaskOK(u) /\ PosOK(u) /\ Kept(u) /\ fld[u] \in 1 .. 4 /\ part[u] \in Nat
    BY <1>4, ChunkAssumption DEF IInv, TypeOK, LocalType
  <2>2. PosOK(u)'
    <3>1. pc[u] = "io" => part[u] \in Chunks
      BY <2>1 DEF TaskOK
    <3>. QED
      BY <1>1, <2>1, <3>1 DEF PosOK, Kept
  <2>3. pc[u] = "setnew" =>
           \A i \in 1 .. fld[u] - 1 : xattr'[part[u] + 1][Order[i]] # Unset
    <3>1. \A i \in 1 .. fld[u] - 1 : Order[i] \in Fields
      BY <2>1, OrderFacts
    <3>2. pc[u] = "setnew" => part[u] + 1 \in Chunks
      BY <1>2, <2>1 DEF TaskOK, Creating
    <3>. QED
      BY <2>1, <3>1, <3>2 DEF TaskOK, Grows
  <2>4. pc[u] \in {"setprev", "load"} /\ faults = 0 => Complete(part[u] + 1)'
    <3>1. pc[u] \in {"setprev", "load"} => part[u] + 1 \in Chunks
      BY <1>2, <2>1 DEF TaskOK, Creating
    <3>. QED
      BY <1>1, <2>1, <3>1 DEF TaskOK, Kept
  <2>5. faults = 0 => (Fresh(part[u] + 1) => Fresh(part[u] + 1)')
    <3>1. part[u] + 1 \in Int /\ part'[u] = part[u]
      BY <2>1 DEF Kept
    <3>2. ASSUME faults = 0, Fresh(part[u] + 1)
          PROVE  Fresh(part[u] + 1)'
      <4>1. \A j \in Int : Fresh(j) => Fresh(j)'
        BY <3>2
      <4>. QED
        BY <3>1, <3>2, <4>1 DEF Fresh
    <3>. QED
      BY <3>2
  <2>6. part[u] = 0 \/ part[u] \in Chunks
    BY <1>4 DEF IInv, TypeOK, LocalType, Chunks
  <2>7. TaskOK(u)'
    BY <1>3, <2>1, <2>3, <2>4, <2>5, <2>6 DEF TaskOK, Kept
  <2>. QED
    BY <2>2, <2>7
<1>5. Complete(HeadPart)'
  BY <1>1, <1>2 DEF IInv
<1>6. (hashed /\ faults = 0 => Fresh(HeadPart))'
  BY DEF IInv, HeadPart
<1>. QED
  BY <1>4, <1>5, <1>6 DEF IInv

\* What one setxattr of set_cont_data does
LEMMA SetFieldFacts ==
    ASSUME IInv, NEW t \in Tasks, NEW k \in Chunks, NEW d \in [Fields -> Int],
           \A f \in Fields : d[f] # Unset,
           NEW then \in Places, then # pc[t], SetField(t, k, d, then)
    PROVE  /\ TypeOK'
           /\ UNCHANGED <<made, cached, faults, hashed>>
           /\ \A u \in Tasks \ {t} : Kept(u)
           /\ Grows
           /\ xattr'[k][Order[fld[t]]] = d[Order[fld[t]]]
           /\ \A j \in Chunks, f \in Fields :
                 j # k \/ f # Order[fld[t]] => xattr'[j][f] = xattr[j][f]
           /\ call'[t] = call[t] /\ ppos'[t] = ppos[t] /\ part'[t] = part[t] /\ cd'[t] = cd[t]
           /\ \/ fld[t] = 4 /\ fld'[t] = 1 /\ pc'[t] = then
              \/ fld[t] \in 1 .. 3 /\ fld'[t] = fld[t] + 1 /\ pc'[t] = pc[t]
<1>1. DiskType /\ InodeType /\ LocalType /\ HistoryType /\ fld[t] \in 1 .. 4
  BY DEF IInv, TypeOK, LocalType
<1>. DEFINE g == Order[fld[t]]
<1>2. g \in Fields /\ d[g] \in Int /\ d[g] # Unset
  BY <1>1, OrderFacts
<1>3. xattr' = [xattr EXCEPT ![k] = [@ EXCEPT ![g] = d[g]]]
  BY DEF SetField
<1>. HIDE DEF g
<1>4. /\ xattr' \in [Chunks -> [Fields -> Int]]
      /\ xattr'[k][g] = d[g]
      /\ \A j \in Chunks, f \in Fields : j # k \/ f # g => xattr'[j][f] = xattr[j][f]
  BY <1>1, <1>2, <1>3 DEF DiskType
<1>5. Grows
  BY <1>2, <1>4 DEF Grows
<1>6. /\ fld' \in [Tasks -> 1 .. 4] /\ pc' \in [Tasks -> Places]
      /\ \A u \in Tasks \ {t} : fld'[u] = fld[u] /\ pc'[u] = pc[u]
      /\ \/ fld[t] = 4 /\ fld'[t] = 1 /\ pc'[t] = then
         \/ fld[t] \in 1 .. 3 /\ fld'[t] = fld[t] + 1 /\ pc'[t] = pc[t]
  BY <1>1 DEF SetField, LocalType
<1>7. UNCHANGED <<made, data, dirty, cattr, inode, lock, call, fpos, ppos, part, cd,
                  sum, res, owed, wend, faults>>
  BY DEF SetField
<1>8. TypeOK'
  BY <1>1, <1>4, <1>6, <1>7 DEF TypeOK, DiskType, InodeType, LocalType, HistoryType, inode
<1>9. \A u \in Tasks \ {t} : Kept(u)
  BY <1>6, <1>7 DEF Kept
<1>. QED
  BY <1>4, <1>5, <1>6, <1>7, <1>8, <1>9 DEF g, inode

\* The attributes of the new part: they only ever unlink, and the part is not
\* reached through an old link once its first attribute, next, is written.
LEMMA SetNewInv ==
    ASSUME IInv, NEW t \in Tasks, SetNew(t)
    PROVE  IInv'
<1>. DEFINE k == part[t] + 1
            d == NewData(part[t], cd[t])
            g == Order[fld[t]]
<1>1. /\ TaskOK(t) /\ PosOK(t) /\ pc[t] = "setnew" /\ fld[t] \in 1 .. 4
      /\ cd[t] \in [Fields -> Int] /\ made \subseteq Chunks /\ hashed
  BY Pinned DEF IInv, TypeOK, LocalType, DiskType, SetNew
<1>2. part[t] \in Chunks /\ k \in Chunks /\ HeldOK(part[t], cd[t]) /\ cd[t]["next"] = 0
      /\ k \in made /\ k \in cached
  BY <1>1 DEF TaskOK, Creating
<1>3. /\ d \in [Fields -> Int]
      /\ d["next"] = 0 /\ d["prev"] = PrevOf(k) /\ d["start"] = StartOf(k) /\ d["len"] = CLen
  BY <1>1, <1>2, NewDataFacts DEF HeldOK
<1>4. \A f \in Fields : d[f] # Unset
  <2>1. PrevOf(k) # Unset
    BY <1>2, UinoFacts DEF PrevOf, Unset, HeadPart, Chunks
  <2>2. StartOf(k) # Unset /\ CLen # Unset
    BY <1>2, StartFacts, ChunkAssumption DEF Unset
  <2>. QED
    BY <1>3, <2>1, <2>2 DEF Fields, Unset
<1>5. SetField(t, k, d, "setprev") /\ "setprev" \in Places /\ "setprev" # pc[t]
  BY <1>1 DEF SetNew, ToChunk, Places
<1>. HIDE DEF d
<1>6. /\ TypeOK'
      /\ UNCHANGED <<made, cached, faults, hashed>>
      /\ \A u \in Tasks \ {t} : Kept(u)
      /\ Grows
      /\ xattr'[k][g] = d[g]
      /\ \A j \in Chunks, f \in Fields : j # k \/ f # g => xattr'[j][f] = xattr[j][f]
      /\ call'[t] = call[t] /\ ppos'[t] = ppos[t] /\ part'[t] = part[t] /\ cd'[t] = cd[t]
      /\ \/ fld[t] = 4 /\ fld'[t] = 1 /\ pc'[t] = "setprev"
         \/ fld[t] \in 1 .. 3 /\ fld'[t] = fld[t] + 1 /\ pc'[t] = pc[t]
  BY <1>2, <1>3, <1>4, <1>5, SetFieldFacts
<1>7. g \in Fields
  BY <1>1, OrderFacts
<1>8. FieldsOK'
  <2>1. ASSUME NEW j \in Chunks
        PROVE  /\ xattr'[j]["next"] \in {Unset, 0} \/ LinksOn(j, xattr'[j]["next"])
               /\ xattr'[j]["prev"] \in {Unset, PrevOf(j)}
               /\ xattr'[j]["start"] \in {Unset, StartOf(j)}
               /\ xattr'[j]["len"] \in {Unset, CLen}
    <3>1. FieldsOK /\ {"next", "prev", "start", "len"} \subseteq Fields
      BY DEF IInv, Fields
    <3>. QED
      BY <1>3, <1>6, <1>7, <3>1 DEF FieldsOK
  <2>. QED
    BY <2>1 DEF FieldsOK
<1>9. \A j \in Chunks : Links(j)' => Links(j)
  BY <1>3, <1>6 DEF Links, Fields
<1>10. \A j \in Chunks : Complete(j) => Complete(j)'
  BY <1>6 DEF Complete, Grows
<1>11. LinksOK'
  BY <1>1, <1>6, <1>9, <1>10 DEF IInv, LinksOK, Ready
<1>12. \A j \in Int : Fresh(j) => Fresh(j)'
  BY <1>6, <1>9 DEF Fresh
<1>13. PosOK(t)'
  BY <1>1, <1>6 DEF PosOK, Creating
<1>14. HeldOK(part[t], cd[t])'
  BY <1>1, <1>2, <1>6, <1>10 DEF HeldOK, Ready
<1>15. \A i \in 1 .. fld[t] : xattr'[k][Order[i]] # Unset
  <2>1. \A i \in 1 .. fld[t] - 1 : xattr[k][Order[i]] # Unset
    BY <1>1 DEF TaskOK
  <2>2. \A i \in 1 .. fld[t] : Order[i] \in Fields
    BY <1>1, OrderFacts
  <2>3. \A i \in 1 .. fld[t] - 1 : xattr'[k][Order[i]] # Unset
    BY <1>1, <1>2, <1>6, <2>1, <2>2 DEF Grows
  <2>. QED
    BY <1>1, <1>4, <1>6, <1>7, <2>3
<1>16. faults = 0 => Fresh(k)'
  <2>1. CASE fld[t] > 1
    <3>1. k \in Int /\ (faults = 0 => Fresh(k))
      BY <1>1, <1>2, <2>1 DEF TaskOK, Chunks
    <3>. QED
      BY <1>6, <1>12, <3>1 DEF Fresh
  <2>2. CASE fld[t] = 1
    <3>1. ~Links(k)'
      BY <1>3, <1>6, <2>2, OrderFacts DEF Links
    <3>. QED
      BY <1>2, <1>6, <3>1 DEF Fresh, Chunks
  <2>. QED
    BY <1>1, <2>1, <2>2
<1>17. TaskOK(t)'
  <2>1. Fresh(part[t] + 1)' <=> Fresh(k)'
    BY <1>6 DEF Fresh
  <2>2. CASE fld[t] = 4
    <3>1. Complete(part[t] + 1)'
      BY <1>6, <1>15, <2>2, OrderFacts DEF Complete
    <3>. QED
      BY <1>2, <1>6, <1>14, <1>16, <2>1, <2>2, <3>1 DEF TaskOK, Creating
  <2>3. CASE fld[t] \in 1 .. 3
    <3>1. \A i \in 1 .. fld'[t] - 1 : xattr'[part'[t] + 1][Order[i]] # Unset
      BY <1>6, <1>15, <2>3
    <3>. QED
      BY <1>1, <1>2, <1>6, <1>14, <1>16, <2>1, <2>3, <3>1 DEF TaskOK, Creating
  <2>. QED
    BY <1>1, <2>2, <2>3
<1>. QED
  BY <1>1, <1>6, <1>8, <1>11, <1>12, <1>13, <1>17, SetStep

\* The link from the last part to the new one, which is complete by then, and
\* from which nothing but cached parts is reached.
LEMMA SetPrevInv ==
    ASSUME IInv, NEW t \in Tasks, SetPrev(t)
    PROVE  IInv'
<1>. DEFINE k == part[t]
            d == PrevData(part[t], cd[t])
            g == Order[fld[t]]
<1>1. /\ TaskOK(t) /\ PosOK(t) /\ pc[t] = "setprev" /\ fld[t] \in 1 .. 4
      /\ cd[t] \in [Fields -> Int] /\ made \subseteq Chunks /\ hashed
  BY Pinned DEF IInv, TypeOK, LocalType, DiskType, SetPrev
<1>2. k \in Chunks /\ k + 1 \in Chunks /\ HeldOK(k, cd[t]) /\ cd[t]["next"] = 0
      /\ Ready(k + 1) /\ k + 1 \in cached /\ (faults = 0 => Fresh(k + 1))
  BY <1>1 DEF TaskOK, Creating, Ready
<1>3. /\ d \in [Fields -> Int]
      /\ d["next"] = co_uino(k + 1) /\ d["prev"] = PrevOf(k) /\ d["start"] = StartOf(k)
      /\ d["len"] = CLen
  BY <1>1, <1>2, NewDataFacts DEF HeldOK, Fields
<1>4. \A f \in Fields : d[f] # Unset
  <2>1. PrevOf(k) # Unset
    <3>1. k # HeadPart => k - 1 \in Chunks
      BY <1>2, ChunkAssumption DEF HeadPart, Chunks
    <3>. QED
      BY <1>2, <3>1, UinoFacts DEF PrevOf, Unset
  <2>2. StartOf(k) # Unset /\ CLen # Unset /\ co_uino(k + 1) # Unset
    BY <1>2, StartFacts, UinoFacts, ChunkAssumption DEF Unset
  <2>. QED
    BY <1>3, <2>1, <2>2 DEF Fields, Unset
<1>5. SetField(t, k, d, "load") /\ "load" \in Places /\ "load" # pc[t]
  BY <1>1 DEF SetPrev, Places
<1>. HIDE DEF d
<1>6. /\ TypeOK'
      /\ UNCHANGED <<made, cached, faults, hashed>>
      /\ \A u \in Tasks \ {t} : Kept(u)
      /\ Grows
      /\ xattr'[k][g] = d[g]
      /\ \A j \in Chunks, f \in Fields : j # k \/ f # g => xattr'[j][f] = xattr[j][f]
      /\ call'[t] = call[t] /\ ppos'[t] = ppos[t] /\ part'[t] = part[t] /\ cd'[t] = cd[t]
      /\ \/ fld[t] = 4 /\ fld'[t] = 1 /\ pc'[t] = "load"
         \/ fld[t] \in 1 .. 3 /\ fld'[t] = fld[t] + 1 /\ pc'[t] = pc[t]
  BY <1>2, <1>3, <1>4, <1>5, SetFieldFacts
<1>7. g \in Fields
  BY <1>1, OrderFacts
<1>8. FieldsOK'
  <2>1. ASSUME NEW j \in Chunks
        PROVE  /\ xattr'[j]["next"] \in {Unset, 0} \/ LinksOn(j, xattr'[j]["next"])
               /\ xattr'[j]["prev"] \in {Unset, PrevOf(j)}
               /\ xattr'[j]["start"] \in {Unset, StartOf(j)}
               /\ xattr'[j]["len"] \in {Unset, CLen}
    <3>1. FieldsOK /\ {"next", "prev", "start", "len"} \subseteq Fields
      BY DEF IInv, Fields
    <3>2. LinksOn(k, co_uino(k + 1))
      BY <1>2 DEF LinksOn
    <3>. QED
      BY <1>3, <1>6, <1>7, <3>1, <3>2 DEF FieldsOK
  <2>. QED
    BY <2>1 DEF FieldsOK
<1>9. \A j \in Chunks : j # k => (Links(j)' <=> Links(j))
  BY <1>6 DEF Links, Fields
<1>10. \A j \in Chunks : Complete(j) => Complete(j)'
  BY <1>6 DEF Complete, Grows
<1>11. LinksOK'
  <2>1. ASSUME NEW j \in Chunks, Links(j)'
        PROVE  Complete(j)' /\ Ready(j + 1)'
    <3>1. Complete(j) /\ Ready(j + 1) /\ j + 1 \in Chunks
      BY <1>1, <1>2, <1>9, <2>1 DEF IInv, LinksOK, Ready, HeldOK
    <3>. QED
      BY <1>6, <1>10, <3>1 DEF Ready
  <2>. QED
    BY <2>1 DEF LinksOK
<1>12. ASSUME faults = 0, NEW j \in Int, Fresh(j)
       PROVE  Fresh(j)'
  <2>1. ASSUME NEW m \in Chunks, j <= m, \A i \in Chunks : j <= i /\ i < m => Links(i)'
        PROVE  m \in cached
    <3>1. CASE j <= k /\ k < m
      <4>1. k + 1 <= m /\ \A i \in Chunks : k + 1 <= i /\ i < m => Links(i)
        <5>1. k \in Int /\ m \in Int /\ \A i \in Chunks : i \in Int
          BY <1>2 DEF Chunks
        <5>. QED
          BY <1>9, <2>1, <3>1, <5>1
      <4>. QED
        BY <1>2, <1>12, <4>1 DEF Fresh
    <3>2. CASE ~(j <= k /\ k < m)
      <4>1. \A i \in Chunks : j <= i /\ i < m => Links(i)
        BY <1>2, <1>9, <2>1, <3>2
      <4>. QED
        BY <1>12, <2>1, <4>1 DEF Fresh
    <3>. QED
      BY <3>1, <3>2
  <2>. QED
    BY <1>6, <2>1 DEF Fresh
<1>13. PosOK(t)'
  BY <1>1, <1>6 DEF PosOK, Creating
<1>14. HeldOK(part[t], cd[t])'
  BY <1>2, <1>6, <1>10 DEF HeldOK, Ready
<1>15. TaskOK(t)'
  <2>1. faults = 0 => Fresh(part[t] + 1)'
    <3>1. k + 1 \in Int
      BY <1>2 DEF Chunks
    <3>2. faults = 0 => \A j \in Int : Fresh(j) => Fresh(j)'
      BY <1>12
    <3>. QED
      BY <1>2, <1>6, <3>1, <3>2 DEF Fresh
  <2>2. faults = 0 => Complete(part[t] + 1)'
    BY <1>2, <1>6, <1>10 DEF Ready, Complete
  <2>3. pc'[t] \in {"setprev", "load"} /\ part'[t] + 1 \in made' \cap cached'
    BY <1>1, <1>2, <1>6 DEF Ready
  <2>. QED
    BY <1>2, <1>6, <1>14, <2>1, <2>2, <2>3 DEF TaskOK, Creating
<1>. QED
  BY <1>1, <1>6, <1>8, <1>11, <1>12, <1>13, <1>15, SetStep

-----------------------------------------------------------------------------
(* Eviction, restart, lookup                                               *)

LEMMA InitDataFacts ==
    /\ InitData \in [Fields -> Int]
    /\ InitData["next"] = 0 /\ InitData["prev"] = PrevOf(HeadPart)
    /\ InitData["start"] = StartOf(HeadPart) /\ InitData["len"] = CLen
    /\ \A f \in Fields : InitData[f] # Unset
<1>1. CLen \in Nat \ {0} /\ StartOf(HeadPart) = 0 /\ PrevOf(HeadPart) = 0
  BY ChunkAssumption, StartFacts DEF PrevOf
<1>. QED
  BY <1>1 DEF InitData, CD, Fields, Unset

\* While the dentry is out of the cache no task is in a call.
LEMMA NoTaskRuns ==
    ASSUME IInv, ~hashed, NEW t \in Tasks, UNCHANGED local
    PROVE  TaskOK(t)' /\ PosOK(t)' /\ pc'[t] = "idle"
<1>1. pc'[t] = "idle" /\ part'[t] = 0 /\ fld'[t] = 1
  BY DEF IInv, TaskOK, local
<1>. QED
  BY <1>1 DEF TaskOK, PosOK, Creating

\* The head gets new continuation data h, complete and without a link or as
\* it was.
LEMMA RewrittenHead ==
    ASSUME IInv, NEW h \in [Fields -> Int], xattr' = [xattr EXCEPT ![HeadPart] = h],
           \A f \in Fields : h[f] # Unset,
           \A f \in Fields \ {"next"} : h[f] = xattr[HeadPart][f],
           h["next"] \in {0, xattr[HeadPart]["next"]},
           made' = made, faults' # 0 \/ faults' = faults
    PROVE  xattr' \in [Chunks -> [Fields -> Int]] /\ FieldsOK' /\ LinksOK' /\ Complete(HeadPart)'
<1>1. HeadPart \in Chunks /\ xattr \in [Chunks -> [Fields -> Int]]
  BY ChunkAssumption DEF HeadPart, Chunks, IInv, TypeOK, DiskType
<1>2. /\ xattr' \in [Chunks -> [Fields -> Int]] /\ xattr'[HeadPart] = h
      /\ \A j \in Chunks : j # HeadPart => xattr'[j] = xattr[j]
  BY <1>1
<1>3. FieldsOK'
  <2>1. FieldsOK /\ {"prev", "start", "len"} \subseteq Fields \ {"next"}
    BY DEF IInv, Fields
  <2>. QED
    BY <1>1, <1>2, <2>1 DEF FieldsOK
<1>4. \A j \in Chunks : (Links(j)' => Links(j)) /\ (Complete(j) => Complete(j)')
  BY <1>1, <1>2 DEF Links, Complete
<1>5. LinksOK'
  <2>1. made \subseteq Chunks
    BY DEF IInv, TypeOK, DiskType
  <2>. QED
    BY <1>4, <2>1 DEF IInv, LinksOK, Ready
<1>. QED
  BY <1>1, <1>2, <1>3, <1>4, <1>5 DEF IInv

LEMMA WorldInv ==
    ASSUME IInv, Evict \/ Restart \/ Lookup \/ LookupErr
    PROVE  IInv'
<1>1. /\ DiskType /\ InodeType /\ LocalType /\ HistoryType
      /\ HeadPart \in Chunks /\ faults \in Nat
  BY ChunkAssumption, InputAssumption DEF IInv, TypeOK, HeadPart, Chunks, HistoryType
<1>2. CASE Evict
  <2>1. TypeOK'
    BY <1>1, <1>2
       DEF TypeOK, DiskType, InodeType, LocalType, HistoryType, Evict, disk, local
  <2>2. \A t \in Tasks : pc'[t] = "idle" /\ part'[t] = 0 /\ fld'[t] = 1
    BY <1>2 DEF IInv, TaskOK, Evict, local
  <2>3. \A t \in Tasks : TaskOK(t)' /\ PosOK(t)'
    BY <2>2 DEF TaskOK, PosOK, Creating
  <2>4. FieldsOK' /\ LinksOK' /\ Complete(HeadPart)'
    BY <1>2 DEF IInv, FieldsOK, LinksOK, Links, Ready, Complete, Evict, disk
  <2>5. ~hashed'
    BY <1>2 DEF Evict
  <2>. QED
    BY <2>1, <2>2, <2>3, <2>4, <2>5 DEF IInv
<1>3. CASE Restart
  <2>1. DiskType' /\ InodeType' /\ HistoryType'
    BY <1>1, <1>3 DEF DiskType, InodeType, HistoryType, Restart
  <2>2. LocalType'
    <3>1. NoData \in [Fields -> Int] /\ "idle" \in Places /\ 0 \in 0 .. NChunks
      BY ChunkAssumption DEF NoData, CD, Places
    <3>2. NoCall \in CallType
      BY DEF NoCall, CallType, Ops
    <3>. QED
      BY <1>3, <3>1, <3>2 DEF LocalType, Restart
  <2>3. \A t \in Tasks : pc'[t] = "idle" /\ part'[t] = 0 /\ fld'[t] = 1
    BY <1>3 DEF Restart
  <2>4. \A t \in Tasks : TaskOK(t)' /\ PosOK(t)'
    BY <2>3 DEF TaskOK, PosOK, Creating
  <2>5. FieldsOK' /\ LinksOK' /\ Complete(HeadPart)'
    BY <1>3 DEF IInv, FieldsOK, LinksOK, Links, Ready, Complete, Restart
  <2>6. ~hashed'
    BY <1>3 DEF Restart
  <2>. QED
    BY <2>1, <2>2, <2>3, <2>4, <2>5, <2>6 DEF IInv, TypeOK
<1>4. \A f \in Fields \ {"next"} : InitData[f] = xattr[HeadPart][f]
  <2>1. HeldOK(HeadPart, xattr[HeadPart])
    BY <1>1, LoadedOK DEF IInv
  <2>. QED
    BY <2>1, InitDataFacts DEF HeldOK, Fields
<1>5. CASE Lookup
  <2>1. xattr' \in [Chunks -> [Fields -> Int]] /\ FieldsOK' /\ LinksOK' /\ Complete(HeadPart)'
    BY <1>4, <1>5, InitDataFacts, RewrittenHead DEF Lookup
  <2>2. cattr[HeadPart] \in Modes \cup {ContMode} /\ Len(data[HeadPart]) \in Nat
    BY <1>1 DEF DiskType
  <2>3. TypeOK'
    BY <1>1, <1>5, <2>1, <2>2
       DEF TypeOK, DiskType, InodeType, LocalType, HistoryType, Lookup, local
  <2>4. \A t \in Tasks : TaskOK(t)' /\ PosOK(t)'
    BY <1>5, NoTaskRuns DEF Lookup
  <2>5. Fresh(HeadPart)'
    <3>1. ~Links(HeadPart)' /\ HeadPart \in cached'
      BY <1>1, <1>5, InitDataFacts DEF Links, Lookup, DiskType
    <3>. QED
      BY <1>1, <3>1 DEF Fresh, Chunks, HeadPart
  <2>6. hashed'
    BY <1>5 DEF Lookup
  <2>. QED
    BY <2>1, <2>3, <2>4, <2>5, <2>6 DEF IInv
<1>6. CASE LookupErr
  <2>1. PICK h \in {xattr[HeadPart], [xattr[HeadPart] EXCEPT !["next"] = 0]} :
           xattr' = [xattr EXCEPT ![HeadPart] = h]
    BY <1>6 DEF LookupErr
  <2>2. faults' = faults + 1 /\ faults' # 0 /\ faults' \in 0 .. MaxFaults
    BY <1>1, <1>6, InputAssumption DEF LookupErr, Fault, HistoryType
  <2>3. /\ h \in [Fields -> Int]
        /\ \A f \in Fields : h[f] # Unset
        /\ \A f \in Fields \ {"next"} : h[f] = xattr[HeadPart][f]
        /\ h["next"] \in {0, xattr[HeadPart]["next"]}
    <3>1. xattr[HeadPart] \in [Fields -> Int] /\ \A f \in Fields : xattr[HeadPart][f] # Unset
      BY <1>1 DEF IInv, DiskType, Complete
    <3>. QED
      BY <2>1, <3>1 DEF Unset, Fields
  <2>4. xattr' \in [Chunks -> [Fields -> Int]] /\ FieldsOK' /\ LinksOK' /\ Complete(HeadPart)'
    BY <1>6, <2>1, <2>2, <2>3, RewrittenHead DEF LookupErr
  <2>5. TypeOK'
    BY <1>1, <1>6, <2>2, <2>4
       DEF TypeOK, DiskType, InodeType, LocalType, HistoryType, LookupErr, local
  <2>6. \A t \in Tasks : TaskOK(t)' /\ PosOK(t)' /\ pc'[t] = "idle"
    BY <1>6, NoTaskRuns DEF LookupErr
  <2>. QED
    BY <2>2, <2>4, <2>5, <2>6 DEF IInv
<1>. QED
  BY <1>2, <1>3, <1>5, <1>6

-----------------------------------------------------------------------------
(* The theorems                                                            *)

LEMMA InitInv ==
    ASSUME Init
    PROVE  IInv
<1>1. HeadPart \in Chunks /\ NoData \in [Fields -> Int] /\ 0 \in 0 .. NChunks
  BY ChunkAssumption DEF HeadPart, Chunks, NoData, CD
<1>. DEFINE U == CD(Unset, Unset, Unset, Unset)
<1>2. U \in [Fields -> Int] /\ \A f \in Fields : U[f] = Unset
  BY DEF CD, Unset
<1>. HIDE DEF U
<1>3. /\ xattr \in [Chunks -> [Fields -> Int]] /\ xattr[HeadPart] = InitData
      /\ \A k \in Chunks : k # HeadPart => xattr[k] = U
  BY <1>1, <1>2, InitDataFacts DEF Init, U
<1>4. DiskType /\ InodeType /\ HistoryType
  BY <1>1, <1>3, InputAssumption DEF Init, DiskType, InodeType, HistoryType
<1>5. LocalType
  <2>1. NoCall \in CallType /\ "idle" \in Places
    BY DEF NoCall, CallType, Ops, Places
  <2>. QED
    BY <1>1, <2>1 DEF Init, LocalType
<1>6. FieldsOK /\ Complete(HeadPart)
  <2>1. {"next", "prev", "start", "len"} \subseteq Fields
    BY DEF Fields
  <2>. QED
    BY <1>1, <1>2, <1>3, <2>1, InitDataFacts DEF FieldsOK, Complete
<1>7. \A k \in Chunks : ~Links(k)
  <2>1. "next" \in Fields
    BY DEF Fields
  <2>. QED
    BY <1>2, <1>3, <2>1, InitDataFacts DEF Links
<1>8. LinksOK
  BY <1>7 DEF LinksOK
<1>9. Fresh(HeadPart)
  BY <1>1, <1>7 DEF Fresh, Init, Chunks, HeadPart
<1>10. \A t \in Tasks : TaskOK(t) /\ PosOK(t) /\ pc[t] = "idle"
  BY DEF Init, TaskOK, PosOK, Creating
<1>. QED
  BY <1>4, <1>5, <1>6, <1>8, <1>9, <1>10 DEF IInv, TypeOK

LEMMA StutterInv ==
    ASSUME IInv, UNCHANGED vars
    PROVE  IInv'
<1>1. /\ UNCHANGED <<xattr, made, data, dirty, cattr, isize, iattr, hashed, cached, lock>>
      /\ UNCHANGED <<pc, call, fpos, ppos, part, cd, fld, sum, res, owed, wend, faults>>
  BY DEF vars, disk, inode, local
<1>2. TypeOK'
  BY <1>1 DEF IInv, TypeOK, DiskType, InodeType, LocalType, HistoryType
<1>3. Quiet /\ \A u \in Tasks : Kept(u)
  BY <1>1 DEF Quiet, Kept
<1>4. \A u \in Tasks : TaskOK(u)' /\ PosOK(u)'
  BY <1>3, KeptTask
<1>5. FieldsOK' /\ LinksOK' /\ Complete(HeadPart)'
  BY <1>1 DEF IInv, FieldsOK, LinksOK, Links, Ready, Complete
<1>6. (hashed /\ faults = 0 => Fresh(HeadPart))' /\ (~hashed => \A t \in Tasks : pc[t] = "idle")'
  BY <1>1 DEF IInv, Fresh, Links
<1>. QED
  BY <1>2, <1>4, <1>5, <1>6 DEF IInv

\* The invariant is inductive: whatever the number of tasks, chunks, blocks
\* and failures, every step of the file's operations keeps it.
THEOREM Inductive == Spec => []IInv
<1>1. Init => IInv
  BY InitInv
<1>2. IInv /\ [Next]_vars => IInv'
  <2>. SUFFICES ASSUME IInv, [Next]_vars PROVE IInv'
    OBVIOUS
  <2>1. ASSUME NEW t \in Tasks, Enter(t) PROVE IInv'
    BY <2>1, EnterInv
  <2>2. ASSUME NEW t \in Tasks, Step(t) PROVE IInv'
    BY <2>2, WalkInv, CreateInv, SetNewInv, SetPrevInv, ClientInv DEF Step
  <2>3. CASE Evict \/ Restart \/ Lookup \/ LookupErr
    BY <2>3, WorldInv
  <2>4. CASE UNCHANGED vars
    BY <2>4, StutterInv
  <2>. QED
    BY <2>1, <2>2, <2>3, <2>4 DEF Next
<1>. QED
  BY <1>1, <1>2, PTL DEF Spec

\* Type correctness: f_pos and i_size stay natural numbers and a task only
\* ever holds parts in mounted chunks, so the BUG_ONs of load_continuation and
\* get_next_inode are never reached.
THEOREM TypeCorrect == Spec => []TypeOK
<1>1. IInv => TypeOK
  BY DEF IInv
<1>. QED
  BY <1>1, Inductive, PTL

\* The on-disk list is well formed at every moment, so also after a crash
\* between any two setxattrs: next pointers lead to existing parts and, unless
\* a client call failed, to complete ones that point back and adjoin.
THEOREM ChainCorrect == Spec => []ChainOK
<1>1. IInv => ChainOK
  <2>. SUFFICES ASSUME IInv, NEW k \in Chunks, xattr[k]["next"] \notin {0, Unset}
                PROVE  /\ k + 1 \in made
                       /\ xattr[k]["next"] = co_uino(k + 1)
                       /\ faults = 0 =>
                             /\ Complete(k + 1)
                             /\ xattr[k + 1]["prev"] = co_uino(k)
                             /\ xattr[k + 1]["start"] = xattr[k]["start"] + xattr[k]["len"]
    BY DEF ChainOK
  <2>1. Complete(k) /\ Ready(k + 1)
    BY DEF IInv, LinksOK, Links
  <2>2. LinksOn(k, xattr[k]["next"])
    BY DEF IInv, FieldsOK
  <2>3. k + 1 \in Chunks
    BY <2>2 DEF LinksOn
  <2>4. xattr[k]["start"] = StartOf(k) /\ xattr[k]["len"] = CLen
    BY <2>1, LoadedOK DEF HeldOK
  <2>5. ASSUME faults = 0
        PROVE  /\ Complete(k + 1)
               /\ xattr[k + 1]["prev"] = co_uino(k)
               /\ xattr[k + 1]["start"] = StartOf(k) + CLen
    <3>1. Complete(k + 1)
      BY <2>1, <2>5 DEF Ready
    <3>2. xattr[k + 1]["prev"] = PrevOf(k + 1) /\ xattr[k + 1]["start"] = StartOf(k + 1)
      BY <2>3, <3>1, LoadedOK DEF HeldOK
    <3>3. PrevOf(k + 1) = co_uino(k)
      BY DEF PrevOf, HeadPart, Chunks
    <3>. QED
      BY <3>1, <3>2, <3>3, StartFacts
  <2>. QED
    BY <2>1, <2>2, <2>4, <2>5 DEF LinksOn, Ready
<1>. QED
  BY <1>1, Inductive, PTL

-----------------------------------------------------------------------------
(* Who dies of an uninitialized continuation: a second inductive invariant *)

\* The new part that t is to load will not load
Doomed(t) == pc[t] \in {"setprev", "load"} /\ ~Complete(part[t] + 1)

\* The tasks that died in create_continuation or may, through a failure that is
\* already counted
Culprits == {t \in Tasks : pc[t] = "dead" \/ Doomed(t)}

CountInv == IsFiniteSet(Culprits) /\ Cardinality(Culprits) <= faults

\* A setxattr of create_continuation writes a value.
LEMMA SetGrows ==
    ASSUME IInv, NEW t \in Tasks, SetNew(t) \/ SetPrev(t)
    PROVE  Grows
<1>1. /\ TaskOK(t) /\ pc[t] \in {"setnew", "setprev"} /\ cd[t] \in [Fields -> Int]
      /\ made \subseteq Chunks
  BY DEF IInv, TypeOK, LocalType, DiskType, SetNew, SetPrev
<1>. DEFINE k == part[t]
<1>2. k \in Chunks /\ k + 1 \in Chunks /\ HeldOK(k, cd[t])
  BY <1>1 DEF TaskOK, Creating
<1>3. /\ NewData(k, cd[t]) \in [Fields -> Int] /\ PrevData(k, cd[t]) \in [Fields -> Int]
      /\ NewData(k, cd[t])["next"] = 0 /\ NewData(k, cd[t])["prev"] = PrevOf(k + 1)
      /\ NewData(k, cd[t])["start"] = StartOf(k + 1) /\ NewData(k, cd[t])["len"] = CLen
      /\ PrevData(k, cd[t])["next"] = co_uino(k + 1) /\ PrevData(k, cd[t])["prev"] = PrevOf(k)
      /\ PrevData(k, cd[t])["start"] = StartOf(k) /\ PrevData(k, cd[t])["len"] = CLen
  BY <1>1, <1>2, NewDataFacts DEF HeldOK, Fields
<1>4. /\ PrevOf(k) # Unset /\ PrevOf(k + 1) # Unset /\ co_uino(k + 1) # Unset
      /\ StartOf(k) # Unset /\ StartOf(k + 1) # Unset /\ CLen # Unset
  <2>1. k # HeadPart => k - 1 \in Chunks
    BY <1>2, ChunkAssumption DEF HeadPart, Chunks
  <2>2. PrevOf(k) # Unset /\ co_uino(k + 1) # Unset
    BY <1>2, <2>1, UinoFacts DEF PrevOf, Unset
  <2>3. PrevOf(k + 1) # Unset
    BY <1>2, UinoFacts DEF PrevOf, Unset, HeadPart, Chunks
  <2>. QED
    BY <1>2, <2>2, <2>3, StartFacts, ChunkAssumption DEF Unset
<1>5. \A f \in Fields : NewData(k, cd[t])[f] # Unset /\ PrevData(k, cd[t])[f] # Unset
  BY <1>3, <1>4 DEF Fields, Unset
<1>6. CASE SetNew(t)
  <2>1. SetField(t, k + 1, NewData(k, cd[t]), "setprev") /\ "setprev" \in Places
        /\ "setprev" # pc[t]
    BY <1>6 DEF SetNew, ToChunk, Places
  <2>. HIDE DEF k
  <2>. QED
    BY <1>2, <1>3, <1>5, <2>1, SetFieldFacts
<1>7. CASE SetPrev(t)
  <2>1. SetField(t, k, PrevData(k, cd[t]), "load") /\ "load" \in Places /\ "load" # pc[t]
    BY <1>7 DEF SetPrev, Places
  <2>. HIDE DEF k
  <2>. QED
    BY <1>2, <1>3, <1>5, <2>1, SetFieldFacts
<1>. QED
  BY <1>6, <1>7

\* The last setxattr for the new part makes it complete.
LEMMA NewComplete ==
    ASSUME IInv, NEW t \in Tasks, SetNew(t)
    PROVE  Complete(part[t] + 1)' \/ pc'[t] = "setnew"
<1>2. pc[t] = "setnew" /\ part' = part /\ fld[t] \in 1 .. 4 /\ part[t] + 1 \in Chunks
  BY DEF SetNew, SetField, IInv, TaskOK, Creating, TypeOK, LocalType, DiskType
<1>3. Grows
  BY SetGrows
<1>. SUFFICES ASSUME pc'[t] # "setnew" PROVE Complete(part[t] + 1)'
  BY <1>2 DEF Complete
<1>4. fld[t] = 4
  BY <1>2 DEF SetNew, SetField, IInv, TypeOK, LocalType
<1>5. \A i \in 1 .. 3 : xattr[part[t] + 1][Order[i]] # Unset
  BY <1>2, <1>4 DEF IInv, TaskOK
<1>6. \A i \in 1 .. 3 : xattr'[part[t] + 1][Order[i]] # Unset
  BY <1>2, <1>3, <1>5, OrderFacts DEF Grows
<1>7. xattr'[part[t] + 1]["len"] # Unset
  <2>1. xattr' = [xattr EXCEPT ![part[t] + 1] = [@ EXCEPT !["len"] = NewData(part[t], cd[t])["len"]]]
    BY <1>4, OrderFacts DEF SetNew, SetField, ToChunk
  <2>2. NewData(part[t], cd[t])["len"] = CLen /\ CLen # Unset
    BY ChunkAssumption DEF NewData, CD, Fields, Unset
  <2>. QED
    BY <1>2, <2>1, <2>2 DEF IInv, TypeOK, DiskType, Fields
<1>. QED
  BY <1>2, <1>6, <1>7, OrderFacts DEF Complete, Fields

\* The count of failures grows by at most one.
LEMMA FaultsGrow ==
    ASSUME IInv, NEW t \in Tasks, Enter(t) \/ Step(t)
    PROVE  faults' \in {faults, faults + 1}
<1>1. CASE Enter(t)
  BY <1>1 DEF Enter, Open, Read, Pread, ReadFrom, Write, Pwrite, WriteTo, Fsync, Seek, Close, Setattr
<1>2. HistoryType
  BY DEF IInv, TypeOK
<1>3. ASSUME UNCHANGED faults \/ Fault PROVE faults' \in {faults, faults + 1}
  BY <1>2, <1>3, FaultFacts
<1>4. CASE Step(t)
  BY <1>2, <1>3, <1>4, FaultFacts
     DEF Step, Lock, WalkOn, WalkFound, WalkNoOpen, WalkEnd, WalkErr, TailOn, TailEnd, TailErr, Create,
         CreateErr, SetNew, SetPrev, SetField, SetErr, LoadNew, LoadNewErr, ReadClient, WriteClient,
         ClientErr, SumStart, SumOn, SumEnd, SyncOn, SyncLost, SyncEnd, SyncErr
<1>. QED
  BY <1>1, <1>4

\* What the other tasks do is not for t to change, and attributes stay.
LEMMA OthersKept ==
    ASSUME IInv, NEW t \in Tasks, Enter(t) \/ Step(t)
    PROVE  /\ \A u \in Tasks \ {t} : pc'[u] = pc[u] /\ part'[u] = part[u]
           /\ Grows
<1>1. pc \in [Tasks -> Places] /\ part \in [Tasks -> 0 .. NChunks]
  BY DEF IInv, TypeOK, LocalType
<1>2. ASSUME NEW r, Return(t, r)
      PROVE  \A u \in Tasks \ {t} : pc'[u] = pc[u] /\ part'[u] = part[u]
  BY <1>1, <1>2 DEF Return, Goto, Drop
<1>3. CASE Enter(t)
  <2>1. xattr' = xattr
    BY <1>3 DEF Enter, Open, Read, Pread, ReadFrom, Write, Pwrite, WriteTo, Fsync, Seek, Close,
       Setattr, disk
  <2>2. \A u \in Tasks \ {t} : pc'[u] = pc[u] /\ part'[u] = part[u]
    BY <1>1, <1>3 DEF Enter, Open, Read, Pread, ReadFrom, Write, Pwrite, WriteTo, Fsync, Seek, Close,
       Setattr, Begin, Goto
  <2>. QED
    BY <2>1, <2>2 DEF Grows
<1>4. CASE SetNew(t) \/ SetPrev(t)
  <2>1. \A u \in Tasks \ {t} : pc'[u] = pc[u] /\ part'[u] = part[u]
    BY <1>1, <1>4 DEF SetNew, SetPrev, SetField
  <2>2. Grows
    BY <1>4, SetGrows
  <2>. QED
    BY <2>1, <2>2
<1>5. CASE \/ Lock(t) \/ WalkOn(t) \/ WalkFound(t) \/ WalkNoOpen(t) \/ WalkEnd(t) \/ WalkErr(t)
           \/ TailOn(t) \/ TailEnd(t) \/ TailErr(t) \/ Create(t) \/ CreateErr(t)
  <2>1. xattr' = xattr
    BY <1>5 DEF Lock, WalkOn, WalkFound, WalkNoOpen, WalkEnd, WalkErr, TailOn, TailEnd, TailErr,
       Create, CreateErr, disk
  <2>2. \A u \in Tasks \ {t} : pc'[u] = pc[u] /\ part'[u] = part[u]
    BY <1>1, <1>2, <1>5 DEF Lock, WalkOn, WalkFound, WalkNoOpen, WalkEnd, WalkErr, TailOn, TailEnd,
       TailErr, Create, CreateErr, Hold, Drop, Goto
  <2>. QED
    BY <2>1, <2>2 DEF Grows
<1>6. CASE \/ SetErr(t) \/ LoadNew(t) \/ LoadNewErr(t)
           \/ ReadClient(t) \/ WriteClient(t) \/ ClientErr(t)
           \/ SumStart(t) \/ SumOn(t) \/ SumEnd(t)
           \/ SyncOn(t) \/ SyncLost(t) \/ SyncEnd(t) \/ SyncErr(t)
  <2>1. xattr' = xattr
    BY <1>6 DEF SetErr, LoadNew, LoadNewErr, ReadClient, WriteClient, ClientErr, SumStart, SumOn,
       SumEnd, SyncOn, SyncLost, SyncEnd, SyncErr, disk
  <2>2. \A u \in Tasks \ {t} : pc'[u] = pc[u] /\ part'[u] = part[u]
    BY <1>1, <1>2, <1>6 DEF SetErr, LoadNew, LoadNewErr, ReadClient, WriteClient, ClientErr, SumStart,
       SumOn, SumEnd, SyncOn, SyncLost, SyncEnd, SyncErr, Hold, Goto
  <2>. QED
    BY <2>1, <2>2 DEF Grows
<1>. QED
  BY <1>3, <1>4, <1>5, <1>6 DEF Step

\* A task comes to its death, or on the way to it, by a failure of its own: a
\* setxattr for the new part that fails, or the load of the new part.
LEMMA OwnFault ==
    ASSUME IInv, NEW t \in Tasks, Enter(t) \/ Step(t), t \in Culprits'
    PROVE  t \in Culprits \/ faults' = faults + 1
<1>1. pc'[t] = "dead" \/ Doomed(t)'
  BY DEF Culprits
<1>2. pc \in [Tasks -> Places] /\ TaskOK(t) /\ fld[t] \in 1 .. 4
  BY DEF IInv, TypeOK, LocalType
<1>3. CASE SetNew(t)
  <2>1. Complete(part[t] + 1)' \/ pc'[t] = "setnew"
    BY <1>3, NewComplete
  <2>2. pc'[t] # "dead"
    BY <1>2, <1>3 DEF SetNew, SetField
  <2>. QED
    BY <1>1, <2>1, <2>2 DEF Doomed
<1>4. CASE SetPrev(t)
  <2>1. part' = part /\ pc[t] = "setprev" /\ pc'[t] \in {"setprev", "load"} /\ Grows
    BY <1>2, <1>4, SetGrows DEF SetPrev, SetField
  <2>2. part[t] + 1 \in Chunks
    BY <1>2, <2>1 DEF TaskOK, Creating, IInv, TypeOK, DiskType
  <2>3. Complete(part[t] + 1) => Complete(part[t] + 1)'
    BY <2>1, <2>2 DEF Complete, Grows
  <2>. QED
    BY <1>1, <2>1, <2>3 DEF Doomed, Culprits
<1>5. CASE SetErr(t)
  BY <1>5 DEF SetErr, Fault
<1>6. CASE LoadNewErr(t)
  BY <1>6 DEF LoadNewErr, Fault, ToChunk, Doomed, Culprits
<1>7. ASSUME NEW r, Return(t, r) PROVE FALSE
  BY <1>1, <1>2, <1>7 DEF Return, Goto, Doomed
<1>8. CASE Enter(t)
  BY <1>1, <1>2, <1>8 DEF Enter, Open, Read, Pread, ReadFrom, Write, Pwrite, WriteTo, Fsync, Seek,
     Close, Setattr, Begin, Goto, Doomed
<1>9. CASE \/ Lock(t) \/ WalkOn(t) \/ WalkFound(t) \/ WalkNoOpen(t) \/ WalkEnd(t) \/ WalkErr(t)
           \/ TailOn(t) \/ TailEnd(t) \/ TailErr(t) \/ Create(t) \/ CreateErr(t)
  BY <1>1, <1>2, <1>7, <1>9 DEF Lock, WalkOn, WalkFound, WalkNoOpen, WalkEnd, WalkErr, TailOn, TailEnd,
     TailErr, Create, CreateErr, Goto, Doomed
<1>10. CASE \/ LoadNew(t) \/ ReadClient(t) \/ WriteClient(t) \/ ClientErr(t)
            \/ SumStart(t) \/ SumOn(t) \/ SumEnd(t)
            \/ SyncOn(t) \/ SyncLost(t) \/ SyncEnd(t) \/ SyncErr(t)
  BY <1>1, <1>2, <1>7, <1>10 DEF LoadNew, ReadClient, WriteClient, ClientErr, SumStart, SumOn, SumEnd,
     SyncOn, SyncLost, SyncEnd, SyncErr, Goto, Doomed
<1>. QED
  BY <1>3, <1>4, <1>5, <1>6, <1>8, <1>9, <1>10 DEF Step

\* Every step adds at most its own task, and then counts a failure.
LEMMA CountStep ==
    ASSUME IInv, CountInv, [Next]_vars
    PROVE  CountInv'
<1>1. faults \in Nat /\ Cardinality(Culprits) \in Nat
  BY FS_CardinalityType, InputAssumption DEF IInv, TypeOK, HistoryType, CountInv
<1>2. ASSUME Culprits' \subseteq Culprits, faults' \in {faults, faults + 1}
      PROVE  CountInv'
  <2>1. IsFiniteSet(Culprits') /\ Cardinality(Culprits') <= Cardinality(Culprits)
    BY <1>2, FS_Subset DEF CountInv
  <2>2. Cardinality(Culprits') \in Nat
    BY <2>1, FS_CardinalityType
  <2>3. IsFiniteSet(Culprits)' /\ Cardinality(Culprits)' <= faults'
    BY <1>1, <1>2, <2>1, <2>2 DEF CountInv
  <2>. QED
    BY <2>3 DEF CountInv
<1>3. ASSUME NEW t \in Tasks, Enter(t) \/ Step(t)
      PROVE  CountInv'
  <2>1. faults' \in {faults, faults + 1}
    BY <1>3, FaultsGrow
  <2>2. Culprits' \subseteq Culprits \cup {t}
    <3>. SUFFICES ASSUME NEW u \in Tasks \ {t}, u \in Culprits' PROVE u \in Culprits
      BY DEF Culprits
    <3>1. pc'[u] = pc[u] /\ part'[u] = part[u] /\ Grows
      BY <1>3, OthersKept
    <3>2. pc[u] \in {"setprev", "load"} => part[u] + 1 \in Chunks
      BY DEF IInv, TaskOK, Creating, TypeOK, DiskType
    <3>3. Doomed(u)' => Doomed(u)
      BY <3>1, <3>2 DEF Doomed, Complete, Grows
    <3>. QED
      BY <3>1, <3>3 DEF Culprits
  <2>3. CASE t \notin Culprits' \/ t \in Culprits
    BY <1>2, <2>1, <2>2, <2>3
  <2>4. CASE t \in Culprits' /\ t \notin Culprits
    <3>1. faults' = faults + 1
      BY <1>3, <2>4, OwnFault
    <3>2. /\ IsFiniteSet(Culprits \cup {t})
          /\ Cardinality(Culprits \cup {t}) = Cardinality(Culprits) + 1
      BY <2>4, FS_AddElement DEF CountInv
    <3>3. /\ IsFiniteSet(Culprits')
          /\ Cardinality(Culprits') <= Cardinality(Culprits \cup {t})
      BY <2>2, <3>2, FS_Subset
    <3>4. Cardinality(Culprits') \in Nat
      BY <3>3, FS_CardinalityType
    <3>5. IsFiniteSet(Culprits)' /\ Cardinality(Culprits)' <= faults'
      BY <1>1, <3>1, <3>2, <3>3, <3>4 DEF CountInv
    <3>. QED
      BY <3>5 DEF CountInv
  <2>. QED
    BY <2>3, <2>4
<1>4. CASE Evict \/ Restart \/ Lookup \/ LookupErr
  <2>1. faults' \in {faults, faults + 1}
    BY <1>4 DEF Evict, Restart, Lookup, LookupErr, Fault
  <2>2. \A u \in Tasks : pc'[u] = "idle"
    BY <1>4 DEF IInv, Evict, Restart, Lookup, LookupErr, local
  <2>3. Culprits' \subseteq Culprits
    BY <2>2 DEF Culprits, Doomed
  <2>. QED
    BY <1>2, <2>1, <2>3
<1>5. CASE UNCHANGED vars
  <2>1. Culprits' = Culprits /\ faults' = faults
    BY <1>5 DEF vars, disk, local, Culprits, Doomed, Complete
  <2>. QED
    BY <1>2, <2>1
<1>. QED
  BY <1>3, <1>4, <1>5 DEF Next

\* However many tasks race and whatever client calls fail: a read or write is
\* sent through a continuation that was loaded, at the offset it asked for, and
\* no more tasks die of an uninitialized one than client calls have failed.
THEOREM NoWildContCorrect == Spec => []NoWildCont
<1>1. Init => CountInv
  <2>. SUFFICES ASSUME Init PROVE CountInv
    OBVIOUS
  <2>1. Culprits = {}
    BY DEF Init, Culprits, Doomed
  <2>. QED
    BY <2>1, FS_EmptySet DEF CountInv, Init
<1>2. IInv /\ CountInv /\ [Next]_vars => CountInv'
  BY CountStep
<1>3. IInv /\ CountInv => NoWildCont
  <2>. SUFFICES ASSUME IInv, CountInv PROVE NoWildCont
    OBVIOUS
  <2>1. ASSUME NEW t \in Tasks, pc[t] = "io"
        PROVE  /\ Complete(part[t])
               /\ ppos[t] = call[t].at - xattr[part[t]]["start"]
               /\ call[t].op \in Reads => ppos[t] \in 0 .. xattr[part[t]]["len"] - 1
    <3>1. TaskOK(t) /\ PosOK(t)
      BY DEF IInv
    <3>2. part[t] \in Chunks /\ Complete(part[t])
      BY <2>1, <3>1 DEF TaskOK, PosOK
    <3>3. xattr[part[t]]["start"] = StartOf(part[t]) /\ xattr[part[t]]["len"] = CLen
      BY <3>2, LoadedOK DEF HeldOK
    <3>. QED
      BY <2>1, <3>1, <3>2, <3>3 DEF PosOK
  <2>2. Cardinality({t \in Tasks : pc[t] = "dead"}) <= faults
    <3>. DEFINE Dead == {t \in Tasks : pc[t] = "dead"}
    <3>1. Dead \subseteq Culprits
      BY DEF Culprits
    <3>. HIDE DEF Dead
    <3>2. IsFiniteSet(Dead) /\ Cardinality(Dead) <= Cardinality(Culprits)
      BY <3>1, FS_Subset DEF CountInv
    <3>3. Cardinality(Dead) \in Nat /\ Cardinality(Culprits) \in Nat /\ faults \in Nat
      BY <3>2, FS_CardinalityType, InputAssumption DEF CountInv, IInv, TypeOK, HistoryType
    <3>4. Cardinality(Dead) <= faults
      BY <3>2, <3>3 DEF CountInv
    <3>. QED
      BY <3>4 DEF Dead
  <2>. QED
    BY <2>1, <2>2 DEF NoWildCont
<1>. QED
  BY <1>1, <1>2, <1>3, Inductive, PTL DEF Spec

\* get_next_inode only ever meets inodes that are in the cache, although it
\* takes no lock and reads none from disk, unless a client call failed.
THEOREM ReachCachedCorrect == Spec => []ReachCached
<1>1. UINO_TO_CHUNK_ID(0) = 0
  <2>1. 0 \in 0 .. ChunkSpace - 1 /\ 0 \in 0 .. InoSpace - 1 /\ InoSpace \in Nat
    BY SpaceAssumption
  <2>2. MAKE_UINO(0, 0) = 0
    BY <2>1 DEF MAKE_UINO
  <2>. QED
    BY <2>1, <2>2, UinoRoundTrip
<1>2. IInv => ReachCached
  <2>. SUFFICES ASSUME IInv, hashed, faults = 0, NEW k \in Chunks, Linked(k)
                PROVE  k \in cached
    BY DEF ReachCached
  <2>1. ASSUME NEW i \in Chunks, i < k
        PROVE  Links(i)
    <3>1. i \in 1 .. k - 1 /\ i + 1 # 0
      BY <2>1 DEF Chunks
    <3>. QED
      BY <1>1, <3>1 DEF Linked, NextInode, Links
  <2>2. HeadPart <= k
    BY DEF HeadPart, Chunks
  <2>. QED
    BY <2>1, <2>2 DEF IInv, Fresh
<1>. QED
  BY <1>2, Inductive, PTL
=============================================================================
