-------------------------- MODULE OneWriterProofs --------------------------
(***************************************************************************)
(* What the continuation list gives a file that only one task writes, with *)
(* any number of readers, and of tasks that call fsync: no part is lost,   *)
(* fsync reaches every part, and every read and write goes to the part     *)
(* that holds its offset.  With two writers, after an eviction of the      *)
(* dentry, or after a failed setxattr the list loses parts (the runs       *)
(* unlocked_create and lookup_unlinks show it), so these are hypotheses of *)
(* the theorems.                                                           *)
(***************************************************************************)
EXTENDS ChunkFileProofs

\* At most one task writes, nothing cuts the list, and no client call fails
OneWriter ==
    /\ \A t, u \in Writers : t = u
    /\ ~Evictions
    /\ MaxFaults = 0

\* The writer leaves no holes, and a client file takes no more than its part
\* of the file
Sequential == Continuous /\ MaxPart <= CLen

-----------------------------------------------------------------------------
(* The inductive invariant                                                 *)

\* The part in chunk k is reached over links (Linked, for well formed links)
InList(k) == \A j \in 1 .. k - 1 : Links(j)

\* The links make one chain from the head
Prefix == \A k \in Chunks : Links(k) => \A j \in 1 .. k : Links(j)

\* Data and pages to write are in the chain
InChain == \A k \in Chunks : data[k] # <<>> \/ k \in dirty => InList(k)

\* A walk stays in the chain, which only grows
Walking == {"walk", "tail", "sync"}
OnChain(t) ==
    /\ pc[t] \in Walking \cup Creating \cup {"io"} /\ part[t] # 0 => InList(part[t])
    /\ pc[t] \in Walking /\ part[t] # 0 /\ cd[t]["next"] # 0 => Links(part[t])

\* Only the writer changes the chain, so that what it has read is still true
\* when it adds a part
Owner(t) ==
    /\ call[t].op \in Writes => t \in Writers
    /\ pc[t] \in {"walk", "tail"} /\ t \in Writers /\ part[t] # 0 =>
          cd[t]["next"] = xattr[part[t]]["next"]
    /\ pc[t] \in {"create", "setnew"} \/ (pc[t] = "setprev" /\ fld[t] = 1) => ~Links(part[t])
    /\ pc[t] = "load" \/ (pc[t] = "setprev" /\ fld[t] > 1) => Links(part[t])

\* What an fsync still has to write lies ahead of it, and it will get there
Ahead(t) ==
    /\ owed[t] # {} => pc[t] = "sync" \/ (pc[t] = "lock" /\ call[t].op = "fsync")
    /\ \A k \in owed[t] : InList(k)
    /\ pc[t] = "sync" => \A k \in owed[t] :
          part[t] < k /\ (part[t] # 0 => cd[t]["next"] # 0)

\* Offset p is in the chain or just after its end
Within(p) == \E k \in Chunks : InList(k) /\ p <= StartOf(k) + CLen

\* A call goes to the part of its offset
Aimed(t) ==
    /\ pc[t] \in {"lock", "walk", "tail"} \cup Creating => ppos[t] = call[t].at
    /\ call[t].op \in Writes => ~call[t].app
    /\ pc[t] \in {"lock", "walk", "tail"} /\ call[t].op \in Writes => Within(call[t].at)
    /\ pc[t] = "walk" /\ part[t] # 0 => call[t].at >= StartOf(part[t]) + CLen
    /\ pc[t] = "tail" => \A k \in Chunks : InList(k) => call[t].at >= StartOf(k) + CLen
    /\ pc[t] \in Creating => call[t].at = StartOf(part[t]) + CLen
    /\ pc[t] = "io" => /\ call[t].at - StartOf(part[t]) = ppos[t]
                       /\ ppos[t] \in 0 .. CLen - 1

ChainInv == /\ hashed /\ Prefix /\ InChain
            /\ \A t \in Tasks : OnChain(t) /\ Owner(t) /\ Ahead(t)

AimInv == Within(wend) /\ \A t \in Tasks : Aimed(t)

-----------------------------------------------------------------------------
(* What a step leaves alone                                                *)

\* The locals of another task, and what its fsync owes
Same(u) == /\ pc'[u] = pc[u] /\ call'[u] = call[u] /\ ppos'[u] = ppos[u]
           /\ part'[u] = part[u] /\ cd'[u] = cd[u] /\ fld'[u] = fld[u]
           /\ owed'[u] \subseteq owed[u]

\* A task changes only its own locals; an fsync may do another one's work.
LEMMA StepOthers ==
    ASSUME IInv, NEW t \in Tasks, Enter(t) \/ Step(t)
    PROVE  \A u \in Tasks \ {t} : Same(u)
<1>1. /\ LocalType /\ owed \in [Tasks -> SUBSET Chunks]
  BY DEF IInv, TypeOK, HistoryType
<1> SUFFICES ASSUME NEW u \in Tasks \ {t} PROVE Same(u)
  OBVIOUS
<1> USE <1>1 DEF LocalType, Same
<1>2. CASE Open(t) \/ Read(t) \/ Pread(t) \/ Write(t) \/ Pwrite(t) \/ Fsync(t)
  BY <1>2 DEF Open, Read, Pread, ReadFrom, Write, Pwrite, WriteTo, Fsync, Begin, Goto
<1>3. CASE Seek(t) \/ Close(t)
  BY <1>3 DEF Seek, Close, Goto
<1>4. CASE Setattr(t)
  BY <1>4 DEF Setattr, Begin, Goto
<1>5. CASE Lock(t) \/ WalkOn(t) \/ WalkFound(t)
  BY <1>5 DEF Lock, WalkOn, WalkFound, Hold, Goto
<1>6. CASE WalkNoOpen(t) \/ WalkErr(t) \/ WalkEnd(t) \/ TailErr(t) \/ CreateErr(t)
  BY <1>6 DEF WalkNoOpen, WalkErr, WalkEnd, TailErr, CreateErr, Return, Drop, Goto
<1>7. CASE TailOn(t) \/ TailEnd(t) \/ Create(t)
  BY <1>7 DEF TailOn, TailEnd, Create, Hold, Goto
<1>8. CASE SetNew(t) \/ SetPrev(t) \/ SetErr(t)
  BY <1>8 DEF SetNew, SetPrev, SetField, SetErr, Goto
<1>9. CASE LoadNew(t)
  BY <1>9 DEF LoadNew, Hold, Goto
<1>10. CASE LoadNewErr(t)
  BY <1>10 DEF LoadNewErr, Return, Drop, Goto
<1>11. CASE ReadClient(t) \/ WriteClient(t) \/ ClientErr(t)
  BY <1>11 DEF ReadClient, WriteClient, ClientErr, Goto
<1>12. CASE SumStart(t) \/ SumOn(t) \/ SumEnd(t)
  BY <1>12 DEF SumStart, SumOn, SumEnd, Return, Drop, Goto
<1>13. CASE SyncOn(t) \/ SyncLost(t) \/ SyncEnd(t) \/ SyncErr(t)
  BY <1>13 DEF SyncOn, SyncLost, SyncEnd, SyncErr, Hold, Return, Drop, Goto
<1> QED
  BY <1>2, <1>3, <1>4, <1>5, <1>6, <1>7, <1>8, <1>9, <1>10, <1>11, <1>12, <1>13 DEF Enter, Step

-----------------------------------------------------------------------------
(* The chain                                                               *)

\* Nothing fails.
LEMMA FaultFree ==
    ASSUME OneWriter, IInv
    PROVE  faults = 0 /\ ~Fault
  BY DEF OneWriter, IInv, TypeOK, HistoryType, Fault

\* So get_next_cont finds nothing only when there is nothing to find.
LEMMA NothingFound ==
    ASSUME OneWriter, IInv, NEW t \in Tasks, AtEnd(t) \/ Enoent(t) \/ Enodata(t)
    PROVE  ~NextCont(t)
  BY FaultFree DEF NextCont, Enoent, Enodata

\* A step that only adds links keeps what is in the chain there.
LEMMA ChainGrows ==
    ASSUME IInv, ChainInv, \A j \in Chunks : Links(j) => Links(j)',
           hashed', Prefix', NEW t \in Tasks, \A u \in Tasks \ {t} : Same(u) /\ Owner(u)',
           \A k \in Chunks : data'[k] # <<>> \/ k \in dirty' =>
               data[k] # <<>> \/ k \in dirty \/ InList(k)',
           OnChain(t)', Owner(t)', Ahead(t)'
    PROVE  ChainInv'
<1>1. \A k \in Chunks : InList(k) => InList(k)'
  <2>1. \A k \in Chunks : 1 .. k - 1 \subseteq Chunks
    BY ChunkAssumption DEF Chunks
  <2> QED
    BY <2>1 DEF InList
<1>2. InChain'
  BY <1>1 DEF ChainInv, InChain
<1>3. ASSUME NEW u \in Tasks \ {t} PROVE OnChain(u)' /\ Ahead(u)'
  <2>1. OnChain(u) /\ Ahead(u) /\ Same(u)
    BY DEF ChainInv
  <2>2. part[u] # 0 => part[u] \in Chunks
    BY DEF IInv, TypeOK, LocalType, Chunks
  <2>3. owed[u] \subseteq Chunks
    BY DEF IInv, TypeOK, HistoryType
  <2>4. OnChain(u)'
    BY <1>1, <2>1, <2>2 DEF OnChain, Same
  <2>5. Ahead(u)'
    BY <1>1, <2>1, <2>3 DEF Ahead, Same
  <2> QED
    BY <2>4, <2>5
<1> QED
  BY <1>2, <1>3 DEF ChainInv

\* So does one that changes no attribute.
LEMMA ChainStep ==
    ASSUME IInv, ChainInv, xattr' = xattr, hashed' = hashed,
           NEW t \in Tasks, \A u \in Tasks \ {t} : Same(u),
           \A k \in Chunks : data'[k] # <<>> \/ k \in dirty' =>
               data[k] # <<>> \/ k \in dirty \/ InList(k),
           OnChain(t)', Owner(t)', Ahead(t)'
    PROVE  ChainInv'
<1>1. \A j : Links(j)' <=> Links(j)
  BY DEF Links
<1>2. \A k : InList(k)' <=> InList(k)
  BY <1>1 DEF InList
<1>3. Prefix' /\ hashed'
  BY <1>1 DEF ChainInv, Prefix
<1>4. \A u \in Tasks \ {t} : Owner(u)'
  BY <1>1 DEF ChainInv, Owner, Same
<1> QED
  BY <1>1, <1>2, <1>3, <1>4, ChainGrows

\* A task that is not in the list.
LEMMA AwayFromList ==
    ASSUME NEW t \in Tasks, pc'[t] \in {"idle", "open", "up", "sum"}, owed'[t] = {},
           call'[t].op \in Writes => t \in Writers
    PROVE  OnChain(t)' /\ Owner(t)' /\ Ahead(t)'
  BY DEF OnChain, Owner, Ahead, Walking, Creating

\* The head is in the chain.
LEMMA HeadInList == InList(HeadPart) /\ HeadPart \in Chunks
  BY ChunkAssumption DEF InList, HeadPart, Chunks

\* The call of a task that is not in an fsync owes nothing.
LEMMA NothingOwed ==
    ASSUME ChainInv, NEW t \in Tasks, pc[t] # "sync", pc[t] # "lock" \/ call[t].op # "fsync"
    PROVE  owed[t] = {}
  BY DEF ChainInv, Ahead

\* A system call begins.
LEMMA EnterChain ==
    ASSUME IInv, ChainInv, NEW t \in Tasks, Enter(t)
    PROVE  ChainInv'
<1>0. \A u \in Tasks \ {t} : Same(u)
  BY StepOthers
<1>1. /\ DiskType /\ LocalType /\ HistoryType
      /\ pc[t] \in {"idle", "open"} /\ part[t] = 0 /\ owed[t] = {}
  <2>1. pc[t] \in {"idle", "open"}
    BY DEF Enter, Open, Read, Pread, ReadFrom, Write, Pwrite, WriteTo, Fsync, Seek, Close, Setattr
  <2> QED
    BY <2>1, IdlePart, NothingOwed DEF IInv, TypeOK
<1>2. CASE \E op \in {"open", "fsync"} \cup Reads \cup Writes :
             /\ \E n, v, p, a : Begin(t, SysCall(op, n, v, p, a), "lock")
             /\ op \in Writes => t \in Writers
             /\ owed'[t] = IF op = "fsync" THEN dirty ELSE {}
             /\ UNCHANGED <<disk, inode, part>>
  <2>0. PICK op \in {"open", "fsync"} \cup Reads \cup Writes :
             /\ \E n, v, p, a : Begin(t, SysCall(op, n, v, p, a), "lock")
             /\ op \in Writes => t \in Writers
             /\ owed'[t] = IF op = "fsync" THEN dirty ELSE {}
    BY <1>2
  <2>1. PICK n, v, p, a : Begin(t, SysCall(op, n, v, p, a), "lock")
    BY <2>0
  <2>2. pc'[t] = "lock" /\ call'[t] = SysCall(op, n, v, p, a)
    BY <1>1, <2>1 DEF Begin, Goto, LocalType
  <2>3. SysCall(op, n, v, p, a).op = op
    BY DEF SysCall
  <2>4. call'[t].op = op
    BY <2>2, <2>3
  <2>5. \A k \in dirty : InList(k)'
    BY <1>1, <1>2 DEF ChainInv, InChain, InList, Links, DiskType, disk
  <2>6. OnChain(t)' /\ Owner(t)'
    BY <2>0, <2>2, <2>4 DEF OnChain, Owner, Walking, Creating
  <2>7. Ahead(t)'
    BY <2>0, <2>2, <2>4, <2>5 DEF Ahead
  <2> QED
    BY <1>0, <1>2, <2>6, <2>7, ChainStep DEF disk, inode
<1>3. CASE Open(t)
  BY <1>1, <1>2, <1>3 DEF Open, Writes
<1>4. ASSUME NEW op \in Reads, NEW p, ReadFrom(t, op, p) PROVE ChainInv'
  <2>1. owed'[t] = {} /\ op \notin Writes /\ op # "fsync"
    BY <1>1, <1>4 DEF ReadFrom, HistoryType, Reads, Writes
  <2> QED
    BY <1>2, <1>4, <2>1 DEF ReadFrom
<1>5. ASSUME NEW op \in Writes, NEW p, WriteTo(t, op, p) PROVE ChainInv'
  <2>1. owed'[t] = {} /\ op # "fsync" /\ t \in Writers
    BY <1>1, <1>5 DEF WriteTo, HistoryType, Writes
  <2> QED
    BY <1>2, <1>5, <2>1 DEF WriteTo
<1>6. CASE Fsync(t)
  <2>1. owed'[t] = dirty /\ "fsync" \notin Writes
    BY <1>1, <1>6 DEF Fsync, HistoryType, Writes
  <2> QED
    BY <1>2, <1>6, <2>1 DEF Fsync
<1>7. CASE Seek(t) \/ Close(t)
  <2>1. pc'[t] \in {"idle", "open"} /\ owed'[t] = {} /\ call'[t] = call[t]
    BY <1>1, <1>7 DEF Seek, Close, Goto, LocalType, HistoryType
  <2>2. OnChain(t)' /\ Owner(t)' /\ Ahead(t)'
    BY <2>1, AwayFromList DEF ChainInv, Owner
  <2> QED
    BY <1>0, <1>7, <2>2, ChainStep DEF Seek, Close, disk, inode
<1>8. CASE Setattr(t)
  <2>1. owed'[t] = {} /\ t \in Writers
    BY <1>1, <1>8 DEF Setattr, HistoryType
  <2>2. pc'[t] = "up"
    BY <1>1, <1>8 DEF Setattr, Begin, Goto, LocalType
  <2>3. OnChain(t)' /\ Owner(t)' /\ Ahead(t)'
    BY <2>1, <2>2, AwayFromList
  <2>4. ASSUME NEW k \in Chunks, data'[k] # <<>> \/ k \in dirty'
        PROVE  data[k] # <<>> \/ k \in dirty \/ InList(k)
    <3>1. CASE k = HeadPart
      BY <3>1, HeadInList
    <3>2. CASE k # HeadPart
      BY <1>1, <1>8, <2>4, <3>2 DEF Setattr, DiskType
    <3> QED
      BY <3>1, <3>2
  <2> QED
    BY <1>0, <1>8, <2>3, <2>4, ChainStep DEF Setattr, inode
<1>9. "read" \in Reads /\ "pread" \in Reads /\ "write" \in Writes /\ "pwrite" \in Writes
  BY DEF Reads, Writes
<1> QED
  BY <1>3, <1>4, <1>5, <1>6, <1>7, <1>8, <1>9 DEF Enter, Read, Pread, Write, Pwrite

\* A part follows another one in the chain if that is linked.
LEMMA InListNext ==
    ASSUME NEW k \in Chunks, InList(k), Links(k)
    PROVE  InList(k + 1)
  BY DEF InList, Chunks

\* get_next_cont goes from part to part of the chain.
LEMMA FollowsChain ==
    ASSUME IInv, ChainInv, NEW t \in Tasks, pc[t] \in Walking, NextCont(t)
    PROVE  /\ Following(t) = part[t] + 1 /\ Following(t) \in Chunks
           /\ InList(Following(t))
           /\ xattr[Following(t)]["next"] # 0 => Links(Following(t))
<1>1. Following(t) \in Chunks /\ Complete(Following(t))
  BY FollowingFacts
<1>2. xattr[Following(t)]["next"] # 0 => Links(Following(t))
  BY <1>1 DEF Complete, Fields, Links
<1>3. CASE part[t] = 0
  BY <1>1, <1>2, <1>3, HeadInList DEF Following, HeadPart
<1>4. CASE part[t] # 0
  <2>1. part[t] \in Chunks /\ Following(t) = part[t] + 1 /\ cd[t]["next"] # 0
    BY <1>4 DEF NextCont, PathOK, AtEnd, IInv, TypeOK, LocalType, Chunks
  <2>2. InList(part[t]) /\ Links(part[t])
    BY <1>4, <2>1 DEF ChainInv, OnChain
  <2> QED
    BY <1>1, <1>2, <2>1, <2>2, InListNext
<1> QED
  BY <1>3, <1>4

\* A walk that cannot go on is at the end of the chain as it knows it: nothing
\* that a link leads to is missing.
LEMMA WalkStops ==
    ASSUME OneWriter, IInv, NEW t \in Tasks, pc[t] \in Walking, ~NextCont(t)
    PROVE  AtEnd(t) /\ part[t] \in Chunks /\ cd[t]["next"] = 0
<1>1. faults = 0 /\ TaskOK(t) /\ HeadPart \in Chunks
  BY FaultFree, HeadInList DEF IInv
<1>2. part[t] # 0
  BY DEF NextCont, AtEnd, PathOK, Following, IInv
<1>3. part[t] \in Chunks /\ HeldOK(part[t], cd[t])
  BY <1>1, <1>2 DEF TaskOK, Walking, IInv, TypeOK, LocalType, Chunks
<1>4. CASE LinksOn(part[t], cd[t]["next"]) /\ Ready(part[t] + 1)
  <2>1. part[t] + 1 \in Chunks /\ cd[t]["next"] = co_uino(part[t] + 1)
        /\ part[t] + 1 \in made /\ Complete(part[t] + 1)
    BY <1>1, <1>4 DEF LinksOn, Ready
  <2>2. Following(t) = part[t] + 1
    BY <1>2, <2>1, UinoFacts DEF Following
  <2>3. part[t] + 1 # HeadPart
    BY <1>3 DEF HeadPart, Chunks
  <2>4. ~AtEnd(t)
    BY <2>1, <2>3, UinoFacts, UinoOfHead DEF AtEnd
  <2> QED
    BY <2>1, <2>2, <2>4 DEF NextCont, PathOK
<1>5. CASE cd[t]["next"] = 0
  BY <1>2, <1>3, <1>5 DEF AtEnd
<1> QED
  BY <1>3, <1>4, <1>5 DEF HeldOK

\* A call returns, from wherever it owes nothing.
LEMMA ReturnChain ==
    ASSUME IInv, ChainInv, NEW t \in Tasks, NEW r, Return(t, r), owed[t] = {},
           \A u \in Tasks \ {t} : Same(u),
           UNCHANGED <<disk, hashed, owed>>
    PROVE  ChainInv'
<1>1. pc'[t] \in {"idle", "open"} /\ call'[t] = NoCall
  BY DEF Return, Goto, IInv, TypeOK, LocalType
<1>2. NoCall.op \notin Writes
  BY DEF NoCall, Writes
<1>3. OnChain(t)' /\ Owner(t)' /\ Ahead(t)'
  BY <1>1, <1>2, AwayFromList
<1> QED
  BY <1>3, ChainStep DEF disk

\* The steps of get_cont_at_offset.
LEMMA WalkChain ==
    ASSUME OneWriter, IInv, ChainInv, NEW t \in Tasks,
           Lock(t) \/ WalkOn(t) \/ WalkFound(t) \/ WalkNoOpen(t) \/ WalkEnd(t) \/ WalkErr(t)
    PROVE  ChainInv'
<1>0. \A u \in Tasks \ {t} : Same(u)
  BY StepOthers DEF Step
<1>1. /\ LocalType /\ OnChain(t) /\ Owner(t) /\ Ahead(t) /\ PosOK(t) /\ TaskOK(t)
      /\ UNCHANGED <<disk, hashed, owed>>
  BY DEF IInv, TypeOK, ChainInv, Lock, WalkOn, WalkFound, WalkNoOpen, WalkEnd, WalkErr, inode
<1>2. \A j : Links(j)' <=> Links(j)
  BY <1>1 DEF Links, disk
<1>3. \A k : InList(k)' <=> InList(k)
  BY <1>2 DEF InList
<1>4. CASE Lock(t)
  <2>1. /\ pc[t] = "lock" /\ pc'[t] \in {"walk", "sync"} /\ part'[t] = 0 /\ call'[t] = call[t]
        /\ pc'[t] = "walk" <=> call[t].op # "fsync"
    BY <1>1, <1>4 DEF Lock, Goto, LocalType, TaskOK
  <2>2. OnChain(t)' /\ Owner(t)'
    BY <1>1, <2>1 DEF OnChain, Owner, Creating
  <2>3. \A k \in owed[t] : 0 < k
    BY DEF IInv, TypeOK, HistoryType, Chunks
  <2>4. Ahead(t)'
    BY <1>1, <1>3, <2>1, <2>3 DEF Ahead
  <2> QED
    BY <1>0, <1>1, <2>2, <2>4, ChainStep DEF disk
<1>5. CASE WalkOn(t) \/ WalkFound(t)
  <2>1. pc[t] = "walk" /\ NextCont(t) /\ Hold(t, Following(t)) /\ call'[t] = call[t]
        /\ pc'[t] \in {"walk", "up", "io"}
    BY <1>1, <1>5 DEF WalkOn, WalkFound, Goto, LocalType
  <2>2. /\ Following(t) \in Chunks /\ InList(Following(t))
        /\ xattr[Following(t)]["next"] # 0 => Links(Following(t))
    BY <2>1, FollowsChain DEF Walking
  <2>3. part'[t] = Following(t) /\ cd'[t] = xattr[Following(t)]
    BY <1>1, <2>1 DEF Hold, LocalType
  <2>4. OnChain(t)'
    BY <1>2, <1>3, <2>1, <2>2, <2>3 DEF OnChain
  <2>5. Owner(t)'
    BY <1>1, <2>1, <2>3 DEF Owner, disk
  <2>6. owed'[t] = {}
    BY <1>1, <2>1 DEF Ahead
  <2>7. Ahead(t)'
    BY <2>6 DEF Ahead
  <2> QED
    BY <1>0, <1>1, <2>4, <2>5, <2>7, ChainStep DEF disk
<1>6. CASE WalkNoOpen(t) \/ WalkErr(t) \/ (WalkEnd(t) /\ call[t].op \notin Writes)
  <2>1. owed[t] = {}
    BY <1>6, NothingOwed DEF WalkNoOpen, WalkErr, WalkEnd
  <2>2. PICK r : Return(t, r)
    BY <1>6 DEF WalkNoOpen, WalkErr, WalkEnd
  <2> QED
    BY <1>0, <1>1, <2>1, <2>2, ReturnChain
<1>7. CASE WalkEnd(t) /\ call[t].op \in Writes
  <2>1. pc[t] = "walk" /\ pc'[t] = "tail" /\ part'[t] = 0 /\ call'[t] = call[t]
    BY <1>1, <1>7 DEF WalkEnd, Goto, Drop, LocalType
  <2>2. OnChain(t)' /\ Owner(t)'
    BY <1>1, <2>1 DEF OnChain, Owner, Creating
  <2>3. Ahead(t)'
    BY <1>1, <2>1 DEF Ahead
  <2> QED
    BY <1>0, <1>1, <2>2, <2>3, ChainStep DEF disk
<1> QED
  BY <1>4, <1>5, <1>6, <1>7

\* The steps of create_continuation that write no attribute.
LEMMA CreateChain ==
    ASSUME OneWriter, IInv, IInv', ChainInv, NEW t \in Tasks,
           \/ TailOn(t) \/ TailEnd(t) \/ TailErr(t) \/ Create(t) \/ CreateErr(t)
           \/ SetErr(t) \/ LoadNew(t) \/ LoadNewErr(t)
    PROVE  ChainInv'
<1>0. \A u \in Tasks \ {t} : Same(u)
  BY StepOthers DEF Step
<1>1. /\ LocalType /\ OnChain(t) /\ Owner(t) /\ Ahead(t) /\ PosOK(t) /\ TaskOK(t)
      /\ UNCHANGED <<xattr, data, dirty, hashed, owed>>
  BY DEF IInv, TypeOK, ChainInv, TailOn, TailEnd, TailErr, Create, CreateErr, SetErr,
     LoadNew, LoadNewErr, disk, inode
<1>2. pc[t] \in {"tail"} \cup Creating
  BY DEF TailOn, TailEnd, TailErr, Create, CreateErr, SetErr, LoadNew, LoadNewErr, Creating
<1>3. t \in Writers /\ owed[t] = {}
  BY <1>1, <1>2 DEF PosOK, Owner, Ahead, Creating
<1>4. \A j : Links(j)' <=> Links(j)
  BY <1>1 DEF Links
<1>5. \A k : InList(k)' <=> InList(k)
  BY <1>4 DEF InList
<1>6. Ahead(t)'
  BY <1>1, <1>3 DEF Ahead
<1>7. CASE TailOn(t)
  <2>1. pc[t] = "tail" /\ NextCont(t) /\ Hold(t, Following(t)) /\ call'[t] = call[t]
        /\ pc'[t] = "tail"
    BY <1>7 DEF TailOn
  <2>2. /\ Following(t) \in Chunks /\ InList(Following(t))
        /\ xattr[Following(t)]["next"] # 0 => Links(Following(t))
    BY <2>1, FollowsChain DEF Walking
  <2>3. part'[t] = Following(t) /\ cd'[t] = xattr[Following(t)]
    BY <1>1, <2>1 DEF Hold, LocalType
  <2>4. OnChain(t)' /\ Owner(t)'
    BY <1>1, <1>3, <1>4, <1>5, <2>1, <2>2, <2>3 DEF OnChain, Owner
  <2> QED
    BY <1>0, <1>1, <1>6, <2>4, ChainStep
<1>8. CASE TailEnd(t)
  <2>1. /\ pc[t] = "tail" /\ pc'[t] = "create" /\ part[t] # 0
        /\ part'[t] = part[t] /\ cd'[t] = cd[t] /\ call'[t] = call[t]
    BY <1>1, <1>8 DEF TailEnd, AtEnd, Goto, LocalType
  <2>2. cd'[t]["next"] = 0
    BY <2>1 DEF IInv, TaskOK, Creating
  <2>3. ~Links(part[t])
    BY <1>1, <1>3, <2>1, <2>2 DEF Owner, Links
  <2>4. OnChain(t)' /\ Owner(t)'
    BY <1>1, <1>3, <1>4, <1>5, <2>1, <2>3 DEF OnChain, Owner, Walking
  <2> QED
    BY <1>0, <1>1, <1>6, <2>4, ChainStep
<1>9. CASE Create(t)
  <2>1. /\ pc[t] = "create" /\ pc'[t] = "setnew"
        /\ part'[t] = part[t] /\ cd'[t] = cd[t] /\ call'[t] = call[t]
    BY <1>1, <1>9 DEF Create, Goto, LocalType
  <2>2. OnChain(t)' /\ Owner(t)'
    BY <1>1, <1>3, <1>4, <1>5, <2>1 DEF OnChain, Owner, Walking, Creating
  <2> QED
    BY <1>0, <1>1, <1>6, <2>2, ChainStep
<1>10. CASE SetErr(t)
  BY <1>10, FaultFree DEF SetErr
<1>11. CASE LoadNew(t)
  <2>1. pc[t] = "load" /\ pc'[t] = "io" /\ part'[t] = part[t] + 1
    BY <1>1, <1>11 DEF LoadNew, Hold, ToChunk, Goto, LocalType
  <2>2. part[t] \in Chunks /\ InList(part[t]) /\ Links(part[t])
    BY <1>1, <2>1 DEF OnChain, Owner, TaskOK, Creating, Chunks
  <2>3. InList(part[t] + 1)
    BY <2>2, InListNext
  <2>4. OnChain(t)' /\ Owner(t)'
    BY <1>3, <1>5, <2>1, <2>3 DEF OnChain, Owner, Walking
  <2> QED
    BY <1>0, <1>1, <1>6, <2>4, ChainStep
<1>12. CASE Return(t, Err)
  <2>1. UNCHANGED <<xattr, data, dirty, hashed, owed>>
    BY <1>1
  <2>2. pc'[t] \in {"idle", "open"} /\ call'[t] = NoCall
    BY <1>1, <1>12 DEF Return, Goto, LocalType
  <2>3. OnChain(t)' /\ Owner(t)' /\ Ahead(t)'
    BY <1>1, <1>3, <2>2, AwayFromList
  <2> QED
    BY <1>0, <2>1, <2>3, ChainStep
<1>13. CASE pc'[t] = "dead"
  <2>1. faults' # 0
    BY <1>13 DEF IInv, TaskOK
  <2>2. faults' \in 0 .. MaxFaults
    BY DEF IInv, TypeOK, HistoryType
  <2> QED
    BY <2>1, <2>2 DEF OneWriter
<1>14. LoadNewErr(t) /\ ~Return(t, Err) => pc'[t] = "dead"
  BY <1>1 DEF LoadNewErr, Goto, LocalType
<1> QED
  BY <1>7, <1>8, <1>9, <1>10, <1>11, <1>12, <1>13, <1>14 DEF TailErr, CreateErr

\* One setxattr: it changes a link only with the first attribute.
LEMMA SetNext ==
    ASSUME IInv, NEW t \in Tasks, NEW k \in Chunks, NEW d \in [Fields -> Int], NEW then,
           SetField(t, k, d, then)
    PROVE  /\ \A j \in Chunks : j # k \/ fld[t] # 1 => xattr'[j]["next"] = xattr[j]["next"]
           /\ fld[t] = 1 => xattr'[k]["next"] = d["next"]
           /\ \/ fld[t] = 4 /\ fld'[t] = 1 /\ pc'[t] = then
              \/ fld[t] \in 1 .. 3 /\ fld'[t] = fld[t] + 1 /\ pc'[t] = pc[t]
           /\ UNCHANGED <<data, dirty, hashed, owed, part, cd, call>>
<1>1. /\ xattr \in [Chunks -> [Fields -> Int]] /\ LocalType
      /\ fld[t] \in 1 .. 4
  BY DEF IInv, TypeOK, DiskType, LocalType
<1>2. "next" \in Fields /\ Order[1] = "next" /\ (fld[t] # 1 => Order[fld[t]] # "next")
  BY <1>1, OrderFacts DEF Fields, Order
<1>3. \A j \in Chunks \ {k} : xattr'[j] = xattr[j]
  BY <1>1 DEF SetField
<1>4. xattr'[k] = [xattr[k] EXCEPT ![Order[fld[t]]] = d[Order[fld[t]]]]
  BY <1>1 DEF SetField
<1>5. /\ fld[t] # 1 => xattr'[k]["next"] = xattr[k]["next"]
      /\ fld[t] = 1 => xattr'[k]["next"] = d["next"]
  BY <1>1, <1>2, <1>4
<1>6. /\ fld[t] = 4 => fld'[t] = 1 /\ pc'[t] = then
      /\ fld[t] # 4 => fld'[t] = fld[t] + 1 /\ pc'[t] = pc[t]
  BY <1>1 DEF SetField, LocalType
<1> QED
  BY <1>1, <1>3, <1>5, <1>6 DEF SetField, inode

\* The set_cont_data calls of create_continuation: the new part gets no link,
\* then the last one gets its link.  Only the writer does this.
LEMMA SetChain ==
    ASSUME OneWriter, IInv, ChainInv, NEW t \in Tasks, SetNew(t) \/ SetPrev(t)
    PROVE  ChainInv'
<1>0. \A u \in Tasks \ {t} : Same(u)
  BY StepOthers DEF Step
<1>1. /\ OnChain(t) /\ Owner(t) /\ Ahead(t) /\ PosOK(t) /\ TaskOK(t) /\ Prefix
      /\ pc[t] \in {"setnew", "setprev"} /\ fld[t] \in 1 .. 4 /\ made \subseteq Chunks
      /\ cd[t] \in [Fields -> Int] /\ hashed
  BY DEF IInv, TypeOK, LocalType, DiskType, ChainInv, SetNew, SetPrev
<1>2. t \in Writers /\ owed[t] = {}
  BY <1>1 DEF PosOK, Owner, Ahead, Creating
<1>3. /\ part[t] \in Chunks /\ part[t] + 1 \in Chunks /\ HeldOK(part[t], cd[t])
      /\ InList(part[t])
  BY <1>1 DEF TaskOK, OnChain, Creating, Chunks
<1>4. /\ NewData(part[t], cd[t]) \in [Fields -> Int] /\ NewData(part[t], cd[t])["next"] = 0
      /\ PrevData(part[t], cd[t]) \in [Fields -> Int]
      /\ PrevData(part[t], cd[t])["next"] = co_uino(part[t] + 1)
  BY <1>1, <1>3, NewDataFacts DEF HeldOK
<1>5. \A u \in Tasks \ {t} : Owner(u)'
  <2> SUFFICES ASSUME NEW u \in Tasks \ {t} PROVE Owner(u)'
    OBVIOUS
  <2>1. Owner(u) /\ PosOK(u) /\ u \notin Writers /\ Same(u)
    BY <1>0, <1>2 DEF ChainInv, IInv, OneWriter
  <2>2. pc[u] \notin Creating
    BY <2>1 DEF Owner, PosOK
  <2> QED
    BY <2>1, <2>2 DEF Owner, Same, Creating
<1>6. CASE SetNew(t)
  <2>1. pc[t] = "setnew" /\ SetField(t, part[t] + 1, NewData(part[t], cd[t]), "setprev")
    BY <1>6 DEF SetNew, ToChunk
  <2>2. /\ \A j \in Chunks : j # part[t] + 1 \/ fld[t] # 1 => xattr'[j]["next"] = xattr[j]["next"]
        /\ fld[t] = 1 => xattr'[part[t] + 1]["next"] = 0
        /\ pc'[t] = "setnew" \/ (pc'[t] = "setprev" /\ fld'[t] = 1)
        /\ UNCHANGED <<data, dirty, hashed, owed, part, cd, call>>
    BY <1>3, <1>4, <2>1, SetNext
  <2>3. ~Links(part[t])
    BY <1>1, <2>1 DEF Owner
  <2>4. ~Links(part[t] + 1)
    <3>1. part[t] \in 1 .. part[t] + 1
      BY <1>3 DEF Chunks
    <3> QED
      BY <1>1, <1>3, <2>3, <3>1 DEF Prefix
  <2>5. \A j \in Chunks : Links(j)' <=> Links(j)
    BY <2>2, <2>4 DEF Links
  <2>6. \A k \in Chunks : 1 .. k \subseteq Chunks /\ 1 .. k - 1 \subseteq Chunks
    BY ChunkAssumption DEF Chunks
  <2>7. Prefix' /\ \A k \in Chunks : InList(k)' <=> InList(k)
    BY <1>1, <2>5, <2>6 DEF Prefix, InList
  <2>8. OnChain(t)' /\ Owner(t)'
    BY <1>1, <1>2, <1>3, <2>2, <2>3, <2>5, <2>7 DEF OnChain, Owner, Walking
  <2>9. Ahead(t)'
    BY <1>2, <2>2 DEF Ahead
  <2> QED
    BY <1>0, <1>1, <1>5, <2>2, <2>5, <2>7, <2>8, <2>9, ChainGrows
<1>7. CASE SetPrev(t)
  <2>1. pc[t] = "setprev" /\ SetField(t, part[t], PrevData(part[t], cd[t]), "load")
    BY <1>7 DEF SetPrev
  <2>2. /\ \A j \in Chunks : j # part[t] \/ fld[t] # 1 => xattr'[j]["next"] = xattr[j]["next"]
        /\ fld[t] = 1 => xattr'[part[t]]["next"] = co_uino(part[t] + 1)
        /\ pc'[t] = "load" \/ (pc'[t] = "setprev" /\ fld'[t] > 1)
        /\ UNCHANGED <<data, dirty, hashed, owed, part, cd, call>>
    BY <1>3, <1>4, <2>1, SetNext
  <2>3. co_uino(part[t] + 1) \notin {Unset, 0}
    BY <1>3, UinoFacts DEF Unset
  <2>4. Links(part[t])'
    BY <1>1, <1>3, <2>1, <2>2, <2>3 DEF Owner, Links
  <2>5. \A j \in Chunks : (Links(j) => Links(j)') /\ (Links(j)' => Links(j) \/ j = part[t])
    BY <2>2, <2>4 DEF Links
  <2>6. \A k \in Chunks : 1 .. k \subseteq Chunks /\ 1 .. k - 1 \subseteq Chunks
    BY ChunkAssumption DEF Chunks
  <2>7. InList(part[t])'
    BY <1>3, <2>2, <2>5, <2>6 DEF InList
  <2>8. Prefix'
    <3> SUFFICES ASSUME NEW k \in Chunks, Links(k)', NEW j \in 1 .. k PROVE Links(j)'
      BY DEF Prefix
    <3>1. CASE k = part[t]
      <4>1. j = part[t] \/ j \in 1 .. part[t] - 1
        BY <1>3, <3>1 DEF Chunks
      <4> QED
        BY <2>4, <2>7, <4>1, <2>2 DEF InList
    <3>2. CASE k # part[t]
      BY <1>1, <2>5, <2>6, <3>2 DEF Prefix
    <3> QED
      BY <3>1, <3>2
  <2>9. OnChain(t)' /\ Owner(t)'
    BY <1>1, <1>2, <2>2, <2>4, <2>7 DEF OnChain, Owner, Walking
  <2>10. Ahead(t)'
    BY <1>2, <2>2 DEF Ahead
  <2> QED
    BY <1>0, <1>1, <1>5, <2>2, <2>5, <2>8, <2>9, <2>10, ChainGrows
<1> QED
  BY <1>6, <1>7

\* The client's read and write, copy_up, and fsync.
LEMMA ClientChain ==
    ASSUME OneWriter, IInv, ChainInv, NEW t \in Tasks,
           \/ ReadClient(t) \/ WriteClient(t) \/ ClientErr(t)
           \/ SumStart(t) \/ SumOn(t) \/ SumEnd(t)
           \/ SyncOn(t) \/ SyncLost(t) \/ SyncEnd(t) \/ SyncErr(t)
    PROVE  ChainInv'
<1>0. \A u \in Tasks \ {t} : Same(u)
  BY StepOthers DEF Step
<1>1. /\ DiskType /\ LocalType /\ OnChain(t) /\ Owner(t) /\ Ahead(t) /\ PosOK(t) /\ TaskOK(t)
      /\ UNCHANGED <<xattr, hashed>>
  BY DEF IInv, TypeOK, ChainInv, ReadClient, WriteClient, ClientErr, SumStart, SumOn, SumEnd,
     SyncOn, SyncLost, SyncEnd, SyncErr, disk, inode
<1>2. \A j : Links(j)' <=> Links(j)
  BY <1>1 DEF Links
<1>3. \A k : InList(k)' <=> InList(k)
  BY <1>2 DEF InList
<1>4. CASE ReadClient(t) \/ ClientErr(t) \/ SumStart(t) \/ SumOn(t)
  <2>1. /\ pc'[t] \in {"up", "sum"} /\ owed'[t] = owed[t] /\ call'[t] = call[t]
        /\ pc[t] \in {"io", "up", "sum"} /\ UNCHANGED <<data, dirty>>
    BY <1>1, <1>4 DEF ReadClient, ClientErr, SumStart, SumOn, Goto, LocalType, disk
  <2>2. owed'[t] = {}
    BY <2>1, NothingOwed
  <2>3. OnChain(t)' /\ Owner(t)' /\ Ahead(t)'
    BY <1>1, <2>1, <2>2, AwayFromList DEF Owner
  <2> QED
    BY <1>0, <1>1, <2>1, <2>3, ChainStep
<1>5. CASE WriteClient(t)
  <2>1. /\ pc[t] = "io" /\ pc'[t] = "up" /\ owed' = owed /\ call'[t] = call[t]
        /\ dirty' = dirty \cup {part[t]}
        /\ \A k \in Chunks \ {part[t]} : data'[k] = data[k]
    BY <1>1, <1>5 DEF WriteClient, Goto, LocalType, DiskType
  <2>2. owed'[t] = {}
    BY <2>1, NothingOwed
  <2>3. OnChain(t)' /\ Owner(t)' /\ Ahead(t)'
    BY <1>1, <2>1, <2>2, AwayFromList DEF Owner
  <2>4. InList(part[t])
    BY <1>1, <2>1 DEF OnChain, TaskOK, Chunks
  <2> QED
    BY <1>0, <1>1, <2>1, <2>3, <2>4, ChainStep
<1>6. CASE SumEnd(t)
  <2>1. owed[t] = {} /\ Return(t, res[t]) /\ UNCHANGED <<disk, hashed, owed>>
    BY <1>6, NothingOwed DEF SumEnd
  <2> QED
    BY <1>0, <2>1, ReturnChain
<1>7. CASE SyncOn(t)
  <2>1. /\ pc[t] = "sync" /\ pc'[t] = "sync" /\ NextCont(t) /\ Hold(t, Following(t))
        /\ call' = call /\ data' = data /\ dirty' = dirty \ {Following(t)}
        /\ owed'[t] = owed[t] \ {Following(t)}
    BY <1>7 DEF SyncOn
  <2>2. /\ Following(t) = part[t] + 1 /\ Following(t) \in Chunks /\ InList(Following(t))
        /\ xattr[Following(t)]["next"] # 0 => Links(Following(t))
    BY <2>1, FollowsChain DEF Walking
  <2>3. part'[t] = part[t] + 1 /\ cd'[t] = xattr[part[t] + 1]
    BY <1>1, <2>1, <2>2 DEF Hold, LocalType
  <2>4. OnChain(t)' /\ Owner(t)'
    BY <1>1, <1>2, <1>3, <2>1, <2>2, <2>3 DEF OnChain, Owner, Creating
  <2>5. ASSUME NEW k \in owed'[t]
        PROVE  InList(k) /\ part[t] + 1 < k /\ xattr[part[t] + 1]["next"] # 0
    <3>1. k \in owed[t] /\ k # part[t] + 1
      BY <2>1, <2>2, <2>5
    <3>2. InList(k) /\ part[t] < k /\ k \in Chunks
      BY <1>1, <2>1, <3>1 DEF Ahead, IInv, TypeOK, HistoryType
    <3>3. part[t] + 1 < k /\ part[t] + 1 \in 1 .. k - 1
      <4>1. part[t] \in Nat
        BY <1>1 DEF LocalType
      <4> QED
        BY <2>2, <3>1, <3>2, <4>1 DEF Chunks
    <3> QED
      BY <3>2, <3>3 DEF InList, Links
  <2>6. Ahead(t)'
    BY <1>3, <2>1, <2>3, <2>5 DEF Ahead
  <2>7. dirty' \subseteq dirty
    BY <2>1
  <2> QED
    BY <1>0, <1>1, <2>1, <2>4, <2>6, <2>7, ChainStep
<1>8. CASE SyncLost(t)
  BY <1>8, FaultFree DEF SyncLost
<1>9. CASE SyncEnd(t) \/ SyncErr(t)
  <2>1. /\ pc[t] = "sync" /\ ~NextCont(t) /\ UNCHANGED <<disk, hashed, owed>>
        /\ \E r : Return(t, r)
    BY <1>9, NothingFound DEF SyncEnd, SyncErr, inode
  <2>2. part[t] # 0 /\ cd[t]["next"] = 0
    BY <2>1, WalkStops DEF Walking, Chunks
  <2>3. owed[t] = {}
    BY <1>1, <2>1, <2>2 DEF Ahead
  <2> QED
    BY <1>0, <2>1, <2>3, ReturnChain
<1> QED
  BY <1>4, <1>5, <1>6, <1>7, <1>8, <1>9

\* No task has done anything yet.
LEMMA InitChain ==
    ASSUME Init
    PROVE  ChainInv
<1>1. HeadPart \in Chunks /\ InitData["next"] = 0
  BY HeadInList, InitDataFacts
<1>2. \A k \in Chunks : ~Links(k)
  <2>1. CD(Unset, Unset, Unset, Unset)["next"] = Unset
    BY DEF CD, Fields
  <2> QED
    BY <1>1, <2>1 DEF Init, Links
<1>3. Prefix /\ InChain /\ hashed
  BY <1>2 DEF Init, Prefix, InChain
<1>4. ASSUME NEW t \in Tasks PROVE OnChain(t) /\ Owner(t) /\ Ahead(t)
  <2>1. pc[t] = "idle" /\ owed[t] = {} /\ call[t] = NoCall
    BY DEF Init
  <2>2. NoCall.op \notin Writes
    BY DEF NoCall, Writes
  <2> QED
    BY <2>1, <2>2 DEF OnChain, Owner, Ahead, Walking, Creating
<1> QED
  BY <1>3, <1>4 DEF ChainInv

\* With one writer the links are a chain that only grows, in which all the
\* data is and every call stays, and an fsync gets to all it has to write.
THEOREM ChainInductive == OneWriter => (Spec => []ChainInv)
<1> SUFFICES ASSUME OneWriter PROVE Spec => []ChainInv
  OBVIOUS
<1>1. Init => ChainInv
  BY InitChain
<1>2. IInv /\ IInv' /\ ChainInv /\ [Next]_vars => ChainInv'
  <2> SUFFICES ASSUME IInv, IInv', ChainInv, [Next]_vars PROVE ChainInv'
    OBVIOUS
  <2>1. ASSUME NEW t \in Tasks, Enter(t) PROVE ChainInv'
    BY <2>1, EnterChain
  <2>2. ASSUME NEW t \in Tasks, Step(t) PROVE ChainInv'
    BY <2>2, WalkChain, CreateChain, SetChain, ClientChain DEF Step
  <2>3. CASE Evict \/ Restart \/ Lookup \/ LookupErr
    BY <2>3 DEF ChainInv, OneWriter, Evict, Restart, Lookup, LookupErr
  <2>4. CASE UNCHANGED vars
    <3>1. UNCHANGED <<xattr, data, dirty, hashed, pc, call, part, cd, fld, owed>>
      BY <2>4 DEF vars, disk, inode, local
    <3> QED
      BY <3>1 DEF ChainInv, Prefix, InChain, InList, Links, OnChain, Owner, Ahead
  <2> QED
    BY <2>1, <2>2, <2>3, <2>4 DEF Next
<1> QED
  BY <1>1, <1>2, Inductive, PTL DEF Spec

-----------------------------------------------------------------------------
(* What a reader of the file sees                                          *)

\* A link, as it leads to the next chunk.
LEMMA LinkLeads ==
    ASSUME IInv, NEW k \in Chunks, InList(k)
    PROVE  Linked(k)
<1> SUFFICES ASSUME NEW j \in 1 .. k - 1
             PROVE  xattr[j]["next"] # Unset /\ NextInode(j) = j + 1
  BY DEF Linked
<1>1. j \in Chunks /\ Links(j)
  BY ChunkAssumption DEF InList, Chunks
<1>2. LinksOn(j, xattr[j]["next"])
  BY <1>1 DEF IInv, FieldsOK, Links
<1> QED
  BY <1>1, <1>2, UinoFacts DEF LinksOn, Links, NextInode

\* No data is lost: as long as one task writes the file, every part that holds
\* data can be reached from the head, whatever the readers, fsyncs and
\* truncates do meanwhile.
THEOREM ForwardLinkedCorrect == OneWriter => (Spec => []ForwardLinked)
<1> SUFFICES ASSUME OneWriter PROVE Spec => []ForwardLinked
  OBVIOUS
<1>1. IInv /\ ChainInv => ForwardLinked
  BY LinkLeads DEF ChainInv, InChain, ForwardLinked
<1> QED
  BY <1>1, Inductive, ChainInductive, PTL

\* fsync fans out: when it returns, all that was dirty when it was called has
\* been written, although the writer adds parts while it walks.
THEOREM FsyncFansOutCorrect == OneWriter => (Spec => []FsyncFansOut)
<1> SUFFICES ASSUME OneWriter PROVE Spec => []FsyncFansOut
  OBVIOUS
<1>1. ChainInv => FsyncFansOut
  BY DEF ChainInv, Ahead, FsyncFansOut
<1> QED
  BY <1>1, ChainInductive, PTL

-----------------------------------------------------------------------------
(* The part a call is sent to                                              *)

\* Later parts start later.
LEMMA StartsGrow ==
    ASSUME NEW k \in Chunks, NEW m \in Chunks, k <= m
    PROVE  StartOf(k) \in Nat /\ StartOf(m) \in Nat /\ StartOf(k) <= StartOf(m)
<1>1. k - 1 \in Nat /\ m - 1 \in Nat /\ m - k \in Nat /\ CLen \in Nat
  BY ChunkAssumption DEF Chunks
<1>2. (m - 1) * CLen = (k - 1) * CLen + (m - k) * CLen
  <2>1. \A a, b, c \in Nat : (a + b) * c = a * c + b * c
    BY SMTT(30)
  <2>2. m - 1 = (k - 1) + (m - k)
    BY DEF Chunks
  <2> QED
    BY <1>1, <2>1, <2>2
<1>3. (m - k) * CLen \in Nat /\ (k - 1) * CLen \in Nat /\ (m - 1) * CLen \in Nat
  BY <1>1, SMTT(30)
<1> QED
  BY <1>2, <1>3 DEF StartOf

\* Nothing in the chain is behind a part without a link.
LEMMA ChainEnds ==
    ASSUME NEW m \in Chunks, ~Links(m), NEW k \in Chunks, InList(k)
    PROVE  StartOf(k) <= StartOf(m)
<1>1. k <= m
  BY DEF InList, Chunks
<1> QED
  BY <1>1, StartsGrow

\* A step of t that only adds links, and none while another task looks for the
\* last part.
LEMMA AimGrows ==
    ASSUME IInv, AimInv, \A k \in Chunks : InList(k) => InList(k)',
           NEW t \in Tasks, \A u \in Tasks \ {t} : Same(u),
           \A u \in Tasks \ {t} : pc[u] = "tail" => \A k \in Chunks : InList(k)' => InList(k),
           Within(wend)', Aimed(t)'
    PROVE  AimInv'
<1>1. \A p : Within(p) => Within(p)'
  BY DEF Within
<1> SUFFICES ASSUME NEW u \in Tasks \ {t} PROVE Aimed(u)'
  BY DEF AimInv
<1>2. Aimed(u) /\ Same(u)
  BY DEF AimInv
<1>3. Within(call[u].at) => Within(call[u].at)'
  BY <1>1, <1>2 DEF Same
<1>4. pc'[u] = "tail" => \A k \in Chunks : InList(k)' => call'[u].at >= StartOf(k) + CLen
  BY <1>2 DEF Aimed, Same
<1> QED
  BY <1>2, <1>3, <1>4 DEF Aimed, Same

\* The same for a step that changes no attribute.
LEMMA AimStep ==
    ASSUME IInv, AimInv, xattr' = xattr,
           NEW t \in Tasks, \A u \in Tasks \ {t} : Same(u),
           wend' = wend \/ Within(wend)', Aimed(t)'
    PROVE  AimInv'
<1>1. \A k : InList(k)' <=> InList(k)
  BY DEF InList, Links
<1>2. Within(wend)'
  BY <1>1 DEF AimInv, Within
<1> QED
  BY <1>1, <1>2, AimGrows

\* A task that is not in the list, or in an fsync.
LEMMA AimAway ==
    ASSUME NEW t \in Tasks, pc'[t] \in {"idle", "open", "up", "sum", "sync"},
           call'[t].op \in Writes => ~call'[t].app
    PROVE  Aimed(t)'
  BY DEF Aimed, Creating

\* A call returns.
LEMMA AimReturn ==
    ASSUME IInv, AimInv, NEW t \in Tasks, NEW r, Return(t, r),
           \A u \in Tasks \ {t} : Same(u), UNCHANGED <<xattr, wend>>
    PROVE  AimInv'
<1>1. pc'[t] \in {"idle", "open"} /\ call'[t] = NoCall
  BY DEF Return, Goto, IInv, TypeOK, LocalType
<1>2. NoCall.op \notin Writes
  BY DEF NoCall, Writes
<1> QED
  BY <1>1, <1>2, AimAway, AimStep

\* A system call begins; a write within or just after what is written.
LEMMA EnterAim ==
    ASSUME Sequential, IInv, AimInv, NEW t \in Tasks, Enter(t)
    PROVE  AimInv'
<1>0. \A u \in Tasks \ {t} : Same(u)
  BY StepOthers
<1>1. LocalType /\ wend \in Nat /\ Aimed(t) /\ Within(wend)
  BY DEF IInv, TypeOK, HistoryType, AimInv
<1>2. CASE \E op \in {"open", "fsync"} \cup Reads \cup Writes, p \in Nat, a \in BOOLEAN :
             /\ \E n, v : Begin(t, SysCall(op, n, v, p, a), "lock")
             /\ op \in Writes => p <= wend /\ ~a
             /\ UNCHANGED <<xattr, wend>>
  <2>0. PICK op \in {"open", "fsync"} \cup Reads \cup Writes, p \in Nat, a \in BOOLEAN :
             /\ \E n, v : Begin(t, SysCall(op, n, v, p, a), "lock")
             /\ op \in Writes => p <= wend /\ ~a
    BY <1>2
  <2>1. PICK n, v : Begin(t, SysCall(op, n, v, p, a), "lock")
    BY <2>0
  <2>2. /\ SysCall(op, n, v, p, a).op = op /\ SysCall(op, n, v, p, a).at = p
        /\ SysCall(op, n, v, p, a).app = a
    BY Zenon DEF SysCall
  <2>3. pc'[t] = "lock" /\ call'[t] = SysCall(op, n, v, p, a) /\ ppos'[t] = p
    BY <1>1, <2>1, <2>2 DEF Begin, Goto, LocalType
  <2>4. call'[t].op = op /\ call'[t].at = p
    BY <2>2, <2>3
  <2>5. op \in Writes => Within(p)'
    <3>1. ASSUME op \in Writes PROVE Within(p)'
      <4>1. PICK k \in Chunks : InList(k) /\ wend <= StartOf(k) + CLen
        BY <1>1 DEF Within
      <4>2. StartOf(k) + CLen \in Nat
        BY StartFacts, ChunkAssumption
      <4>3. InList(k)'
        BY <1>2, <4>1 DEF InList, Links
      <4>4. p <= StartOf(k) + CLen
        BY <1>1, <2>0, <3>1, <4>1, <4>2
      <4> QED
        BY <4>3, <4>4 DEF Within
    <3> QED
      BY <3>1
  <2>6. call'[t].op \in Writes => ~call'[t].app
    BY <2>0, <2>2, <2>3, Zenon
  <2>7. call'[t].op \in Writes => Within(call[t].at)'
    BY <2>4, <2>5
  <2>8. Aimed(t)'
    BY <2>3, <2>4, <2>6, <2>7 DEF Aimed, Creating
  <2> QED
    BY <1>0, <1>2, <2>8, AimStep
<1>3. CASE Open(t)
  BY <1>2, <1>3 DEF Open, Writes, disk
<1>4. ASSUME NEW op \in Reads, NEW p \in Nat, ReadFrom(t, op, p) PROVE AimInv'
  <2>1. op \notin Writes
    BY DEF Reads, Writes
  <2> QED
    BY <1>2, <1>4, <2>1 DEF ReadFrom, disk
<1>5. ASSUME NEW op \in Writes, NEW p \in Nat, WriteTo(t, op, p) PROVE AimInv'
  <2>1. p <= wend /\ UNCHANGED <<xattr, wend>>
    BY <1>5 DEF WriteTo, Sequential, disk
  <2>2. PICK n \in WriteLens, v \in Blocks, a \in Appends :
           Begin(t, SysCall(op, n, v, p, a), "lock")
    BY <1>5 DEF WriteTo
  <2>3. a \in BOOLEAN /\ ~a
    BY InputAssumption, Zenon DEF Sequential
  <2> QED
    BY <1>2, <2>1, <2>2, <2>3
<1>6. CASE Fsync(t)
  <2>1. fpos[t] \in Nat /\ "fsync" \notin Writes /\ FALSE \in BOOLEAN
    BY <1>1 DEF LocalType, Writes
  <2> QED
    BY <1>2, <1>6, <2>1 DEF Fsync, disk
<1>7. CASE Seek(t) \/ Close(t)
  <2>1. pc'[t] \in {"idle", "open"} /\ call'[t] = call[t] /\ UNCHANGED <<xattr, wend>>
    BY <1>1, <1>7 DEF Seek, Close, Goto, LocalType, disk
  <2>2. Aimed(t)'
    BY <1>1, <2>1, AimAway DEF Aimed
  <2> QED
    BY <1>0, <2>1, <2>2, AimStep
<1>8. CASE Setattr(t)
  <2>1. xattr' = xattr /\ (wend' = wend \/ \E n \in Sizes : wend' = Least(n, wend))
    BY <1>8 DEF Setattr
  <2>2. pc'[t] = "up" /\ call'[t].op \in {"setsize", "setmode"}
    BY <1>1, <1>8 DEF Setattr, Begin, Goto, LocalType, SysCall
  <2>3. Aimed(t)'
    BY <2>2, AimAway DEF Writes
  <2>4. wend' <= wend /\ wend' \in Nat
    BY <1>1, <2>1, InputAssumption DEF Least
  <2>5. PICK k \in Chunks : InList(k) /\ wend <= StartOf(k) + CLen
    BY <1>1 DEF Within
  <2>6. StartOf(k) + CLen \in Nat
    BY StartFacts, ChunkAssumption
  <2>7. InList(k)' /\ wend' <= StartOf(k) + CLen
    BY <1>1, <2>1, <2>4, <2>5, <2>6 DEF InList, Links
  <2>8. Within(wend)'
    BY <2>7 DEF Within
  <2> QED
    BY <1>0, <2>1, <2>3, <2>8, AimStep
<1>9. /\ "read" \in Reads /\ "pread" \in Reads /\ "write" \in Writes /\ "pwrite" \in Writes
      /\ fpos[t] \in Nat /\ 0 .. MaxPos \subseteq Nat
  BY <1>1, InputAssumption DEF Reads, Writes, LocalType
<1> QED
  BY <1>3, <1>4, <1>5, <1>6, <1>7, <1>8, <1>9 DEF Enter, Read, Pread, Write, Pwrite

\* get_cont_at_offset goes past the parts before the offset, and a write that
\* finds none has passed them all.
LEMMA WalkAim ==
    ASSUME OneWriter, IInv, ChainInv, AimInv, NEW t \in Tasks,
           Lock(t) \/ WalkOn(t) \/ WalkFound(t) \/ WalkNoOpen(t) \/ WalkEnd(t) \/ WalkErr(t)
    PROVE  AimInv'
<1>0. \A u \in Tasks \ {t} : Same(u)
  BY StepOthers DEF Step
<1>1. /\ LocalType /\ Aimed(t) /\ PosOK(t) /\ TaskOK(t)
      /\ UNCHANGED <<xattr, wend>>
  BY DEF IInv, TypeOK, AimInv, Lock, WalkOn, WalkFound, WalkNoOpen, WalkEnd, WalkErr, disk, inode
<1>2. \A k : InList(k)' <=> InList(k)
  BY <1>1 DEF InList, Links
<1>3. \A p : Within(p)' <=> Within(p)
  BY <1>2 DEF Within
<1>4. call[t].at \in Nat
  BY <1>1 DEF LocalType, CallType
<1>5. CASE Lock(t)
  <2>1. /\ pc[t] = "lock" /\ pc'[t] \in {"walk", "sync"} /\ part'[t] = 0
        /\ call'[t] = call[t] /\ ppos'[t] = ppos[t]
    BY <1>1, <1>5 DEF Lock, Goto, LocalType, TaskOK
  <2>2. call[t].op \in Writes => Within(call[t].at)'
    BY <1>1, <1>3, <2>1 DEF Aimed
  <2>3. Aimed(t)'
    BY <1>1, <2>1, <2>2 DEF Aimed, Creating
  <2> QED
    BY <1>0, <1>1, <2>3, AimStep
<1>6. ASSUME pc[t] = "walk", NextCont(t), Hold(t, Following(t)), call'[t] = call[t]
      PROVE  /\ Following(t) \in Chunks /\ part'[t] = Following(t)
             /\ xattr[Following(t)]["start"] = StartOf(Following(t))
             /\ xattr[Following(t)]["len"] = CLen
             /\ StartOf(Following(t)) \in Nat /\ CLen \in Nat
             /\ call[t].at >= StartOf(Following(t)) /\ ppos[t] = call[t].at
  <2>1. /\ Following(t) \in Chunks /\ Following(t) = part[t] + 1 /\ Complete(Following(t))
    BY <1>6, FollowsChain, FollowingFacts DEF Walking
  <2>2. xattr[Following(t)]["start"] = StartOf(Following(t)) /\ xattr[Following(t)]["len"] = CLen
    BY <2>1, LoadedOK DEF HeldOK
  <2>3. part'[t] = Following(t)
    BY <1>1, <1>6 DEF Hold, LocalType
  <2>4. call[t].at >= StartOf(Following(t))
    <3>1. CASE part[t] = 0
      BY <1>4, <2>1, <3>1, StartFacts DEF HeadPart
    <3>2. CASE part[t] # 0
      <4>1. part[t] \in Chunks
        BY <1>1, <3>2 DEF LocalType, Chunks
      <4> QED
        BY <1>1, <1>6, <2>1, <3>2, <4>1, StartFacts DEF Aimed
    <3> QED
      BY <3>1, <3>2
  <2> QED
    BY <1>1, <1>6, <2>1, <2>2, <2>3, <2>4, StartFacts, ChunkAssumption DEF Aimed
<1>7. CASE WalkOn(t)
  <2>1. /\ pc[t] = "walk" /\ pc'[t] = "walk" /\ NextCont(t) /\ Hold(t, Following(t))
        /\ call'[t] = call[t] /\ ppos'[t] = ppos[t] /\ ~Covers(xattr[Following(t)], ppos[t])
    BY <1>7 DEF WalkOn
  <2>2. call[t].at >= StartOf(Following(t)) + CLen /\ part'[t] = Following(t)
    BY <1>4, <1>6, <2>1 DEF Covers
  <2>3. call[t].op \in Writes => Within(call[t].at)'
    BY <1>1, <1>3, <2>1 DEF Aimed
  <2>4. Aimed(t)'
    BY <1>1, <2>1, <2>2, <2>3 DEF Aimed, Creating
  <2> QED
    BY <1>0, <1>1, <2>4, AimStep
<1>8. CASE WalkFound(t)
  <2>1. /\ pc[t] = "walk" /\ pc'[t] \in {"up", "io"} /\ NextCont(t) /\ Hold(t, Following(t))
        /\ call'[t] = call[t] /\ Covers(xattr[Following(t)], ppos[t])
        /\ ppos'[t] = ppos[t] - xattr[Following(t)]["start"]
    BY <1>1, <1>8 DEF WalkFound, Goto, LocalType
  <2>2. /\ call[t].at - StartOf(Following(t)) = ppos'[t] /\ part'[t] = Following(t)
        /\ ppos'[t] \in 0 .. CLen - 1
    BY <1>4, <1>6, <2>1 DEF Covers
  <2>3. Aimed(t)'
    BY <1>1, <2>1, <2>2 DEF Aimed, Creating
  <2> QED
    BY <1>0, <1>1, <2>3, AimStep
<1>9. CASE WalkNoOpen(t) \/ WalkErr(t) \/ (WalkEnd(t) /\ call[t].op \notin Writes)
  <2>1. PICK r : Return(t, r)
    BY <1>9 DEF WalkNoOpen, WalkErr, WalkEnd
  <2> QED
    BY <1>0, <1>1, <2>1, AimReturn
<1>10. CASE WalkEnd(t) /\ call[t].op \in Writes
  <2>1. /\ pc[t] = "walk" /\ pc'[t] = "tail" /\ call'[t] = call[t] /\ ppos'[t] = ppos[t]
        /\ ~NextCont(t)
    BY <1>1, <1>10, NothingFound DEF WalkEnd, Nowhere, Goto, LocalType
  <2>2. part[t] \in Chunks /\ cd[t]["next"] = 0
    BY <2>1, WalkStops DEF Walking
  <2>3. ~Links(part[t])
    <3>1. cd[t]["next"] = xattr[part[t]]["next"]
      BY <1>10, <2>1, <2>2 DEF ChainInv, Owner, Chunks
    <3> QED
      BY <2>2, <3>1 DEF Links
  <2>4. call[t].at >= StartOf(part[t]) + CLen
    BY <1>1, <2>1, <2>2 DEF Aimed, Chunks
  <2>5. ASSUME NEW k \in Chunks, InList(k) PROVE call[t].at >= StartOf(k) + CLen
    <3>1. StartOf(k) <= StartOf(part[t]) /\ StartOf(k) \in Nat /\ StartOf(part[t]) \in Nat
          /\ CLen \in Nat
      BY <2>2, <2>3, <2>5, ChainEnds, StartFacts, ChunkAssumption
    <3> QED
      BY <1>4, <2>4, <3>1
  <2>6. Within(call[t].at)'
    BY <1>1, <1>3, <1>10, <2>1 DEF Aimed
  <2>7. Aimed(t)'
    BY <1>1, <1>2, <2>1, <2>5, <2>6 DEF Aimed, Creating
  <2> QED
    BY <1>0, <1>1, <2>7, AimStep
<1> QED
  BY <1>5, <1>7, <1>8, <1>9, <1>10

\* create_continuation adds the part that begins at the offset.
LEMMA CreateAim ==
    ASSUME OneWriter, IInv, IInv', ChainInv, AimInv, NEW t \in Tasks,
           \/ TailOn(t) \/ TailEnd(t) \/ TailErr(t) \/ Create(t) \/ CreateErr(t)
           \/ SetErr(t) \/ LoadNew(t) \/ LoadNewErr(t)
    PROVE  AimInv'
<1>0. \A u \in Tasks \ {t} : Same(u)
  BY StepOthers DEF Step
<1>1. /\ LocalType /\ Aimed(t) /\ PosOK(t) /\ TaskOK(t) /\ OnChain(t) /\ Owner(t)
      /\ UNCHANGED <<xattr, wend>>
  BY DEF IInv, TypeOK, AimInv, ChainInv, TailOn, TailEnd, TailErr, Create, CreateErr, SetErr,
     LoadNew, LoadNewErr, disk, inode
<1>2. pc[t] \in {"tail"} \cup Creating
  BY DEF TailOn, TailEnd, TailErr, Create, CreateErr, SetErr, LoadNew, LoadNewErr, Creating
<1>3. t \in Writers /\ call[t].op \in Writes /\ call[t].at \in Nat
  <2>1. call[t].at \in Nat
    BY <1>1 DEF LocalType, CallType
  <2> QED
    BY <1>1, <1>2, <2>1 DEF PosOK, Owner
<1>4. \A k : InList(k)' <=> InList(k)
  BY <1>1 DEF InList, Links
<1>5. \A p : Within(p)' <=> Within(p)
  BY <1>4 DEF Within
<1>6. CASE TailOn(t)
  <2>1. pc[t] = "tail" /\ pc'[t] = "tail" /\ call'[t] = call[t] /\ ppos'[t] = ppos[t]
    BY <1>6 DEF TailOn
  <2>2. Within(call[t].at)'
    BY <1>1, <1>3, <1>5, <2>1 DEF Aimed
  <2>3. Aimed(t)'
    BY <1>1, <1>4, <2>1, <2>2 DEF Aimed, Creating
  <2> QED
    BY <1>0, <1>1, <2>3, AimStep
<1>7. CASE TailEnd(t)
  <2>1. /\ pc[t] = "tail" /\ pc'[t] = "create" /\ part[t] # 0 /\ ppos'[t] = ppos[t]
        /\ part'[t] = part[t] /\ cd'[t] = cd[t] /\ call'[t] = call[t]
    BY <1>1, <1>7 DEF TailEnd, AtEnd, Goto, LocalType
  <2>2. cd'[t]["next"] = 0
    BY <2>1 DEF IInv, TaskOK, Creating
  <2>3. part[t] \in Chunks /\ InList(part[t]) /\ ~Links(part[t])
    <3>1. part[t] \in Chunks
      BY <1>1, <2>1 DEF LocalType, Chunks
    <3> QED
      BY <1>1, <1>3, <2>1, <2>2, <3>1 DEF Owner, OnChain, Links, Walking
  <2>4. call[t].at >= StartOf(part[t]) + CLen /\ Within(call[t].at)
    BY <1>1, <1>3, <2>1, <2>3 DEF Aimed
  <2>5. PICK k \in Chunks : InList(k) /\ call[t].at <= StartOf(k) + CLen
    BY <2>4 DEF Within
  <2>6. StartOf(k) <= StartOf(part[t]) /\ StartOf(k) \in Nat /\ StartOf(part[t]) \in Nat
        /\ CLen \in Nat
    BY <2>3, <2>5, ChainEnds, StartFacts, ChunkAssumption
  <2>7. call[t].at = StartOf(part[t]) + CLen
    BY <1>3, <2>4, <2>5, <2>6
  <2>8. Aimed(t)'
    BY <1>1, <2>1, <2>7 DEF Aimed, Creating
  <2> QED
    BY <1>0, <1>1, <2>8, AimStep
<1>8. CASE Create(t)
  <2>1. /\ pc[t] = "create" /\ pc'[t] = "setnew" /\ ppos'[t] = ppos[t]
        /\ part'[t] = part[t] /\ call'[t] = call[t]
    BY <1>1, <1>8 DEF Create, Goto, LocalType
  <2>2. Aimed(t)'
    BY <1>1, <2>1 DEF Aimed, Creating
  <2> QED
    BY <1>0, <1>1, <2>2, AimStep
<1>9. CASE SetErr(t)
  BY <1>9, FaultFree DEF SetErr
<1>10. CASE LoadNew(t)
  <2>1. /\ pc[t] = "load" /\ pc'[t] = "io" /\ part'[t] = part[t] + 1
        /\ ppos'[t] = ppos[t] - xattr[part[t] + 1]["start"] /\ Complete(part[t] + 1)
    BY <1>1, <1>10 DEF LoadNew, Hold, ToChunk, Goto, LocalType
  <2>2. part[t] \in Chunks /\ part[t] + 1 \in Chunks
    BY <1>1, <2>1 DEF TaskOK, Creating, IInv, TypeOK, DiskType
  <2>3. xattr[part[t] + 1]["start"] = StartOf(part[t] + 1)
    BY <2>1, <2>2, LoadedOK DEF HeldOK
  <2>4. call'[t].at = call[t].at /\ ~call'[t].app
    <3>1. call[t] \in CallType /\ call'[t] = [call[t] EXCEPT !.app = FALSE]
      BY <1>1, <1>10 DEF LoadNew, LocalType
    <3>2. [call[t] EXCEPT !.app = FALSE].at = call[t].at
      BY <3>1 DEF CallType
    <3>3. ~[call[t] EXCEPT !.app = FALSE].app
      BY <3>1 DEF CallType
    <3> QED
      BY <3>1, <3>2, <3>3
  <2>5. call[t].at = StartOf(part[t]) + CLen /\ ppos[t] = call[t].at
    BY <1>1, <2>1 DEF Aimed, Creating
  <2>6. ppos'[t] = 0 /\ call'[t].at - StartOf(part[t] + 1) = 0 /\ 0 \in 0 .. CLen - 1
    BY <1>3, <2>1, <2>2, <2>3, <2>4, <2>5, StartFacts, ChunkAssumption
  <2>7. call'[t].op \in Writes => ~call'[t].app
    BY <2>4
  <2>8. Aimed(t)'
    BY <2>1, <2>6, <2>7 DEF Aimed, Creating
  <2> QED
    BY <1>0, <1>1, <2>8, AimStep
<1>11. CASE Return(t, Err)
  BY <1>0, <1>1, <1>11, AimReturn
<1>12. CASE pc'[t] = "dead"
  <2>1. faults' # 0
    BY <1>12 DEF IInv, TaskOK
  <2>2. faults' \in 0 .. MaxFaults
    BY DEF IInv, TypeOK, HistoryType
  <2> QED
    BY <2>1, <2>2 DEF OneWriter
<1>13. LoadNewErr(t) /\ ~Return(t, Err) => pc'[t] = "dead"
  BY <1>1 DEF LoadNewErr, Goto, LocalType
<1> QED
  BY <1>6, <1>7, <1>8, <1>9, <1>10, <1>11, <1>12, <1>13 DEF TailErr, CreateErr

\* While the writer adds a link no other task looks for the last part.
LEMMA SetAim ==
    ASSUME OneWriter, IInv, ChainInv, ChainInv', AimInv, NEW t \in Tasks, SetNew(t) \/ SetPrev(t)
    PROVE  AimInv'
<1>0. \A u \in Tasks \ {t} : Same(u)
  BY StepOthers DEF Step
<1>1. /\ Aimed(t) /\ PosOK(t) /\ TaskOK(t) /\ Owner(t) /\ pc[t] \in {"setnew", "setprev"}
      /\ made \subseteq Chunks /\ cd[t] \in [Fields -> Int] /\ Within(wend)
  BY DEF IInv, TypeOK, LocalType, DiskType, ChainInv, AimInv, SetNew, SetPrev
<1>2. t \in Writers
  BY <1>1 DEF PosOK, Owner, Creating
<1>3. part[t] \in Chunks /\ part[t] + 1 \in Chunks /\ HeldOK(part[t], cd[t])
  BY <1>1 DEF TaskOK, Creating
<1>4. \A u \in Tasks \ {t} : pc[u] # "tail"
  BY <1>2 DEF OneWriter, IInv, PosOK, ChainInv, Owner
<1>5. /\ NewData(part[t], cd[t]) \in [Fields -> Int]
      /\ PrevData(part[t], cd[t]) \in [Fields -> Int]
      /\ PrevData(part[t], cd[t])["next"] = co_uino(part[t] + 1)
  BY <1>1, <1>3, NewDataFacts DEF HeldOK
<1>6. \A j \in Chunks : Links(j) => Links(j)'
  <2>1. CASE SetNew(t)
    <3>1. \A j \in Chunks : j # part[t] + 1 => xattr'[j]["next"] = xattr[j]["next"]
      BY <1>3, <1>5, <2>1, SetNext DEF SetNew, ToChunk
    <3>2. ~Links(part[t]) /\ part[t] \in 1 .. part[t] + 1
      BY <1>1, <1>3, <2>1 DEF SetNew, Owner, Chunks
    <3>3. ~Links(part[t] + 1)
      BY <1>3, <3>2 DEF ChainInv, Prefix
    <3> QED
      BY <3>1, <3>3 DEF Links
  <2>2. CASE SetPrev(t)
    <3>1. \A j \in Chunks : \/ xattr'[j]["next"] = xattr[j]["next"]
                            \/ xattr'[j]["next"] = co_uino(part[t] + 1)
      BY <1>3, <1>5, <2>2, SetNext DEF SetPrev
    <3>2. co_uino(part[t] + 1) \notin {Unset, 0}
      BY <1>3, UinoFacts DEF Unset
    <3> QED
      BY <3>1, <3>2 DEF Links
  <2> QED
    BY <2>1, <2>2
<1>7. \A k \in Chunks : InList(k) => InList(k)'
  <2>1. \A k \in Chunks : 1 .. k - 1 \subseteq Chunks
    BY ChunkAssumption DEF Chunks
  <2> QED
    BY <1>6, <2>1 DEF InList
<1>8. /\ pc'[t] \in {"setnew", "setprev", "load"} /\ part'[t] = part[t]
      /\ call'[t] = call[t] /\ ppos'[t] = ppos[t] /\ wend' = wend
  BY <1>1 DEF SetNew, SetPrev, SetField, IInv, TypeOK, LocalType
<1>9. Aimed(t)'
  BY <1>1, <1>8 DEF Aimed, Creating
<1>10. Within(wend)'
  BY <1>1, <1>7, <1>8 DEF Within
<1> QED
  BY <1>0, <1>4, <1>7, <1>9, <1>10, AimGrows

\* The client writes inside the part, so that the data still ends in the chain.
LEMMA ClientAim ==
    ASSUME Sequential, OneWriter, IInv, ChainInv, AimInv, NEW t \in Tasks,
           \/ ReadClient(t) \/ WriteClient(t) \/ ClientErr(t)
           \/ SumStart(t) \/ SumOn(t) \/ SumEnd(t)
           \/ SyncOn(t) \/ SyncLost(t) \/ SyncEnd(t) \/ SyncErr(t)
    PROVE  AimInv'
<1>0. \A u \in Tasks \ {t} : Same(u)
  BY StepOthers DEF Step
<1>1. /\ LocalType /\ Aimed(t) /\ TaskOK(t) /\ OnChain(t) /\ Within(wend)
      /\ wend \in Nat /\ xattr' = xattr
  BY DEF IInv, TypeOK, HistoryType, AimInv, ChainInv, ReadClient, WriteClient, ClientErr,
     SumStart, SumOn, SumEnd, SyncOn, SyncLost, SyncEnd, SyncErr, disk
<1>2. CASE ReadClient(t) \/ ClientErr(t) \/ SumStart(t) \/ SumOn(t) \/ SyncOn(t)
  <2>1. /\ pc'[t] \in {"up", "sum", "sync"} /\ call'[t] = call[t] /\ wend' = wend
    BY <1>1, <1>2 DEF ReadClient, ClientErr, SumStart, SumOn, SyncOn, Goto, LocalType
  <2>2. Aimed(t)'
    BY <1>1, <2>1, AimAway DEF Aimed
  <2> QED
    BY <1>0, <1>1, <2>1, <2>2, AimStep
<1>3. CASE WriteClient(t)
  <2>1. /\ pc[t] = "io" /\ pc'[t] = "up" /\ call'[t] = call[t] /\ call[t].op \in Writes
        /\ wend' \in {wend, Most(wend, call[t].at + call[t].n)} /\ ~Refused(t)
    BY <1>1, <1>3 DEF WriteClient, Goto, LocalType
  <2>2. Aimed(t)'
    BY <1>1, <2>1, AimAway DEF Aimed
  <2>3. /\ part[t] \in Chunks /\ InList(part[t])
        /\ call[t].at - StartOf(part[t]) = ppos[t]
    BY <1>1, <2>1 DEF OnChain, TaskOK, Aimed, Chunks
  <2>4. WritePos(t) = ppos[t]
    BY <1>1, <2>1 DEF Aimed, WritePos
  <2>5. ~(ppos[t] + call[t].n > MaxPart)
    BY <2>1, <2>4 DEF Refused
  <2>6. call[t].at \in Nat /\ call[t].n \in Nat /\ ppos[t] \in Int
    <3>1. call[t] \in CallType /\ ppos[t] \in Int
      BY <1>1 DEF LocalType
    <3> QED
      BY <3>1 DEF CallType
  <2>7. MaxPart \in Nat /\ MaxPart <= CLen /\ CLen \in Nat /\ StartOf(part[t]) \in Nat
    BY <2>3, StartFacts, InputAssumption, ChunkAssumption DEF Sequential
  <2>8. call[t].at + call[t].n <= StartOf(part[t]) + CLen
    BY <2>3, <2>5, <2>6, <2>7
  <2>9. PICK k \in Chunks : InList(k) /\ wend <= StartOf(k) + CLen
    BY <1>1 DEF Within
  <2>10. wend' <= StartOf(k) + CLen \/ wend' <= StartOf(part[t]) + CLen
    BY <2>1, <2>8, <2>9 DEF Most
  <2>11. InList(k)' /\ \A j : InList(j)' <=> InList(j)
    BY <1>1, <2>9 DEF InList, Links
  <2>12. Within(wend)'
    BY <2>3, <2>10, <2>11 DEF Within
  <2> QED
    BY <1>0, <1>1, <2>2, <2>12, AimStep
<1>4. CASE SumEnd(t) \/ SyncEnd(t) \/ SyncErr(t)
  <2>1. wend' = wend /\ \E r : Return(t, r)
    BY <1>4 DEF SumEnd, SyncEnd, SyncErr
  <2> QED
    BY <1>0, <1>1, <2>1, AimReturn
<1>5. CASE SyncLost(t)
  BY <1>5, FaultFree DEF SyncLost
<1> QED
  BY <1>2, <1>3, <1>4, <1>5

\* Nothing is written yet, and nobody is in a call.
LEMMA InitAim ==
    ASSUME Init
    PROVE  AimInv
<1>1. Within(wend)
  <2>1. wend = 0 /\ 0 <= StartOf(HeadPart) + CLen
    BY StartFacts, ChunkAssumption DEF Init
  <2> QED
    BY <2>1, HeadInList DEF Within
<1>2. ASSUME NEW t \in Tasks PROVE Aimed(t)
  <2>1. pc[t] = "idle" /\ call[t] = NoCall
    BY DEF Init
  <2>2. NoCall.op \notin Writes
    BY DEF NoCall, Writes
  <2> QED
    BY <2>1, <2>2 DEF Aimed, Creating
<1> QED
  BY <1>1, <1>2 DEF AimInv

\* Every call is on its way to the part of its offset.
THEOREM AimInductive == OneWriter /\ Sequential => (Spec => []AimInv)
<1> SUFFICES ASSUME OneWriter, Sequential PROVE Spec => []AimInv
  OBVIOUS
<1>1. Init => AimInv
  BY InitAim
<1>2. IInv /\ IInv' /\ ChainInv /\ ChainInv' /\ AimInv /\ [Next]_vars => AimInv'
  <2> SUFFICES ASSUME IInv, IInv', ChainInv, ChainInv', AimInv, [Next]_vars PROVE AimInv'
    OBVIOUS
  <2>1. ASSUME NEW t \in Tasks, Enter(t) PROVE AimInv'
    BY <2>1, EnterAim
  <2>2. ASSUME NEW t \in Tasks, Step(t) PROVE AimInv'
    BY <2>2, WalkAim, CreateAim, SetAim, ClientAim DEF Step
  <2>3. CASE Evict \/ Restart \/ Lookup \/ LookupErr
    BY <2>3 DEF ChainInv, OneWriter, Evict, Restart, Lookup, LookupErr
  <2>4. CASE UNCHANGED vars
    <3>1. UNCHANGED <<xattr, pc, call, part, ppos, wend>>
      BY <2>4 DEF vars, disk, inode, local
    <3>2. \A k : InList(k)' <=> InList(k)
      BY <3>1 DEF InList, Links
    <3>3. \A p : Within(p)' <=> Within(p)
      BY <3>2 DEF Within
    <3>4. Within(wend)' /\ \A t \in Tasks : Within(call[t].at)' <=> Within(call[t].at)
      BY <3>1, <3>3 DEF AimInv
    <3>5. ASSUME NEW t \in Tasks PROVE Aimed(t)'
      <4>1. Aimed(t)
        BY DEF AimInv
      <4> QED
        BY <3>1, <3>2, <3>4, <4>1 DEF Aimed
    <3> QED
      BY <3>4, <3>5 DEF AimInv
  <2> QED
    BY <2>1, <2>2, <2>3, <2>4 DEF Next
<1> QED
  BY <1>1, <1>2, Inductive, ChainInductive, PTL DEF Spec

\* A read or write is sent to the part that holds its offset, at the place of
\* the offset in it: get_cont_at_offset, create_continuation and the copy_down
\* of the position agree, for one writer that leaves no holes and clients with
\* no room beyond their part.
THEOREM RightPartCorrect == OneWriter /\ Sequential => (Spec => []RightPart)
<1> SUFFICES ASSUME OneWriter, Sequential PROVE Spec => []RightPart
  OBVIOUS
<1>1. IInv /\ ChainInv /\ AimInv => RightPart
  <2> SUFFICES ASSUME IInv, ChainInv, AimInv, NEW t \in Tasks, pc[t] = "io"
               PROVE  /\ Linked(part[t])
                      /\ ppos[t] = call[t].at - xattr[part[t]]["start"]
                      /\ ppos[t] \in 0 .. xattr[part[t]]["len"] - 1
    BY DEF RightPart
  <2>1. part[t] \in Chunks /\ InList(part[t])
    BY DEF IInv, TaskOK, ChainInv, OnChain, Chunks
  <2>2. Complete(part[t])
    <3>1. CASE part[t] = HeadPart
      BY <3>1 DEF IInv
    <3>2. CASE part[t] # HeadPart
      <4>1. part[t] - 1 \in Chunks /\ part[t] - 1 \in 1 .. part[t] - 1
            /\ (part[t] - 1) + 1 = part[t]
        BY <2>1, <3>2, ChunkAssumption DEF Chunks, HeadPart
      <4>2. Ready(part[t])
        BY <2>1, <4>1 DEF IInv, LinksOK, InList
      <4> QED
        BY <4>2, FaultFree DEF Ready
    <3> QED
      BY <3>1, <3>2
  <2>3. xattr[part[t]]["start"] = StartOf(part[t]) /\ xattr[part[t]]["len"] = CLen
    BY <2>1, <2>2, LoadedOK DEF HeldOK
  <2>4. Aimed(t)
    BY DEF AimInv
  <2> QED
    BY <2>1, <2>3, <2>4, LinkLeads DEF Aimed
<1> QED
  BY <1>1, Inductive, ChainInductive, AimInductive, PTL

=============================================================================
