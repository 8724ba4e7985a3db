------------------------------ MODULE ChunkFile ------------------------------
(***************************************************************************)
(* One regular file of chunkfs, used by concurrent tasks: the continuation *)
(* list (cont.c), the file operations that dispatch to its parts (file.c), *)
(* the size and attributes copied up from them (inode.c), and the part of  *)
(* chunkfs_lookup that touches the list (namei.c).                         *)
(*                                                                         *)
(* The file's head lives in chunk 1; the continuation of the part in chunk *)
(* k is the client file /chunk<k+1>/<k>/<ino of k>, so the model names a   *)
(* part by its chunk.  The links are four extended attributes of every     *)
(* client file, each written by a call of its own; the four are read back  *)
(* in one step (prev, start and len of a part never change once set, so a  *)
(* torn read shows nothing that a later untorn one does not).  Positions   *)
(* and lengths count blocks of 4096 bytes.  Each task has at most one open *)
(* file.                                                                   *)
(***************************************************************************)
EXTENDS Integers, Sequences, FiniteSets, Uino

CONSTANTS
    Tasks,          \* tasks that open, read, write, sync, truncate the file
    Readers,        \* the tasks that may read
    Writers,        \* the tasks that may write, truncate and chmod
    Calls,          \* the system calls they make besides open, lseek and close
    NoTask,         \* the owner of a free lock
    NChunks,        \* chunks 1..NChunks are mounted
    Ino,            \* Ino[k]: the client inode number of the part in chunk k
    CLen,           \* cd_len in blocks  (10 in the code: 10 * 4096 bytes)
    Blocks, Hole,   \* what a written block may hold; what a hole reads as
    ReadLens,       \* lengths of reads
    WriteLens,      \* lengths of writes
    Appends,        \* whether files are open with O_APPEND
    MaxPos,         \* bound on the positions lseek, pread and pwrite are given
    MaxPart,        \* the blocks a client has room for in one file
    Sizes,          \* sizes given to truncate
    Modes,          \* attributes given to chmod and to the file's creation
    ContMode,       \* attributes create_continuation gives a part
    Err,            \* the result of a call that failed
    Continuous,     \* no task writes beyond the end of what is written
    Evictions,      \* the dentry may be evicted; the machine may restart
    MaxFaults       \* bound on failing client calls

Chunks == 1 .. NChunks

HeadPart == 1

ASSUME TaskAssumption == /\ NoTask \notin Tasks
                         /\ Readers \cup Writers \subseteq Tasks
                         /\ Calls \subseteq {"read", "pread", "write", "pwrite", "fsync", "setattr"}

ASSUME ChunkAssumption ==
    /\ NChunks \in Nat \ {0}
    /\ NChunks < ChunkSpace
    /\ Ino \in [Chunks -> 1 .. InoSpace - 1]
    /\ CLen \in Nat \ {0}

ASSUME InputAssumption ==
    /\ ReadLens \cup WriteLens \subseteq Nat \ {0}
    /\ Sizes \subseteq Nat
    /\ Appends \subseteq BOOLEAN /\ (Continuous => TRUE \notin Appends)
    /\ {MaxPos, MaxPart} \subseteq Nat
    /\ MaxFaults \in Nat
    /\ {Continuous, Evictions} \subseteq BOOLEAN

\* A result tells an error from data
ASSUME ResultAssumption == Err \notin Seq(Blocks \cup {Hole})

VARIABLES
    \* the client file systems
    xattr,      \* xattr[k][f]: attribute "user.f" of the part in chunk k
    made,       \* the chunks in which the part's file exists
    data,       \* data[k]: the blocks of the part's file
    dirty,      \* the parts with written blocks not yet synced
    cattr,      \* cattr[k]: the client inode's mode, owner, times
    cached,     \* the parts whose client inode is in the inode cache
    \* the chunkfs inode and dentry
    isize,      \* i_size
    iattr,      \* the attributes of the chunkfs inode
    hashed,     \* the dentry of the file is in the dcache
    lock,       \* ii_continuations_lock: the task that holds it, or NoTask
    \* each task: where it is, its call, its open file, its locals
    pc, call, fpos, ppos, part, cd, fld, sum, res,
    \* history: what a pending fsync has to write, the end of the data written
    \* (kept only for Continuous), and how many client calls failed so far
    owed, wend, faults

disk  == <<xattr, made, data, dirty, cattr>>
inode == <<isize, iattr, hashed, cached>>
local == <<pc, call, fpos, ppos, part, cd, fld, sum, res>>
vars  == <<disk, inode, lock, local, owed, wend, faults>>

-----------------------------------------------------------------------------
(* Continuation data: struct chunkfs_cont_data and its xattrs              *)

Unset == -1                 \* the attribute is absent: getxattr fails

Fields == {"next", "prev", "start", "len"}

\* set_cont_data writes the attributes in this order
Order == <<"next", "prev", "start", "len">>

CD(n, p, s, l) == [f \in Fields |-> IF f = "next"  THEN n ELSE
                                     IF f = "prev"  THEN p ELSE
                                     IF f = "start" THEN s ELSE l]

NoData == CD(0, 0, 0, 0)

co_uino(k) == MAKE_UINO(k, Ino[k])

\* chunkfs_init_cont_data: the data of a head without continuations
InitData == CD(0, 0, 0, CLen)

\* Mutant of NewData: the new part starts at the length of the last one, its start forgotten
NewDataNoStart(k, d) == CD(0, co_uino(k), d["len"], CLen)

\* What create_continuation gives the new part, after the last part k with data d
NewData(k, d) == CD(0, co_uino(k), d["start"] + d["len"], CLen)

\* Mutant of PrevData: the last part is linked to itself
PrevDataSelf(k, d) == [d EXCEPT !["next"] = co_uino(k)]

\* ... and what it writes back to part k
PrevData(k, d) == [d EXCEPT !["next"] = co_uino(k + 1)]

\* get_cont_data succeeds on part k
Complete(k) == \A f \in Fields : xattr[k][f] # Unset

-----------------------------------------------------------------------------
(* chunkfs_get_next_cont: from the continuation task t holds to the next   *)

\* no next continuation, or the head again
AtEnd(t) == part[t] # 0 /\ cd[t]["next"] \in {0, co_uino(HeadPart)}

Following(t) == IF part[t] = 0 THEN HeadPart ELSE UINO_TO_CHUNK_ID(cd[t]["next"])

\* The path /chunk<next>/<from chunk>/<from ino> resolves
PathOK(t) == part[t] = 0 \/ (Following(t) = part[t] + 1 /\ Following(t) \in made)

\* A client call that should work fails
Fault == faults < MaxFaults /\ faults' = faults + 1

\* get_next_cont returns a continuation; it does not find it (whatever error
\* kern_path has becomes -ENOENT); it fails to load it or to read one of its
\* attributes.  Each fails if what it needs is not there, and may fail if it is.
NextCont(t) == ~AtEnd(t) /\ PathOK(t) /\ Complete(Following(t))
Enoent(t)   == /\ ~AtEnd(t) /\ part[t] # 0
               /\ IF PathOK(t) THEN Fault ELSE UNCHANGED faults
Enodata(t)  == /\ ~AtEnd(t) /\ PathOK(t)
               /\ IF Complete(Following(t)) THEN Fault ELSE UNCHANGED faults

\* load_continuation of part k
Hold(t, k) == /\ part' = [part EXCEPT ![t] = k]
              /\ cd' = [cd EXCEPT ![t] = xattr[k]]

Drop(t) == /\ part' = [part EXCEPT ![t] = 0]
           /\ cd' = [cd EXCEPT ![t] = NoData]

Goto(t, where) == pc' = [pc EXCEPT ![t] = where]

\* A call: its kind, length, data, position and O_APPEND; lo is history
SysCall(op, n, v, p, a) == [op |-> op, n |-> n, v |-> v, at |-> p, app |-> a, lo |-> wend]

NoCall == [op |-> "none", n |-> 0, v |-> Hole, at |-> 0, app |-> FALSE, lo |-> 0]

\* pread and pwrite are read and write with a position that is not f_pos
Reads  == {"read", "pread"}
Writes == {"write", "pwrite"}

\* The call of t returns r.  For read and write ppos points to the VFS's copy
\* of f_pos, which it stores unless the call failed.
Return(t, r) ==
    /\ Goto(t, IF call[t].op = "open" /\ r = Err THEN "idle" ELSE "open")
    /\ fpos' = [fpos EXCEPT ![t] = IF call[t].op \in {"read", "write"} /\ r # Err
                                   THEN ppos[t] ELSE fpos[t]]
    /\ res' = [res EXCEPT ![t] = r]
    /\ call' = [call EXCEPT ![t] = NoCall]
    /\ ppos' = [ppos EXCEPT ![t] = 0]
    /\ sum' = [sum EXCEPT ![t] = 0]
    /\ fld' = [fld EXCEPT ![t] = 1]
    /\ Drop(t)

Least(a, b) == IF a <= b THEN a ELSE b
Most(a, b)  == IF a <= b THEN b ELSE a

-----------------------------------------------------------------------------
(* System calls: the VFS enters chunkfs                                    *)

Begin(t, c, where) ==
    /\ Goto(t, where)
    /\ call' = [call EXCEPT ![t] = c]
    /\ ppos' = [ppos EXCEPT ![t] = c.at]
    /\ res' = [res EXCEPT ![t] = <<>>]

\* chunkfs_open looks for offset 0; f_pos of a new file is 0
Open(t) ==
    /\ pc[t] = "idle" /\ hashed
    /\ Begin(t, SysCall("open", 0, Hole, 0, FALSE), "lock")
    /\ UNCHANGED <<disk, inode, lock, fpos, part, cd, fld, sum, owed, wend, faults>>

\* chunkfs_read and chunkfs_write of t at position p
ReadFrom(t, op, p) ==
    /\ op \in Calls /\ t \in Readers /\ pc[t] = "open"
    /\ \E n \in ReadLens : Begin(t, SysCall(op, n, Hole, p, FALSE), "lock")
    /\ owed' = [owed EXCEPT ![t] = {}]
    /\ UNCHANGED <<disk, inode, lock, fpos, part, cd, fld, sum, wend, faults>>

WriteTo(t, op, p) ==
    /\ op \in Calls /\ t \in Writers /\ pc[t] = "open"
    /\ Continuous => p <= wend
    /\ \E n \in WriteLens, v \in Blocks, a \in Appends :
          Begin(t, SysCall(op, n, v, p, a), "lock")
    /\ owed' = [owed EXCEPT ![t] = {}]
    /\ UNCHANGED <<disk, inode, lock, fpos, part, cd, fld, sum, wend, faults>>

Read(t)   == ReadFrom(t, "read", fpos[t])
Write(t)  == WriteTo(t, "write", fpos[t])
Pread(t)  == \E p \in 0 .. MaxPos : ReadFrom(t, "pread", p)
Pwrite(t) == \E p \in 0 .. MaxPos : WriteTo(t, "pwrite", p)

Fsync(t) ==
    /\ "fsync" \in Calls /\ pc[t] = "open"
    /\ Begin(t, SysCall("fsync", 0, Hole, fpos[t], FALSE), "lock")
    /\ owed' = [owed EXCEPT ![t] = dirty]
    /\ UNCHANGED <<disk, inode, lock, fpos, part, cd, fld, sum, wend, faults>>

\* chunkfs_llseek_file is default_llseek: only f_pos changes
Seek(t) ==
    /\ pc[t] = "open"
    /\ \E p \in 0 .. MaxPos : fpos' = [fpos EXCEPT ![t] = p]
    /\ res' = [res EXCEPT ![t] = <<>>]
    /\ owed' = [owed EXCEPT ![t] = {}]
    /\ UNCHANGED <<disk, inode, lock, pc, call, ppos, part, cd, fld, sum, wend, faults>>

\* No release operation: the VFS only drops its file
Close(t) ==
    /\ pc[t] = "open"
    /\ Goto(t, "idle")
    /\ fpos' = [fpos EXCEPT ![t] = 0]
    /\ res' = [res EXCEPT ![t] = <<>>]
    /\ owed' = [owed EXCEPT ![t] = {}]
    /\ UNCHANGED <<disk, inode, lock, call, ppos, part, cd, fld, sum, wend, faults>>

Resized(s, n) == [i \in 1 .. n |-> IF i <= Len(s) THEN s[i] ELSE Hole]

\* chunkfs_setattr asks the head's client only (a setattr the client refuses
\* changes nothing), then copies up
Setattr(t) ==
    /\ "setattr" \in Calls /\ t \in Writers /\ pc[t] = "open"
    /\ part' = [part EXCEPT ![t] = HeadPart]
    /\ owed' = [owed EXCEPT ![t] = {}]
    /\ \/ \E n \in Sizes : /\ Begin(t, SysCall("setsize", n, Hole, fpos[t], FALSE), "up")
                           /\ data' = [data EXCEPT ![HeadPart] = Resized(@, n)]
                           /\ wend' = Least(n, wend)
                           /\ dirty' = dirty \cup {HeadPart}
                           /\ UNCHANGED cattr
       \/ \E m \in Modes : /\ Begin(t, SysCall("setmode", 0, Hole, fpos[t], FALSE), "up")
                           /\ cattr' = [cattr EXCEPT ![HeadPart] = m]
                           /\ UNCHANGED <<data, wend, dirty>>
    /\ UNCHANGED <<xattr, made, inode, lock, fpos, cd, fld, sum, faults>>

-----------------------------------------------------------------------------
(* chunkfs_get_cont_at_offset, chunkfs_open_cont_file                      *)

Lock(t) ==
    /\ pc[t] = "lock" /\ lock = NoTask
    /\ lock' = t
    /\ Goto(t, IF call[t].op = "fsync" THEN "sync" ELSE "walk")
    /\ UNCHANGED <<disk, inode, call, fpos, ppos, part, cd, fld, sum, res, owed, wend, faults>>

Unlock(t) == lock = t /\ lock' = NoTask

\* Mutant of Covers: the end of the part is taken as inside it
CoversEnd(d, p) == p >= d["start"] /\ p <= d["start"] + d["len"]

\* The part with data d holds offset p
Covers(d, p) == p >= d["start"] /\ p < d["start"] + d["len"]

\* Not this one: go on from it
WalkOn(t) ==
    /\ pc[t] = "walk" /\ NextCont(t)
    /\ ~Covers(xattr[Following(t)], ppos[t])
    /\ Hold(t, Following(t))
    /\ UNCHANGED <<disk, inode, lock, pc, call, fpos, ppos, fld, sum, res, owed, wend, faults>>

\* Mutant of WalkFound: the position is not made relative (no copy_down_file)
WalkFoundNoCopyDown(t) ==
    /\ pc[t] = "walk" /\ NextCont(t)
    /\ Covers(xattr[Following(t)], ppos[t])
    /\ Unlock(t)
    /\ Hold(t, Following(t))
    /\ cached' = cached \cup {Following(t)}
    /\ Goto(t, IF call[t].op = "open" THEN "up" ELSE "io")
    /\ UNCHANGED <<disk, isize, iattr, hashed, call, fpos, ppos, fld, sum, res, owed, wend, faults>>

\* Found it: unlock, dentry_open of the client file, copy_down_file
WalkFound(t) ==
    /\ pc[t] = "walk" /\ NextCont(t)
    /\ Covers(xattr[Following(t)], ppos[t])
    /\ Unlock(t)
    /\ Hold(t, Following(t))
    /\ cached' = cached \cup {Following(t)}
    /\ ppos' = [ppos EXCEPT ![t] = @ - xattr[Following(t)]["start"]]
    /\ Goto(t, IF call[t].op = "open" THEN "up" ELSE "io")
    /\ UNCHANGED <<disk, isize, iattr, hashed, call, fpos, fld, sum, res, owed, wend, faults>>

\* Found it, but dentry_open fails
WalkNoOpen(t) ==
    /\ pc[t] = "walk" /\ NextCont(t)
    /\ Covers(xattr[Following(t)], ppos[t])
    /\ Fault
    /\ Unlock(t)
    /\ Return(t, Err)
    /\ UNCHANGED <<disk, inode, owed, wend>>

\* get_cont_at_offset has no continuation to return: the list ends, the next
\* one is not found, or the head fails to load and next_cont, never assigned,
\* happens to be NULL
Nowhere(t) == \/ AtEnd(t) /\ UNCHANGED faults
              \/ Enoent(t)
              \/ part[t] = 0 /\ Enodata(t)

\* -ENOENT: chunkfs_read calls it the end of the file, chunkfs_write goes on
\* to create a continuation
WalkEnd(t) ==
    /\ pc[t] = "walk" /\ Nowhere(t)
    /\ Unlock(t)
    /\ IF call[t].op \in Writes
       THEN /\ Goto(t, "tail")
            /\ Drop(t)
            /\ UNCHANGED <<call, fpos, ppos, fld, sum, res>>
       ELSE Return(t, IF call[t].op \in Reads THEN <<>> ELSE Err)
    /\ UNCHANGED <<disk, inode, owed, wend>>

\* Mutant of WalkErr: the error exit forgets mutex_unlock
WalkErrLocked(t) ==
    /\ pc[t] = "walk" /\ Enodata(t)
    /\ Return(t, Err)
    /\ UNCHANGED <<disk, inode, lock, owed, wend>>

\* Another error (next_cont is not NULL)
WalkErr(t) ==
    /\ pc[t] = "walk" /\ Enodata(t)
    /\ Unlock(t)
    /\ Return(t, Err)
    /\ UNCHANGED <<disk, inode, owed, wend>>

-----------------------------------------------------------------------------
(* chunkfs_create_continuation: without the lock                           *)

\* Mutant of TailOn: the loop does not take the continuation it got
TailOnAgain(t) ==
    /\ pc[t] = "tail" /\ NextCont(t)
    /\ UNCHANGED vars

TailOn(t) ==
    /\ pc[t] = "tail" /\ NextCont(t)
    /\ Hold(t, Following(t))
    /\ UNCHANGED <<disk, inode, lock, pc, call, fpos, ppos, fld, sum, res, owed, wend, faults>>

TailEnd(t) ==
    /\ pc[t] = "tail" /\ AtEnd(t)
    /\ Goto(t, "create")
    /\ UNCHANGED <<disk, inode, lock, call, fpos, ppos, part, cd, fld, sum, res, owed, wend, faults>>

TailErr(t) ==
    /\ pc[t] = "tail" /\ (Enoent(t) \/ Enodata(t))
    /\ Return(t, Err)
    /\ UNCHANGED <<disk, inode, lock, owed, wend>>

\* The next chunk, "temporary hack, do the next chunk for creation"
ToChunk(t) == part[t] + 1

\* Mutant of Create: the chunk's id is not checked
CreateAnywhere(t) ==
    /\ pc[t] = "create"
    /\ made' = made \cup {ToChunk(t)}
    /\ cattr' = IF ToChunk(t) \in made THEN cattr
                ELSE [cattr EXCEPT ![ToChunk(t)] = ContMode]
    /\ cached' = cached \cup {ToChunk(t)}
    /\ Goto(t, "setnew")
    /\ UNCHANGED <<xattr, data, dirty, isize, iattr, hashed, lock, call, fpos, ppos,
                   part, cd, fld, sum, res, owed, wend, faults>>

\* filp_open(O_CREAT): an existing file is opened as it is
Create(t) ==
    /\ pc[t] = "create" /\ ToChunk(t) \in Chunks
    /\ made' = made \cup {ToChunk(t)}
    /\ cattr' = IF ToChunk(t) \in made THEN cattr
                ELSE [cattr EXCEPT ![ToChunk(t)] = ContMode]
    /\ cached' = cached \cup {ToChunk(t)}
    /\ Goto(t, "setnew")
    /\ UNCHANGED <<xattr, data, dirty, isize, iattr, hashed, lock, call, fpos, ppos,
                   part, cd, fld, sum, res, owed, wend, faults>>

\* No such chunk, or the client cannot create the file
CreateErr(t) ==
    /\ pc[t] = "create"
    /\ IF ToChunk(t) \in Chunks THEN Fault ELSE UNCHANGED faults
    /\ Return(t, Err)
    /\ UNCHANGED <<disk, inode, lock, owed, wend>>

\* Mutant of SetField: the last attribute, len, is never written
SetFieldNoLen(t, k, d, then) ==
    /\ xattr' = [xattr EXCEPT ![k] = [@ EXCEPT ![Order[fld[t]]] = d[Order[fld[t]]]]]
    /\ fld' = [fld EXCEPT ![t] = IF fld[t] = 3 THEN 1 ELSE fld[t] + 1]
    /\ pc' = [pc EXCEPT ![t] = IF fld[t] = 3 THEN then ELSE pc[t]]
    /\ UNCHANGED <<made, data, dirty, cattr, inode, lock, call, fpos, ppos, part, cd,
                   sum, res, owed, wend, faults>>

\* One setxattr of set_cont_data(k, d); the caller goes on to then
SetField(t, k, d, then) ==
    /\ xattr' = [xattr EXCEPT ![k] = [@ EXCEPT ![Order[fld[t]]] = d[Order[fld[t]]]]]
    /\ fld' = [fld EXCEPT ![t] = IF fld[t] = 4 THEN 1 ELSE fld[t] + 1]
    /\ pc' = [pc EXCEPT ![t] = IF fld[t] = 4 THEN then ELSE pc[t]]
    /\ UNCHANGED <<made, data, dirty, cattr, inode, lock, call, fpos, ppos, part, cd,
                   sum, res, owed, wend, faults>>

SetNew(t)  == pc[t] = "setnew" /\ SetField(t, ToChunk(t), NewData(part[t], cd[t]), "setprev")
SetPrev(t) == pc[t] = "setprev" /\ SetField(t, part[t], PrevData(part[t], cd[t]), "load")

\* A setxattr fails: set_cont_data skips the rest, its caller ignores the error
SetErr(t) ==
    /\ pc[t] \in {"setnew", "setprev"}
    /\ Fault
    /\ fld' = [fld EXCEPT ![t] = 1]
    /\ Goto(t, IF pc[t] = "setnew" THEN "setprev" ELSE "load")
    /\ UNCHANGED <<disk, inode, lock, call, fpos, ppos, part, cd, sum, res, owed, wend>>

\* load_continuation of the new part, copy_down_file; filp_open has opened its
\* file without O_APPEND
LoadNew(t) ==
    /\ pc[t] = "load" /\ Complete(ToChunk(t))
    /\ Hold(t, ToChunk(t))
    /\ ppos' = [ppos EXCEPT ![t] = @ - xattr[ToChunk(t)]["start"]]
    /\ call' = [call EXCEPT ![t].app = FALSE]
    /\ Goto(t, "io")
    /\ UNCHANGED <<disk, inode, lock, fpos, fld, sum, res, owed, wend, faults>>

\* It fails: new_cont is uninitialized when copy_down_file reads through it.
\* The task dies there, or gets past it and returns the error.
LoadNewErr(t) ==
    /\ pc[t] = "load"
    /\ IF Complete(ToChunk(t)) THEN Fault ELSE UNCHANGED faults
    /\ \/ Return(t, Err)
       \/ /\ Goto(t, "dead")
          /\ UNCHANGED <<call, fpos, ppos, part, cd, fld, sum, res>>
    /\ UNCHANGED <<disk, inode, lock, owed, wend>>

-----------------------------------------------------------------------------
(* The client's read and write, at *ppos; then chunkfs_close_cont_file     *)

ReadAt(s, p, n) == SubSeq(s, p + 1, Least(p + n, Len(s)))

WriteAt(s, p, n, v) ==
    [i \in 1 .. Most(Len(s), p + n) |-> IF p < i /\ i <= p + n THEN v
                                        ELSE IF i <= Len(s) THEN s[i] ELSE Hole]

ReadClient(t) ==
    /\ pc[t] = "io" /\ call[t].op \in Reads
    /\ res' = [res EXCEPT ![t] = ReadAt(data[part[t]], ppos[t], call[t].n)]
    /\ ppos' = [ppos EXCEPT ![t] = @ + Len(ReadAt(data[part[t]], @, call[t].n))]
    /\ Goto(t, "up")
    /\ UNCHANGED <<disk, inode, lock, call, fpos, part, cd, fld, sum, owed, wend, faults>>

\* With O_APPEND the client writes at the end of its own file
WritePos(t) == IF call[t].app THEN Len(data[part[t]]) ELSE ppos[t]

\* -EINVAL for a negative position, -ENOSPC for a full client
Refused(t) == call[t].op \in Writes /\ (ppos[t] < 0 \/ WritePos(t) + call[t].n > MaxPart)

WriteClient(t) ==
    /\ pc[t] = "io" /\ call[t].op \in Writes /\ ~Refused(t)
    /\ data' = [data EXCEPT ![part[t]] = WriteAt(@, WritePos(t), call[t].n, call[t].v)]
    /\ dirty' = dirty \cup {part[t]}
    /\ ppos' = [ppos EXCEPT ![t] = WritePos(t) + call[t].n]
    /\ wend' = IF Continuous THEN Most(wend, call[t].at + call[t].n) ELSE wend
    /\ Goto(t, "up")
    /\ UNCHANGED <<xattr, made, cattr, inode, lock, call, fpos, part, cd, fld, sum, res,
                   owed, faults>>

\* The client refuses the write, or fails
ClientErr(t) ==
    /\ pc[t] = "io"
    /\ IF Refused(t) THEN UNCHANGED faults ELSE Fault
    /\ res' = [res EXCEPT ![t] = Err]
    /\ Goto(t, "up")
    /\ UNCHANGED <<disk, inode, lock, call, fpos, ppos, part, cd, fld, sum, owed, wend>>

(* chunkfs_copy_up_inode: attributes from the client inode at hand, the    *)
(* size summed over the list with chunkfs_get_next_inode, without the lock *)

\* copy_up_file: the client file's f_pos, made absolute again.  The client
\* has not moved it, as it was given ppos, so it is where the call began; a
\* pread or pwrite moves f_pos there.  chunkfs_setattr has no file.
FilePos(t) == IF call[t].op \in {"setsize", "setmode"} THEN fpos[t] ELSE call[t].at

SumStart(t) ==
    /\ pc[t] = "up"
    /\ fpos' = [fpos EXCEPT ![t] = FilePos(t)]
    /\ iattr' = cattr[part[t]]
    /\ sum' = [sum EXCEPT ![t] = Len(data[HeadPart])]
    /\ part' = [part EXCEPT ![t] = HeadPart]
    /\ cd' = [cd EXCEPT ![t] = NoData]
    /\ Goto(t, "sum")
    /\ UNCHANGED <<disk, isize, hashed, cached, lock, call, ppos, fld, res, owed, wend, faults>>

\* iget_locked does not read the inode: one that is not in the cache comes
\* back blank, with no size and no attributes
NextInode(k) == UINO_TO_CHUNK_ID(xattr[k]["next"])
HasNext(k)   == k \in cached /\ Complete(k) /\ xattr[k]["next"] # 0
SizeOf(k)    == IF k \in cached THEN Len(data[k]) ELSE 0

\* Mutant of SumOn: adds the size of the part it comes from
SumOnBehind(t) ==
    /\ pc[t] = "sum" /\ HasNext(part[t])
    /\ part' = [part EXCEPT ![t] = NextInode(part[t])]
    /\ sum' = [sum EXCEPT ![t] = @ + SizeOf(part[t])]
    /\ UNCHANGED <<disk, inode, lock, pc, call, fpos, ppos, cd, fld, res, owed, wend, faults>>

SumOn(t) ==
    /\ pc[t] = "sum" /\ HasNext(part[t])
    /\ part' = [part EXCEPT ![t] = NextInode(part[t])]
    /\ sum' = [sum EXCEPT ![t] = @ + SizeOf(NextInode(part[t]))]
    /\ UNCHANGED <<disk, inode, lock, pc, call, fpos, ppos, cd, fld, res, owed, wend, faults>>

\* The end of the list, or get_next_inode fails: the loop takes both alike
SumEnd(t) ==
    /\ pc[t] = "sum"
    /\ IF HasNext(part[t]) THEN Fault ELSE UNCHANGED faults
    /\ isize' = sum[t]
    /\ Return(t, res[t])
    /\ UNCHANGED <<disk, iattr, hashed, cached, lock, owed, wend>>

-----------------------------------------------------------------------------
(* chunkfs_fsync_file, with the lock held                                  *)

\* Mutant of SyncOn: syncs prev_cont where next_cont is meant
SyncOnBehind(t) ==
    /\ pc[t] = "sync" /\ NextCont(t)
    /\ Hold(t, Following(t))
    /\ dirty' = dirty \ {part[t]}
    /\ owed' = [u \in Tasks |-> owed[u] \ {part[t]}]
    /\ UNCHANGED <<xattr, made, data, cattr, inode, lock, pc, call, fpos, ppos, fld, sum, res,
                   wend, faults>>

SyncOn(t) ==
    /\ pc[t] = "sync" /\ NextCont(t)
    /\ Hold(t, Following(t))
    /\ dirty' = dirty \ {Following(t)}
    /\ owed' = [u \in Tasks |-> owed[u] \ {Following(t)}]
    /\ UNCHANGED <<xattr, made, data, cattr, inode, lock, pc, call, fpos, ppos, fld, sum, res,
                   wend, faults>>

\* The part's fsync fails; the next get_next_cont overwrites the error
SyncLost(t) ==
    /\ pc[t] = "sync" /\ NextCont(t)
    /\ Fault
    /\ Hold(t, Following(t))
    /\ UNCHANGED <<disk, inode, lock, pc, call, fpos, ppos, fld, sum, res, owed, wend>>

SyncEnd(t) ==
    /\ pc[t] = "sync" /\ AtEnd(t)
    /\ Unlock(t)
    /\ Return(t, <<>>)
    /\ UNCHANGED <<disk, inode, owed, wend, faults>>

SyncErr(t) ==
    /\ pc[t] = "sync" /\ (Enoent(t) \/ Enodata(t))
    /\ Unlock(t)
    /\ Return(t, Err)
    /\ UNCHANGED <<disk, inode, owed, wend>>

-----------------------------------------------------------------------------
(* The dentry leaves the dcache, the machine restarts, chunkfs_lookup      *)

\* Nobody uses the file: memory pressure may evict its dentry and inode
Evict ==
    /\ Evictions /\ hashed
    /\ \A t \in Tasks : pc[t] = "idle"
    /\ hashed' = FALSE
    /\ UNCHANGED <<disk, isize, iattr, cached, lock, local, owed, wend, faults>>

\* The machine restarts, at any point; what the clients were told to write
\* is on their disks (they are journaled or mounted synchronously)
Restart ==
    /\ Evictions
    /\ hashed' = FALSE /\ cached' = {} /\ lock' = NoTask /\ dirty' = {}
    /\ pc' = [t \in Tasks |-> "idle"]
    /\ call' = [t \in Tasks |-> NoCall]
    /\ fpos' = [t \in Tasks |-> 0]
    /\ ppos' = [t \in Tasks |-> 0]
    /\ part' = [t \in Tasks |-> 0]
    /\ cd' = [t \in Tasks |-> NoData]
    /\ fld' = [t \in Tasks |-> 1]
    /\ sum' = [t \in Tasks |-> 0]
    /\ res' = [t \in Tasks |-> <<>>]
    /\ owed' = [t \in Tasks |-> {}]
    /\ UNCHANGED <<xattr, made, data, cattr, isize, iattr, wend, faults>>

\* Mutant of Lookup: the continuation data is left as it is
LookupKeeps ==
    /\ ~hashed
    /\ hashed' = TRUE
    /\ cached' = cached \cup {HeadPart}
    /\ isize' = Len(data[HeadPart])
    /\ iattr' = cattr[HeadPart]
    /\ UNCHANGED <<xattr, made, data, dirty, cattr, lock, local, owed, wend, faults>>

\* chunkfs_lookup finds the client inode, gives it initial continuation data
\* and starts a chunkfs inode on it
Lookup ==
    /\ ~hashed
    /\ hashed' = TRUE
    /\ xattr' = [xattr EXCEPT ![HeadPart] = InitData]
    /\ cached' = cached \cup {HeadPart}
    /\ isize' = Len(data[HeadPart])
    /\ iattr' = cattr[HeadPart]
    /\ UNCHANGED <<made, data, dirty, cattr, lock, local, owed, wend, faults>>

\* One of the setxattrs fails, and with it the lookup
LookupErr ==
    /\ ~hashed /\ Fault
    /\ \E head \in {xattr[HeadPart], [xattr[HeadPart] EXCEPT !["next"] = 0]} :
          xattr' = [xattr EXCEPT ![HeadPart] = head]
    /\ cached' = cached \cup {HeadPart}
    /\ UNCHANGED <<made, data, dirty, cattr, isize, iattr, hashed, lock, local, owed, wend>>

-----------------------------------------------------------------------------
\* The file as chunkfs_create leaves it
Init ==
    /\ xattr = [k \in Chunks |-> IF k = HeadPart THEN InitData
                                 ELSE CD(Unset, Unset, Unset, Unset)]
    /\ made = {HeadPart}
    /\ data = [k \in Chunks |-> <<>>]
    /\ dirty = {}
    /\ \E m \in Modes : cattr = [k \in Chunks |-> m] /\ iattr = m
    /\ cached = {HeadPart}
    /\ isize = 0
    /\ hashed = TRUE
    /\ lock = NoTask
    /\ pc = [t \in Tasks |-> "idle"]
    /\ call = [t \in Tasks |-> NoCall]
    /\ fpos = [t \in Tasks |-> 0]
    /\ ppos = [t \in Tasks |-> 0]
    /\ part = [t \in Tasks |-> 0]
    /\ cd = [t \in Tasks |-> NoData]
    /\ fld = [t \in Tasks |-> 1]
    /\ sum = [t \in Tasks |-> 0]
    /\ res = [t \in Tasks |-> <<>>]
    /\ owed = [t \in Tasks |-> {}]
    /\ wend = 0
    /\ faults = 0

\* A system call starts
Enter(t) ==
    \/ Open(t) \/ Read(t) \/ Pread(t) \/ Write(t) \/ Pwrite(t)
    \/ Fsync(t) \/ Seek(t) \/ Close(t) \/ Setattr(t)

\* A task takes a step inside one
Step(t) ==
    \/ Lock(t) \/ WalkOn(t) \/ WalkFound(t) \/ WalkNoOpen(t) \/ WalkEnd(t) \/ WalkErr(t)
    \/ TailOn(t) \/ TailEnd(t) \/ TailErr(t) \/ Create(t) \/ CreateErr(t)
    \/ SetNew(t) \/ SetPrev(t) \/ SetErr(t) \/ LoadNew(t) \/ LoadNewErr(t)
    \/ ReadClient(t) \/ WriteClient(t) \/ ClientErr(t)
    \/ SumStart(t) \/ SumOn(t) \/ SumEnd(t)
    \/ SyncOn(t) \/ SyncLost(t) \/ SyncEnd(t) \/ SyncErr(t)

Next ==
    \/ \E t \in Tasks : Enter(t) \/ Step(t)
    \/ Evict \/ Restart \/ Lookup \/ LookupErr

Spec == Init /\ [][Next]_vars

\* The kernel schedules a task that can run
FairSpec == Spec /\ \A t \in Tasks : WF_vars(Step(t))

-----------------------------------------------------------------------------
(* Properties                                                              *)

Places == {"idle", "open", "lock", "walk", "tail", "create", "setnew", "setprev",
           "load", "dead", "io", "up", "sum", "sync"}

Ops == {"none", "open", "fsync", "setsize", "setmode"} \cup Reads \cup Writes

CallType == [op : Ops, n : Nat, v : Blocks \cup {Hole}, at : Nat, app : BOOLEAN, lo : Nat]

DiskType ==
    /\ xattr \in [Chunks -> [Fields -> Int]]
    /\ made \subseteq Chunks /\ dirty \subseteq Chunks
    /\ data \in [Chunks -> Seq(Blocks \cup {Hole})]
    /\ cattr \in [Chunks -> Modes \cup {ContMode}]

InodeType ==
    /\ cached \subseteq Chunks
    /\ iattr \in Modes \cup {ContMode}
    /\ isize \in Nat
    /\ hashed \in BOOLEAN
    /\ lock \in Tasks \cup {NoTask}

LocalType ==
    /\ pc \in [Tasks -> Places]
    /\ call \in [Tasks -> CallType]
    /\ fpos \in [Tasks -> Nat]
    /\ ppos \in [Tasks -> Int]
    /\ part \in [Tasks -> 0 .. NChunks]
    /\ cd \in [Tasks -> [Fields -> Int]]
    /\ fld \in [Tasks -> 1 .. 4]
    /\ sum \in [Tasks -> Nat]
    /\ DOMAIN res = Tasks

HistoryType ==
    /\ owed \in [Tasks -> SUBSET Chunks]
    /\ wend \in Nat
    /\ faults \in 0 .. MaxFaults

\* Every variable has the type its declaration says.  In particular f_pos and
\* i_size never become negative although the relative position may, and the
\* part a task holds is always a mounted chunk (load_continuation and
\* get_next_inode BUG on any other).
TypeOK == DiskType /\ InodeType /\ LocalType /\ HistoryType

\* The part in chunk k is reached from the head over next pointers
Linked(k) == \A j \in 1 .. k - 1 : xattr[j]["next"] # Unset /\ NextInode(j) = j + 1

\* A next pointer names the part after it, which exists; and as long as no
\* client call failed, that part's attributes are all there, its prev points
\* back, and it starts where this one ends.  create_continuation's order (new
\* part first, then the link) makes it so, with any number of tasks between its
\* eight setxattrs and a restart at any point.
ChainOK ==
    \A k \in Chunks : xattr[k]["next"] \notin {0, Unset} =>
        /\ k + 1 \in made
        /\ xattr[k]["next"] = co_uino(k + 1)
        /\ faults = 0 => /\ Complete(k + 1)
                         /\ xattr[k + 1]["prev"] = co_uino(k)
                         /\ xattr[k + 1]["start"] = xattr[k]["start"] + xattr[k]["len"]

\* No read or write goes through a continuation that was not loaded, whatever
\* calls of the clients fail, tasks race and the machine restarts:
\* get_cont_at_offset decides on next_cont after its loop, although it is
\* uninitialized when the head fails to load, yet who gets to a client file has
\* loaded the part it belongs to, and is at the offset it asked for in it (a
\* read inside the part; a write that lost its way is at a negative position,
\* which the client refuses).  create_continuation does follow its
\* uninitialized new_cont when load_continuation fails; but no more tasks die
\* of it than client calls have failed: an incomplete part that one failure
\* leaves behind is written anew by the next task that creates it.
NoWildCont ==
    /\ \A t \in Tasks : pc[t] = "io" =>
          /\ Complete(part[t])
          /\ ppos[t] = call[t].at - xattr[part[t]]["start"]
          /\ call[t].op \in Reads => ppos[t] \in 0 .. xattr[part[t]]["len"] - 1
    /\ Cardinality({t \in Tasks : pc[t] = "dead"}) <= faults

\* get_next_inode calls iget_locked and never reads the inode.  It gets a
\* valid one because every part that can be reached is in the inode cache:
\* the client files opened by reads and writes are never closed, a lookup after
\* a restart cuts the list, and a part is given next 0 before it is linked.  (A
\* failed setxattr of that 0 leaves the part with a link of an earlier boot.)
ReachCached == hashed /\ faults = 0 => \A k \in Chunks : Linked(k) => k \in cached

\* Every part that holds data of the file can be reached by following the
\* forward pointers from the head.
ForwardLinked == \A k \in Chunks : data[k] # <<>> => Linked(k)

\* The client file a read or write was sent to is the part that holds the
\* offset the call asked for, at the position of that offset in the part.
RightPart ==
    \A t \in Tasks : pc[t] = "io" =>
        /\ Linked(part[t])
        /\ ppos[t] = call[t].at - xattr[part[t]]["start"]
        /\ ppos[t] \in 0 .. xattr[part[t]]["len"] - 1

\* An fsync that found no error has written every part that was dirty when it
\* was called: it fans out to all the parts, whatever is created meanwhile.
FsyncFansOut ==
    faults = 0 => \A t \in Tasks : pc[t] = "open" => owed[t] = {}

\* The size of the first k parts together, and of all of them
SizeTo[k \in 0 .. NChunks] ==
    IF k = 0 THEN 0 ELSE SizeTo[k - 1] + (IF Linked(k) THEN Len(data[k]) ELSE 0)

Total == SizeTo[NChunks]

\* Between the calls of one task i_size is the size of all the parts together,
\* however calls ended, the list grew and lookups cut it.  (It needs the inodes
\* that ReachCached is about, and so that no client call failed.)
SizeSettles ==
    hashed /\ faults = 0 /\ (\A t \in Tasks : pc[t] \in {"idle", "open"}) => isize = Total

\* After a read or write that worked, f_pos is past the blocks transferred:
\* copy_up_file is there to "reverse the pos conversion".
PosAdvances ==
    [][\A t \in Tasks :
          pc[t] = "sum" /\ pc'[t] = "open" /\ res[t] # Err =>
             /\ call[t].op = "read"  => fpos'[t] = fpos[t] + Len(res[t])
             /\ call[t].op = "write" => fpos'[t] = fpos[t] + call[t].n]_vars

\* The lock on the continuation list is always given back.
LockReleased == \A t \in Tasks : (lock = t) ~> (lock # t)

\* A call that has been past the lock returns: the walks over the list, two
\* of which take no lock, come to an end although the list changes under them
\* and reads of it fail; or its task dies of an uninitialized continuation.
CallReturns ==
    \A t \in Tasks : (pc[t] \notin {"idle", "open", "lock"}) ~> (pc[t] \in {"idle", "open", "dead"})
=============================================================================
