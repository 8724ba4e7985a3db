------------------------------- MODULE Mount -------------------------------
(***************************************************************************)
(* Mounting and unmounting what mkfs.chunkfs wrote: chunkfs_fill_super and *)
(* what it calls (super.c), chunkfs_put_super, and chunkfs_write_super,    *)
(* which the VFS calls before it.  Userland makes the directories /chunk1, *)
(* /chunk2, ... and mounts the client file systems on them, in this order. *)
(* Memory is never short.                                                  *)
(***************************************************************************)
EXTENDS Mkfs, FiniteSets

CONSTANTS
    MaxDirs,        \* bound on the directories /chunk<k>
    DebugMutex      \* a kernel whose mutex_unlock stores, not increments

ASSUME MountAssumption == MaxDirs \in Nat /\ DebugMutex \in BOOLEAN

VARIABLES
    dirs, fss,      \* /chunk1 .. /chunk<dirs> exist; client fs's on the first fss
    rootdir,        \* the client of chunk 1 has the directory /root
    st,             \* where fill_super or the unmount is
    offset,         \* chunk_offset
    clist,          \* di_clist_head: the chunks read so far
    root,           \* di_root_chunk: its id, or 0
    refs,           \* the allocations and buffers held, and the mounts by number
    kmutex          \* chunkfs_kernel_mutex.count: 1 when free

mntVars == <<dirs, fss, rootdir, st, offset, clist, root, refs, kmutex>>

vars == <<mkVars, mntVars>>

-----------------------------------------------------------------------------
(* The kernel's mutex (external): unlocking one that nobody holds is       *)
(* undefined.  The usual build increments the count; one with              *)
(* CONFIG_DEBUG_MUTEXES sets it to 1.                                      *)

MutexUnlock == kmutex' = IF DebugMutex THEN 1 ELSE kmutex + 1

MutexLock == kmutex > 0 /\ kmutex' = kmutex - 1

-----------------------------------------------------------------------------
(* sb_bread, check_metadata                                                *)

\* sb_bread of the block at off gives a summary with this magic
Holds(off, magic) == off + Blk <= size /\ blk[off \div Blk].magic = magic

NoRefs == [mem |-> 0, bh |-> 0, mnt |-> [m \in 0 .. MaxDirs |-> 0]]

\* What a chunk_info, dev_info or pool_info holds: itself and a buffer
GetInfo(r) == [mem |-> r.mem + 1, bh |-> r.bh + 1, mnt |-> r.mnt]

\* mntget; mount 0 is that of the root file system, k that on /chunk<k>
MntGet(r, m) == [mem |-> r.mem, bh |-> r.bh, mnt |-> [r.mnt EXCEPT ![m] = @ + 1]]

\* mntput
MntPut(r, m) == [mem |-> r.mem, bh |-> r.bh, mnt |-> [r.mnt EXCEPT ![m] = @ - 1]]

-----------------------------------------------------------------------------
(* chunkfs_fill_super                                                      *)

\* Mutant of FillSuper: only the mutex_unlock at the top is dropped
FillSuperLocked ==
    /\ st = "none" /\ mk = "none"
    /\ st' = "pool"
    /\ UNCHANGED <<mkVars, dirs, fss, rootdir, offset, clist, root, refs, kmutex>>

FillSuper ==
    /\ st = "none" /\ mk = "none"
    /\ MutexUnlock
    /\ st' = "pool"
    /\ UNCHANGED <<mkVars, dirs, fss, rootdir, offset, clist, root, refs>>

\* chunkfs_read_pool up to its call of chunkfs_read_dev
ReadPool ==
    /\ st = "pool" /\ Holds(PoolBlk * Blk, "pool")
    /\ refs' = GetInfo(refs)
    /\ st' = "dev"
    /\ UNCHANGED <<mkVars, dirs, fss, rootdir, offset, clist, root, kmutex>>

\* chunkfs_read_dev up to its loop
ReadDev ==
    /\ st = "dev" /\ Holds(DevBlk * Blk, "dev")
    /\ refs' = GetInfo(refs)
    /\ offset' = blk[DevBlk].d_innards_begin
    /\ st' = "chunk"
    /\ UNCHANGED <<mkVars, dirs, fss, rootdir, clist, root, kmutex>>

\* The summary at hand
Summary == blk[offset \div Blk]

\* chunkfs_read_client_sb: kern_path finds a directory whether or not a
\* client is mounted on it
PathResolves(id) == id <= dirs

\* nd.path.mnt: that of the directory's own file system when there is no client
MountAt(id) == IF id <= fss THEN id ELSE 0

\* Mutant of GrabClient: path_put with no mntget before it
GrabClientNoGet(r, id) == GetInfo(r)

\* What chunkfs_read_chunk holds when it returns
GrabClient(r, id) == MntGet(GetInfo(r), MountAt(id))

\* Mutant of ReadChunk: list_add for list_add_tail
ReadChunkInFront ==
    /\ st = "chunk" /\ offset # 0
    /\ Holds(offset, "chunk") /\ PathResolves(Summary.id)
    /\ refs' = GrabClient(refs, Summary.id)
    /\ clist' = <<[id |-> Summary.id, mnt |-> MountAt(Summary.id)]>> \o clist
    /\ IF Summary.root /\ root # 0
       THEN st' = "bug" /\ UNCHANGED <<offset, root>>
       ELSE /\ root' = IF Summary.root THEN Summary.id ELSE root
            /\ offset' = Summary.c_next
            /\ UNCHANGED st
    /\ UNCHANGED <<mkVars, dirs, fss, rootdir, kmutex>>

\* chunkfs_read_chunk succeeds, and read_dev takes the chunk: two root chunks
\* are a BUG
ReadChunk ==
    /\ st = "chunk" /\ offset # 0
    /\ Holds(offset, "chunk") /\ PathResolves(Summary.id)
    /\ refs' = GrabClient(refs, Summary.id)
    /\ clist' = Append(clist, [id |-> Summary.id, mnt |-> MountAt(Summary.id)])
    /\ IF Summary.root /\ root # 0
       THEN st' = "bug" /\ UNCHANGED <<offset, root>>
       ELSE /\ root' = IF Summary.root THEN Summary.id ELSE root
            /\ offset' = Summary.c_next
            /\ UNCHANGED st
    /\ UNCHANGED <<mkVars, dirs, fss, rootdir, kmutex>>

\* The end of the list.  Without a root chunk read_dev frees everything and
\* returns 0 all the same; read_pool then uses the dev it never got.
ReadAll ==
    /\ st = "chunk" /\ offset = 0
    /\ st' = IF root # 0 THEN "root" ELSE "bug"
    /\ UNCHANGED <<mkVars, dirs, fss, rootdir, offset, clist, root, refs, kmutex>>

\* Mutant of FreeChunks: chunkfs_free_chunk without mntput
FreeChunksNoMnt(r) ==
    [r EXCEPT !.mem = @ - Len(clist), !.bh = @ - Len(clist)]

\* chunkfs_free_chunk for every chunk of the list
FreeChunks(r) ==
    [mem |-> r.mem - Len(clist), bh |-> r.bh - Len(clist),
     mnt |-> [m \in DOMAIN r.mnt |->
                r.mnt[m] - Cardinality({i \in DOMAIN clist : clist[i].mnt = m})]]

\* brelse and kfree of a dev_info or pool_info
FreeInfo(r) == [mem |-> r.mem - 1, bh |-> r.bh - 1, mnt |-> r.mnt]

\* A summary cannot be read, is not valid, or the path does not resolve: each
\* function frees what it holds, the one at hand included
ReadFails ==
    /\ \/ st = "pool" /\ ~Holds(PoolBlk * Blk, "pool")
       \/ st = "dev" /\ ~Holds(DevBlk * Blk, "dev")
       \/ /\ st = "chunk" /\ offset # 0
          /\ ~(Holds(offset, "chunk") /\ PathResolves(Summary.id))
    /\ refs' = CASE st = "pool"  -> refs
               [] st = "dev"   -> FreeInfo(refs)
               [] st = "chunk" -> FreeInfo(FreeInfo(FreeChunks(refs)))
    /\ clist' = <<>> /\ root' = 0
    /\ st' = "failed"
    /\ UNCHANGED <<mkVars, dirs, fss, rootdir, offset, kmutex>>

\* The mount of the root chunk, chunkfs_find_chunk
RootMnt == LET i == CHOOSE i \in DOMAIN clist : clist[i].id = root IN clist[i].mnt

\* kern_path finds /chunk1/root/: the client is mounted and has it
RootResolves == fss >= 1 /\ rootdir

\* chunkfs_read_root: the nameidata of the root dentry takes another reference
\* to the root chunk's mount.  If the root directory is not found, the error
\* path goes through sb->s_root, which is NULL.
ReadRoot ==
    /\ st = "root"
    /\ \/ /\ RootResolves
          /\ st' = "filled" /\ refs' = MntGet(refs, RootMnt)
       \/ /\ ~RootResolves
          /\ st' = "oops" /\ UNCHANGED refs
    /\ UNCHANGED <<mkVars, dirs, fss, rootdir, offset, clist, root, kmutex>>

\* Both exits of chunkfs_fill_super lock the mutex
FillSuperReturns ==
    /\ st \in {"filled", "failed"}
    /\ MutexLock
    /\ st' = IF st = "filled" THEN "mounted" ELSE "none"
    /\ UNCHANGED <<mkVars, dirs, fss, rootdir, offset, clist, root, refs>>

-----------------------------------------------------------------------------
(* Unmounting: generic_shutdown_super calls sync_fs, then put_super        *)

Umount ==
    /\ st = "mounted"
    /\ st' = "sync"
    /\ UNCHANGED <<mkVars, dirs, fss, rootdir, offset, clist, root, refs, kmutex>>

\* chunkfs_write_super: the pool's buffer is written between lock and unlock
WriteSuper ==
    /\ st = "sync" /\ MutexLock
    /\ st' = "commit"
    /\ UNCHANGED <<mkVars, dirs, fss, rootdir, offset, clist, root, refs>>

Committed ==
    /\ st = "commit" /\ MutexUnlock
    /\ st' = "put"
    /\ UNCHANGED <<mkVars, dirs, fss, rootdir, offset, clist, root, refs>>

\* The VFS frees the root dentry (chunkfs_release_nd), then chunkfs_free_pool,
\* free_dev and free_chunk
PutSuper ==
    /\ st = "put"
    /\ refs' = FreeInfo(FreeInfo(FreeChunks(MntPut(refs, RootMnt))))
    /\ clist' = <<>> /\ root' = 0 /\ offset' = 0
    /\ st' = "none"
    /\ UNCHANGED <<mkVars, dirs, fss, rootdir, kmutex>>

-----------------------------------------------------------------------------
(* Userland: mkdir /chunk<k>, mount and umount of the clients, mkdir of    *)
(* the root directory once its client is mounted; mkfs runs while nothing  *)
(* is mounted                                                              *)

Mkdir ==
    /\ dirs < MaxDirs /\ dirs' = dirs + 1
    /\ UNCHANGED <<mkVars, fss, rootdir, st, offset, clist, root, refs, kmutex>>

\* The first client may have been made anew, with mke2fs, before its mount
ClientMount ==
    /\ fss < dirs /\ fss' = fss + 1
    /\ rootdir' \in IF fss = 0 THEN {FALSE, rootdir} ELSE {rootdir}
    /\ UNCHANGED <<mkVars, dirs, st, offset, clist, root, refs, kmutex>>

\* A mount with a reference to it is busy
ClientUmount ==
    /\ fss > 0 /\ refs.mnt[fss] = 0
    /\ fss' = fss - 1
    /\ UNCHANGED <<mkVars, dirs, rootdir, st, offset, clist, root, refs, kmutex>>

MkRootDir ==
    /\ fss >= 1 /\ ~rootdir /\ rootdir' = TRUE
    /\ UNCHANGED <<mkVars, dirs, fss, st, offset, clist, root, refs, kmutex>>

\* The machine restarts: what was in memory is gone (after the oops of
\* read_root nothing else helps)
Reboot ==
    /\ st # "none"
    /\ fss' = 0 /\ st' = "none" /\ offset' = 0 /\ clist' = <<>> /\ root' = 0
    /\ refs' = NoRefs /\ kmutex' = 1
    /\ UNCHANGED <<mkVars, dirs, rootdir>>

Init ==
    /\ MkInit
    /\ dirs = 0 /\ fss = 0 /\ rootdir = FALSE
    /\ st = "none" /\ offset = 0 /\ clist = <<>> /\ root = 0
    /\ refs = NoRefs
    /\ kmutex = 1

Kernel ==
    \/ ReadPool \/ ReadDev \/ ReadChunk \/ ReadAll \/ ReadFails \/ ReadRoot \/ FillSuperReturns
    \/ WriteSuper \/ Committed \/ PutSuper

Userland ==
    \/ FillSuper \/ Umount \/ Mkdir \/ ClientMount \/ ClientUmount \/ MkRootDir \/ Reboot
    \/ st = "none" /\ (MkStep \/ Resize) /\ UNCHANGED mntVars

Next == Kernel \/ Userland

Spec == Init /\ [][Next]_vars

\* The kernel runs the task that mounts or unmounts
FairSpec == Spec /\ WF_vars(Kernel)

-----------------------------------------------------------------------------
(* Properties                                                              *)

\* The chunk list of a mounted file system is a run of chunks 1, 2, ... with
\* the root in chunk 1, although mkfs may have been killed, or run again over an
\* older and longer format.
ChunkListOK ==
    st \in {"root", "filled", "mounted"} =>
        /\ clist # <<>> /\ root = 1
        /\ \A i \in DOMAIN clist : clist[i].id = i

\* read_dev meets no second root chunk, and does not reach the end of the list
\* without one (it would free everything and report success), whatever killed
\* and repeated runs of mkfs left on the target.
RootFound == st # "bug"

\* A target that was formatted once cannot be mounted until mkfs has written
\* its last chunk: each summary points ahead to the one written after it.
WholeFormat ==
    st = "mounted" /\ formats = 1 => Len(clist) = chunk_id - 1 /\ ~Fits

\* A mount that fails and an unmount give back everything that was taken.
NothingHeld == st = "none" => refs = NoRefs

\* A client that read_client_sb found stays mounted as long as its chunk is in
\* the list ("locking XXX prevent unmount XXX ref count", super.c:97).
ClientPinned == \A i \in DOMAIN clist : clist[i].mnt <= fss

\* An unmount comes to its end.
UmountReturns == (st = "sync") ~> (st = "none")
=============================================================================
