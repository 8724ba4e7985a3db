-------------------------------- MODULE Namei --------------------------------
(***************************************************************************)
(* The names of one chunkfs directory in chunk 1: dentries and inodes of   *)
(* chunkfs, each with the client dentry or client inode under it, and the  *)
(* counts that keep them in memory (namei.c, inode.c, and the inode        *)
(* callbacks of super.c).  The VFS, the client file system and its caches  *)
(* are external; they are modelled as far as chunkfs relies on them.       *)
(*                                                                         *)
(* A pointer to an inode names it by its number or its place in memory.    *)
(* When the inode leaves memory the pointer dangles; when another inode    *)
(* takes its place, the old pointer becomes Gone.  The first use of such a *)
(* pointer is oops, after which only a restart is possible.                *)
(***************************************************************************)
EXTENDS Integers, FiniteSets

CONSTANTS
    Names,          \* file names in the directory
    Inos,           \* client inode numbers of chunk 1
    Dents,          \* memory for chunkfs dentries
    Objs,           \* memory for chunkfs inodes (chunkfs_inode_cachep)
    None, Gone,     \* the NULL pointer, a pointer to freed memory
    Calls,          \* the operations that are called
    MaxIdle,        \* bound on unused client dentries of one inode
    MaxDebt,        \* bound on how far a client inode's count is below 0
    MaxLife,        \* bound on the files that use one inode number in turn
    MaxLinks,       \* bound on calls of link between restarts
    MaxFaults       \* bound on failing client calls

ASSUME NamesAssumption ==
    /\ {None, Gone} \cap (Names \cup Inos \cup Dents \cup Objs) = {}
    /\ None # Gone
    /\ IsFiniteSet(Names)
    /\ Calls \subseteq {"create", "symlink", "mkdir", "mknod", "link", "unlink",
                        "open", "reclaim", "prune", "restart"}

ASSUME BoundAssumption ==
    {MaxIdle, MaxDebt, MaxLife, MaxLinks, MaxFaults} \subseteq Nat

VARIABLES
    \* the client's disk
    entry,      \* entry[n]: the inode number the client directory has for n
    nlink,      \* nlink[i]: link count of client inode i
    kind,       \* kind[i]: its type
    life,       \* life[i]: how many files have had the number i (history)
    linked,     \* the files that ever had a second name (history)
    next,       \* the inodes whose continuation data has a next pointer
    cont,       \* cont[i]: the lives of i that wrote to /chunk2/1/<i>
    \* chunkfs dentries
    dst,        \* "free", "hashed", or "dropped": deleted while in use
    dname,      \* d_name
    dinode,     \* d_inode
    dclient,    \* d_inode of the client dentry
    dleak,      \* the client dentry has references nobody will give back
    dopen,      \* the file is open
    \* chunkfs inodes
    icount,     \* i_count, 0 when the memory is free
    iclient,    \* ii_client_inode, not cleared when the memory is freed
    inlink,     \* i_nlink
    idirty,     \* inodes on the list for writeback
    \* the client's inode and dentry caches
    mem,        \* client inodes in memory
    count,      \* count[i]: i_count of client inode i
    idle,       \* idle[i]: client dentries of i that nobody uses
    stray,      \* there is an unused client dentry of an inode that is gone
    \* the rest
    dcount,     \* references to the directory's inode that link took
    oops,       \* the kernel has used a pointer to freed memory, or hit a BUG
    faults      \* failed client calls (history)

disk   == <<entry, nlink, kind, life, linked, next, cont>>
dentry == <<dst, dname, dinode, dclient, dleak, dopen>>
inode  == <<icount, iclient, inlink, idirty>>
client == <<mem, count, idle, stray>>
vars   == <<disk, dentry, inode, client, dcount, oops, faults>>

Kinds == {"reg", "dir", "lnk", "blk"}

\* p points to a client inode in memory; o is a chunkfs inode in use
Valid(p) == p \in mem
Live(o)  == o \in Objs /\ icount[o] > 0

\* Everything a call through dentry d goes through is in memory
Sound(d) == /\ Live(dinode[d]) /\ Valid(iclient[dinode[d]])
            /\ Valid(dclient[d])

Hashed(n) == {d \in Dents : dst[d] = "hashed" /\ dname[d] = n}

Free(d) == dst[d] = "free"

\* A client inode number that is free on disk
Unused(i) == nlink[i] = 0 /\ i \notin mem

Fault == faults < MaxFaults /\ faults' = faults + 1

\* The kernel stops, with b for a wild pointer or a BUG: of all that is in
\* memory nothing is used again
Stop(b) ==
    /\ dst' = [d \in Dents |-> "free"]
    /\ dname' = [d \in Dents |-> None]
    /\ dinode' = [d \in Dents |-> None]
    /\ dclient' = [d \in Dents |-> None]
    /\ dleak' = [d \in Dents |-> FALSE]
    /\ dopen' = [d \in Dents |-> FALSE]
    /\ icount' = [o \in Objs |-> 0]
    /\ iclient' = [o \in Objs |-> None]
    /\ inlink' = [o \in Objs |-> 0]
    /\ idirty' = {}
    /\ mem' = {}
    /\ count' = [i \in Inos |-> 0]
    /\ idle' = [i \in Inos |-> 0]
    /\ stray' = FALSE
    /\ dcount' = 0
    /\ oops' = b

-----------------------------------------------------------------------------
(* The client's inode cache (external): iget and iput                      *)

\* Pointers to an earlier use of the memory
Lost(f, x) == [y \in DOMAIN f |-> IF f[y] = x THEN Gone ELSE f[y]]

\* Client inode i is found in memory or read into it, and its count raised
GetClient(i) ==
    /\ mem' = mem \cup {i}
    /\ count' = [count EXCEPT ![i] = IF i \in mem THEN @ + 1 ELSE 1]
    /\ idle' = [idle EXCEPT ![i] = IF i \in mem THEN @ ELSE 0]
    /\ stray' = (stray \/ (i \notin mem /\ idle[i] > 0))

\* iput(i), with the link counts nl: the last user of a nameless inode frees
\* it; one with a name stays in the cache
PutClient(i, nl) ==
    /\ count[i] > -MaxDebt
    /\ count' = [count EXCEPT ![i] = @ - 1]
    /\ mem' = IF count[i] = 1 /\ nl[i] = 0 THEN mem \ {i} ELSE mem

\* copy_up_inode takes the head's client inode from the cache and puts it
\* back: that frees one that has no name and whose count is 0
CopyUpFrees(i, nl) == count[i] = 0 /\ nl[i] = 0

-----------------------------------------------------------------------------
(* chunkfs inodes                                                          *)

\* mark_inode_dirty: only a block special inode gets on the list for
\* writeback.  The VFS leaves out inodes that are not in its hash table, which
\* chunkfs inodes never are.
Dirty(o, k) == idirty' = IF k = "blk" THEN idirty \cup {o} ELSE idirty

\* Mutant of StartInode: the new inode's count is raised once more
StartInodeTwice(o, i, k, nl) ==
    /\ icount' = [icount EXCEPT ![o] = 2]
    /\ iclient' = [(IF Valid(i) THEN iclient ELSE Lost(iclient, i)) EXCEPT ![o] = i]
    /\ inlink' = [inlink EXCEPT ![o] = nl]
    /\ Dirty(o, k)

\* chunkfs_start_inode: client inode i is stored, its count left alone
StartInode(o, i, k, nl) ==
    /\ icount' = [icount EXCEPT ![o] = 1]
    /\ iclient' = [(IF Valid(i) THEN iclient ELSE Lost(iclient, i)) EXCEPT ![o] = i]
    /\ inlink' = [inlink EXCEPT ![o] = nl]
    /\ Dirty(o, k)

\* Mutant of CopyUp: fsstack_copy_attr_all leaves out the link count
CopyUpNoLinks(o, nl) == Dirty(o, kind[iclient[o]]) /\ UNCHANGED inlink

\* chunkfs_copy_up_inode: the link count nl comes with the attributes
CopyUp(o, nl) ==
    /\ inlink' = [inlink EXCEPT ![o] = nl]
    /\ Dirty(o, kind[iclient[o]])

\* Mutant of PutInode: the caller puts the inode as well
PutInodeTwice(o, nl) ==
    /\ icount' = [icount EXCEPT ![o] = @ - 2]
    /\ PutClient(iclient[o], nl)
    /\ UNCHANGED <<inlink, idirty>>

\* iput(o).  The last one evicts it, and chunkfs_clear_inode puts the client
\* inode.
PutInode(o, nl) ==
    /\ icount' = [icount EXCEPT ![o] = @ - 1]
    /\ IF icount[o] = 1
       THEN /\ PutClient(iclient[o], nl)
            /\ inlink' = [inlink EXCEPT ![o] = 0]
            /\ idirty' = idirty \ {o}
       ELSE UNCHANGED <<mem, count, inlink, idirty>>

-----------------------------------------------------------------------------
(* chunkfs_lookup                                                          *)

\* The dentry gets chunkfs inode o, its client dentry client inode i
Instantiate(d, o, i) ==
    /\ dinode' = [Lost(dinode, o) EXCEPT ![d] = o]
    /\ dclient' = [(IF Valid(i) THEN dclient ELSE Lost(dclient, i)) EXCEPT ![d] = i]

\* An inode the client can give out: one without links is not read from disk,
\* and copy_up_inode would free it
Readable(i) == nlink[i] > 0 \/ (Valid(i) /\ count[i] # -1)

\* init_dentry, clone_dentry, init_nd, add_dentry
NewDentry(n, d) ==
    /\ ~oops /\ Hashed(n) = {} /\ Free(d)
    /\ dst' = [dst EXCEPT ![d] = "hashed"]
    /\ dname' = [dname EXCEPT ![d] = n]
    /\ UNCHANGED <<dleak, dopen>>

\* The client has no such name: a negative dentry
LookupNothing(n, d) ==
    /\ entry[n] = None
    /\ NewDentry(n, d)
    /\ UNCHANGED <<disk, dinode, dclient, inode, client, dcount, oops, faults>>

\* The client finds inode i: new_inode, init_cont_data, start_inode
Lookup(n, d, o) ==
    LET i == entry[n] IN
    /\ i # None /\ icount[o] = 0 /\ Readable(i)
    /\ NewDentry(n, d)
    /\ GetClient(i)
    /\ next' = next \ {i}
    /\ StartInode(o, i, kind[i], nlink[i])
    /\ Instantiate(d, o, i)
    /\ UNCHANGED <<entry, nlink, kind, life, linked, cont, dcount, oops, faults>>

\* The client's lookup or a setxattr fails: d_fsdata is freed, and when the
\* VFS drops the dentry, release_dentry goes through it
LookupErr(n, d) ==
    /\ ~oops /\ Hashed(n) = {} /\ Free(d)
    /\ \/ Fault
       \/ entry[n] # None /\ ~Readable(entry[n]) /\ UNCHANGED faults
    /\ Stop(TRUE)
    /\ UNCHANGED disk

-----------------------------------------------------------------------------
(* chunkfs_create, symlink, mkdir, mknod: on a negative dentry             *)

KindOf == [create |-> "reg", symlink |-> "lnk", mkdir |-> "dir", mknod |-> "blk"]

Negative(d) == ~oops /\ dst[d] = "hashed" /\ dinode[d] = None

\* The client makes inode i of kind k for the name of d, and init_cont_data
\* gives it continuation data without a next pointer
ClientMakes(d, i, k) ==
    /\ dclient[d] = None /\ entry[dname[d]] = None
    /\ Unused(i) /\ life[i] < MaxLife
    /\ entry' = [entry EXCEPT ![dname[d]] = i]
    /\ nlink' = [nlink EXCEPT ![i] = 1]
    /\ kind' = [kind EXCEPT ![i] = k]
    /\ life' = [life EXCEPT ![i] = @ + 1]
    /\ linked' = IF \E n \in Names : entry[n] = i THEN linked \cup {i} ELSE linked \ {i}
    /\ next' = next \ {i}
    /\ UNCHANGED cont

Make(d, call) ==
    /\ Negative(d) /\ call \in Calls
    /\ \E i \in Inos, o \in Objs :
          /\ icount[o] = 0
          /\ ClientMakes(d, i, KindOf[call])
          /\ GetClient(i)
          /\ StartInode(o, i, KindOf[call], 1)
          /\ Instantiate(d, o, i)
    /\ UNCHANGED <<dst, dname, dleak, dopen, dcount, oops, faults>>

Create(d)  == Make(d, "create")
Symlink(d) == Make(d, "symlink")
Mkdir(d)   == Make(d, "mkdir")
Mknod(d)   == Make(d, "mknod")

\* The error path puts the new inode before chunkfs_start_inode has set its
\* ii_client_inode, which holds what the memory was last used for: old is that
\* pointer.  The counts are n, and got has just been read in.
PutUnstarted(old, got, n) ==
    /\ Valid(old) \/ old = None
    /\ count' = IF Valid(old) THEN [n EXCEPT ![old] = @ - 1] ELSE n
    /\ mem' = {i \in mem : ~(i = old /\ n[i] = 1 /\ nlink[i] = 0)} \cup got
    /\ \A i \in Inos : count'[i] >= -MaxDebt

\* Memory never used before may hold anything
Wild(old) == old = None \/ ~Valid(old)

\* The client refuses, or finds that it has the name (a creation that failed
\* half way left it)
Refused(d) ==
    /\ Negative(d) /\ Calls \cap DOMAIN KindOf # {}
    /\ \/ entry[dname[d]] = None /\ Fault
       \/ entry[dname[d]] # None /\ UNCHANGED faults
    /\ UNCHANGED disk

MakeErr(d) ==
    /\ Refused(d)
    /\ \E o \in Objs : icount[o] = 0 /\ PutUnstarted(iclient[o], {}, count)
    /\ UNCHANGED <<dentry, inode, idle, stray, dcount, oops>>

MakeErrBug(d) ==
    /\ Refused(d)
    /\ \E o \in Objs : icount[o] = 0 /\ Wild(iclient[o])
    /\ Stop(TRUE)

\* The client has made the file, then a setxattr fails: the file stays, the
\* dentry is still negative
MakeHalf(d) ==
    /\ Negative(d) /\ Fault
    /\ \E i \in Inos, o \in Objs, call \in Calls \cap DOMAIN KindOf :
          /\ icount[o] = 0
          /\ ClientMakes(d, i, KindOf[call])
          /\ PutUnstarted(Lost(iclient, i)[o], {i}, [count EXCEPT ![i] = 1])
          /\ idle' = [idle EXCEPT ![i] = 0]
          /\ stray' = (stray \/ idle[i] > 0)
          /\ iclient' = Lost(iclient, i)
          /\ dclient' = [Lost(dclient, i) EXCEPT ![d] = i]
    /\ UNCHANGED <<dst, dname, dinode, dleak, dopen, icount, inlink, idirty, dcount, oops>>

MakeHalfBug(d) ==
    /\ Negative(d) /\ Fault
    /\ \E i \in Inos, o \in Objs, call \in Calls \cap DOMAIN KindOf :
          /\ icount[o] = 0
          /\ ClientMakes(d, i, KindOf[call])
          /\ Wild(Lost(iclient, i)[o])
    /\ Stop(TRUE)

\* The client dentry of a negative dentry is still positive: the client adds
\* the name and d_instantiate hits a BUG
MakeBug(d) ==
    /\ Negative(d) /\ Calls \cap DOMAIN KindOf # {}
    /\ dclient[d] # None /\ entry[dname[d]] = None
    /\ Stop(TRUE)
    /\ UNCHANGED <<disk, faults>>

-----------------------------------------------------------------------------
(* chunkfs_link, unlink, rmdir.  chunkfs_rename only returns -ENOSYS.      *)

Positive(d) == ~oops /\ dst[d] = "hashed" /\ dinode[d] # None /\ Sound(d)

\* Link d's file under the name of the negative dentry e.  The count that is
\* raised is the directory's.
Link(d, e) ==
    LET i == dclient[d]
        o == dinode[d]
    IN
    /\ "link" \in Calls /\ dcount < MaxLinks
    /\ Positive(d) /\ nlink[i] <= MaxLinks /\ kind[i] # "dir" /\ inlink[o] > 0
    /\ Negative(e) /\ dclient[e] = None /\ entry[dname[e]] = None
    /\ entry' = [entry EXCEPT ![dname[e]] = i]
    /\ nlink' = [nlink EXCEPT ![i] = @ + 1]
    /\ linked' = linked \cup {i}
    /\ count' = [count EXCEPT ![i] = @ + 1]
    /\ dclient' = [dclient EXCEPT ![e] = i]
    /\ CopyUp(o, nlink[i] + 1)
    /\ dcount' = dcount + 1
    /\ dinode' = [dinode EXCEPT ![e] = o]
    /\ UNCHANGED <<kind, life, next, cont, dst, dname, dleak, dopen, icount, iclient,
                   mem, idle, stray, oops, faults>>

\* Mutant of Remove: an error of the client's unlink is not returned
RemoveAnyway(d) ==
    /\ "unlink" \in Calls /\ Positive(d) /\ ~dopen[d]
    /\ dinode' = [dinode EXCEPT ![d] = None]
    /\ PutInode(dinode[d], nlink)
    /\ UNCHANGED <<disk, dst, dname, dclient, dleak, dopen, iclient, idle, stray,
                   dcount, oops, faults>>

\* The client removes the name of the head and its link count is copied up;
\* then the VFS makes the dentry negative, or drops it if it is in use
Remove(d) ==
    LET i == dclient[d]
        o == dinode[d]
    IN
    /\ "unlink" \in Calls /\ Positive(d) /\ nlink[i] > 0
    /\ entry' = [entry EXCEPT ![dname[d]] = None]
    /\ nlink' = [nlink EXCEPT ![i] = @ - 1]
    /\ ~CopyUpFrees(i, nlink')
    /\ \/ /\ ~dopen[d]
          /\ dinode' = [dinode EXCEPT ![d] = None]
          /\ PutInode(o, nlink')
          /\ UNCHANGED dst
       \/ /\ dopen[d]
          /\ CopyUp(o, nlink[i] - 1)
          /\ dst' = [dst EXCEPT ![d] = "dropped"]
          /\ UNCHANGED <<dinode, icount, mem, count>>
    /\ UNCHANGED <<kind, life, linked, next, cont, dname, dclient, dleak, dopen, iclient,
                   idle, stray, dcount, oops, faults>>

Unlink(d) == Positive(d) /\ kind[dclient[d]] # "dir" /\ Remove(d)
Rmdir(d)  == Positive(d) /\ kind[dclient[d]] = "dir" /\ Remove(d)

-----------------------------------------------------------------------------
(* Calls on an inode or an open file, as far as they concern this module   *)

\* d's inode, client inode and client dentry can be used
Usable(d) == ~oops /\ ~Free(d) /\ dinode[d] # None /\ Sound(d)
             /\ ~CopyUpFrees(dclient[d], nlink)

\* Open.  chunkfs_open opens the client dentry and never closes that file; a
\* special file is opened by the VFS alone.
Open(d) ==
    LET i == dclient[d]
        o == dinode[d]
    IN
    /\ "open" \in Calls /\ Usable(d) /\ dst[d] = "hashed" /\ ~dopen[d]
    /\ kind[i] # "lnk"
    /\ dopen' = [dopen EXCEPT ![d] = TRUE]
    /\ \/ /\ kind[i] # "blk"
          /\ dleak' = [dleak EXCEPT ![d] = TRUE]
          /\ CopyUp(o, nlink[i])
       \/ /\ kind[i] = "blk"
          /\ UNCHANGED <<dleak, inlink, idirty>>
    /\ UNCHANGED <<disk, dst, dname, dinode, dclient, icount, iclient, client,
                   dcount, oops, faults>>

\* chunkfs_write past the end of the head: create_continuation finds or makes
\* /chunk2/1/<i>, and close_cont_file copies up its attributes, the one link
\* that it has included
Extend(d) ==
    LET i == dclient[d]
        o == dinode[d]
    IN
    /\ Usable(d) /\ dopen[d] /\ kind[i] = "reg" /\ i \notin next
    /\ next' = next \cup {i}
    /\ cont' = [cont EXCEPT ![i] = @ \cup {life[i]}]
    /\ CopyUp(o, 1)
    /\ UNCHANGED <<entry, nlink, kind, life, linked, dentry, icount, iclient, client,
                   dcount, oops, faults>>

\* chunkfs_setattr: the attributes of the head's client inode are copied up
Setattr(d) ==
    /\ "open" \in Calls /\ Usable(d) /\ kind[dclient[d]] # "lnk"
    /\ CopyUp(dinode[d], nlink[dclient[d]])
    /\ UNCHANGED <<disk, dentry, icount, iclient, client, dcount, oops, faults>>

\* chunkfs_write_inode: the link count goes down with the attributes
WriteInode(o) ==
    /\ ~oops /\ Live(o) /\ o \in idirty /\ Valid(iclient[o])
    /\ nlink' = [nlink EXCEPT ![iclient[o]] = inlink[o]]
    /\ idirty' = idirty \ {o}
    /\ UNCHANGED <<entry, kind, life, linked, next, cont, dentry, icount, iclient, inlink,
                   client, dcount, oops, faults>>

-----------------------------------------------------------------------------
(* The end of a dentry, and the caches                                     *)

\* Mutant of Kill: the dentry goes without its inode being put
KillNoPut(d) ==
    /\ dst' = [dst EXCEPT ![d] = "free"]
    /\ dname' = [dname EXCEPT ![d] = None]
    /\ dinode' = [dinode EXCEPT ![d] = None]
    /\ dclient' = [dclient EXCEPT ![d] = None]
    /\ dleak' = [dleak EXCEPT ![d] = FALSE]
    /\ dopen' = [dopen EXCEPT ![d] = FALSE]
    /\ UNCHANGED <<disk, inode, client, dcount, oops, faults>>

\* The VFS frees dentry d: iput, then chunkfs_release_dentry gives back the
\* references of the nameidata and of the dentry to the client dentry, which
\* stays in the client's cache
Kill(d) ==
    LET o == dinode[d]
        i == dclient[d]
    IN
    /\ \/ /\ o = None
          /\ UNCHANGED <<icount, inlink, idirty, mem, count>>
       \/ /\ Live(o) /\ (icount[o] = 1 => Valid(iclient[o]))
          /\ PutInode(o, nlink)
    /\ \/ /\ ~dleak[d] /\ i \in Inos /\ idle[i] < MaxIdle
          /\ idle' = [idle EXCEPT ![i] = @ + 1]
          /\ UNCHANGED stray
       \/ /\ dleak[d] \/ i \notin Inos
          /\ stray' = (stray \/ (~dleak[d] /\ i = Gone))
          /\ UNCHANGED idle
    /\ dst' = [dst EXCEPT ![d] = "free"]
    /\ dname' = [dname EXCEPT ![d] = None]
    /\ dinode' = [dinode EXCEPT ![d] = None]
    /\ dclient' = [dclient EXCEPT ![d] = None]
    /\ dleak' = [dleak EXCEPT ![d] = FALSE]
    /\ dopen' = [dopen EXCEPT ![d] = FALSE]
    /\ UNCHANGED <<disk, iclient, dcount, oops, faults>>

\* The VFS reclaims an unused dentry
Reclaim(d) == "reclaim" \in Calls /\ ~oops /\ dst[d] = "hashed" /\ ~dopen[d] /\ Kill(d)

\* The last close; a deleted file goes with it
Close(d) ==
    /\ ~oops /\ dopen[d]
    /\ \/ dst[d] = "dropped" /\ Kill(d)
       \/ /\ dst[d] = "hashed"
          /\ dopen' = [dopen EXCEPT ![d] = FALSE]
          /\ UNCHANGED <<disk, dst, dname, dinode, dclient, dleak, inode, client, dcount,
                         oops, faults>>

\* The client's cache drops an unused dentry of inode i, and puts the inode
ShrinkDentry(i) ==
    /\ "reclaim" \in Calls /\ ~oops /\ idle[i] > 0 /\ Valid(i)
    /\ idle' = [idle EXCEPT ![i] = @ - 1]
    /\ PutClient(i, nlink)
    /\ UNCHANGED <<disk, dentry, inode, stray, dcount, oops, faults>>

\* The same when the inode is gone
ShrinkBug ==
    /\ "reclaim" \in Calls /\ ~oops
    /\ stray \/ \E i \in Inos : idle[i] > 0 /\ ~Valid(i)
    /\ Stop(TRUE)
    /\ UNCHANGED <<disk, faults>>

\* The client's cache drops an inode with a count of 0
PruneInode(i) ==
    /\ "prune" \in Calls /\ ~oops /\ Valid(i) /\ count[i] = 0
    /\ mem' = mem \ {i}
    /\ UNCHANGED <<disk, dentry, inode, count, idle, stray, dcount, oops, faults>>

\* A call through a dangling pointer.  An unlink may also be the call that
\* frees the inode it goes on to use.
Crash(d) ==
    /\ ~oops /\ ~Free(d) /\ dinode[d] # None
    /\ \/ ~Usable(d)
       \/ /\ Usable(d) /\ "unlink" \in Calls /\ dst[d] = "hashed"
          /\ count[dclient[d]] = 0 /\ nlink[dclient[d]] = 1
    /\ Stop(TRUE)
    /\ UNCHANGED <<disk, faults>>

\* The machine is restarted: the disk is what is left
Restart ==
    /\ "restart" \in Calls
    /\ Stop(FALSE)
    /\ UNCHANGED <<disk, faults>>

-----------------------------------------------------------------------------
\* An empty directory, just mounted
Init ==
    /\ entry = [n \in Names |-> None]
    /\ nlink = [i \in Inos |-> 0]
    /\ kind = [i \in Inos |-> "reg"]
    /\ life = [i \in Inos |-> 0]
    /\ linked = {}
    /\ next = {}
    /\ cont = [i \in Inos |-> {}]
    /\ dst = [d \in Dents |-> "free"]
    /\ dname = [d \in Dents |-> None]
    /\ dinode = [d \in Dents |-> None]
    /\ dclient = [d \in Dents |-> None]
    /\ dleak = [d \in Dents |-> FALSE]
    /\ dopen = [d \in Dents |-> FALSE]
    /\ icount = [o \in Objs |-> 0]
    /\ iclient = [o \in Objs |-> None]
    /\ inlink = [o \in Objs |-> 0]
    /\ idirty = {}
    /\ mem = {}
    /\ count = [i \in Inos |-> 0]
    /\ idle = [i \in Inos |-> 0]
    /\ stray = FALSE
    /\ dcount = 0
    /\ oops = FALSE
    /\ faults = 0

DentryNext ==
    \E d \in Dents :
        \/ \E n \in Names : LookupNothing(n, d) \/ LookupErr(n, d)
        \/ \E n \in Names, o \in Objs : Lookup(n, d, o)
        \/ Create(d) \/ Symlink(d) \/ Mkdir(d) \/ Mknod(d)
        \/ MakeErr(d) \/ MakeErrBug(d) \/ MakeHalf(d) \/ MakeHalfBug(d) \/ MakeBug(d)
        \/ \E e \in Dents : Link(d, e)
        \/ Unlink(d) \/ Rmdir(d)
        \/ Open(d) \/ Extend(d) \/ Setattr(d) \/ Close(d)
        \/ Reclaim(d) \/ Crash(d)

Next ==
    \/ DentryNext
    \/ \E o \in Objs : WriteInode(o)
    \/ \E i \in Inos : ShrinkDentry(i) \/ PruneInode(i)
    \/ ShrinkBug \/ Restart

Spec == Init /\ [][Next]_vars

-----------------------------------------------------------------------------
\* Every variable has the values it is declared for.
NamesType ==
    /\ entry \in [Names -> Inos \cup {None}]
    /\ nlink \in [Inos -> Nat]
    /\ kind \in [Inos -> Kinds]
    /\ life \in [Inos -> 0..MaxLife]
    /\ linked \subseteq Inos /\ next \subseteq Inos
    /\ cont \in [Inos -> SUBSET (1..MaxLife)]
    /\ dst \in [Dents -> {"free", "hashed", "dropped"}]
    /\ dname \in [Dents -> Names \cup {None}]
    /\ dinode \in [Dents -> Objs \cup {None, Gone}]
    /\ dclient \in [Dents -> Inos \cup {None, Gone}]
    /\ dleak \in [Dents -> BOOLEAN] /\ dopen \in [Dents -> BOOLEAN]
    /\ icount \in [Objs -> Nat]
    /\ iclient \in [Objs -> Inos \cup {None, Gone}]
    /\ inlink \in [Objs -> Nat]
    /\ idirty \subseteq Objs
    /\ mem \subseteq Inos
    /\ count \in [Inos -> Int]
    /\ idle \in [Inos -> 0..MaxIdle]
    /\ stray \in BOOLEAN /\ dcount \in 0..MaxLinks
    /\ oops \in BOOLEAN /\ faults \in 0..MaxFaults

\* What the cache says of a name is true of the client's directory: a negative
\* dentry stands for a name that is not there, unless a creation failed half
\* way, and a positive one for a name of the inode that its client dentry has
\* (chunkfs_lookup, the creating calls, link and unlink each change both).
NameTruth ==
    \A d \in Dents : dst[d] = "hashed" =>
        \/ dinode[d] = None /\ (entry[dname[d]] = None \/ faults > 0)
        \/ /\ dinode[d] # None /\ entry[dname[d]] # None
           /\ dclient[d] \in {entry[dname[d]], Gone}

\* A file that never had a second name has one chunkfs inode, and with it one
\* lock on its list of continuations (chunkfs_i.h:51): nothing hashes chunkfs
\* inodes, so only the dentry keeps chunkfs_lookup from making another.
OneInode ==
    \A o, p \in Objs :
        (o # p /\ Live(o) /\ Live(p) /\ iclient[o] = iclient[p]) =>
            iclient[o] \in linked \cup {Gone}

\* i_nlink of a file with one name is that of its client inode, as long as no
\* continuation has been copied up over it ("Copy up inode takes care of link
\* counts", namei.c:339).
NlinkFresh ==
    \A o \in Objs :
        (Live(o) /\ Valid(iclient[o]) /\ iclient[o] \notin linked
           /\ cont[iclient[o]] = {}) => inlink[o] = nlink[iclient[o]]

\* The client's link counts are the number of names, although
\* chunkfs_write_inode copies i_nlink down: only a special file with a second
\* name can lose or gain a link, and with it its number to another file.
NamesCounted ==
    \A i \in Inos : (i \notin linked \/ (kind[i] # "blk" /\ life[i] = 1)) =>
        nlink[i] = Cardinality({n \in Names : entry[n] = i})

\* The dentries of a file that never had a second name hold its inode: its
\* count is their number.
InodesHeld ==
    \A o \in Objs : (Live(o) /\ iclient[o] \notin linked \cup {Gone}) =>
        icount[o] = Cardinality({d \in Dents : dinode[d] = o})

\* What a dentry points to stays in memory: its inode, the client inode under
\* that ("Head client inode - keeps our inode state", chunkfs_i.h:49), and the
\* inode of the client dentry, without which a negative dentry cannot "be
\* easily converted" into a positive one (namei.c:114).
Held ==
    \A d \in Dents :
        /\ dinode[d] # None => Live(dinode[d]) /\ Valid(iclient[dinode[d]])
        /\ dclient[d] # None => Valid(dclient[d])

\* A continuation that a file is linked to holds only what was written to
\* that file.
OwnData == \A i \in next : cont[i] \subseteq {life[i]}
=============================================================================
