# Chunkfs in TLA+

Chunkfs is a Linux file system built on top of other ("client") file systems.
A device is divided into chunks, each of which holds one client file system. A
chunkfs file starts in one chunk; when it outgrows the arbitrary length of its
part, a *continuation* is created in the next chunk and the two client inodes
are linked with forward and back pointers. This directory models the parts of
chunkfs that carry state of their own, checks them with TLC and proves, with
TLAPS, every invariant that the passing runs check and the refinement of a flat file.

## The system

| Component | State | Operations | Module |
|---|---|---|---|
| Continuation list (`cont.c`, `chunkfs_i.h`) | four xattrs of every client file (`next`, `prev`, `start`, `len`), the list lock in the chunkfs inode | get_next_cont, get_cont_at_offset, get_next_inode, create_continuation, init_cont_data | `ChunkFile`, `Uino` |
| File operations (`file.c`) | `f_pos`, the client file of a call | open, read, write (also pread, pwrite, O_APPEND), llseek, fsync, setattr | `ChunkFile` |
| Inode copy-up (`inode.c`) | size, attributes and link count of the chunkfs inode | copy_up_inode, new_inode, start_inode, write_inode | `ChunkFile` (sizes), `Namei` (link counts) |
| Name space (`namei.c`, `dir.c`, `symlink.c`) | dentries with client dentries and nameidata | lookup, create, symlink, mkdir, mknod, link, unlink, rmdir, release_dentry | `Namei`; `ChunkFile` for the continuation data that create and lookup reset |
| mkfs (`mkfs.chunkfs.c`) | pool, device and chunk summaries on the target | one write per summary | `Mkfs` |
| Mount (`super.c`) | pool, device and chunk lists in memory, references, the global mutex | fill_super, write_super, put_super | `Mount` |
| fsck (`fsck.chunkfs.c`), scripts, `write_pattern.c` | - | - | not modelled |

The components interact through calls (file operations call the list, the list
calls the clients), through the xattrs on the clients' disks, which outlive the
kernel's memory, and through the client inode cache, which the code uses behind
the clients' back (`iget_locked` in `get_next_inode`). What is hard:

* `get_cont_at_offset` and `fsync` walk the list under `ii_continuations_lock`;
  `create_continuation` and `copy_up_inode` walk and change it without;
* a continuation is published by eight separate setxattrs on two file systems,
  and the machine may stop between any two, or any of them may fail;
* a lookup of an existing file resets its continuation data;
* positions are converted to a part's own and back, once more often in one
  direction than in the other;
* the counts that keep a client inode in memory are taken by one layer and given
  back by another, on error paths too, and inode numbers are used again;
* mkfs computes in unsigned words, writes block by block, and may be killed and
  repeated.

`PROJECT.json` lists the hazards at their source lines, with the properties that
cover them.

## Modules

* `Uino` - the macros that pack chunk id and inode number into one number.
* `ChunkFile` - one regular file used by concurrent tasks.
* `FlatFile` - what such a file promises to look like: a sequence of blocks that
  a write that works changes once, at one instant, and a read returns a piece of.
* `FlatView` - the refinement mapping from `ChunkFile` to `FlatFile`.
* `MCChunkFile` - the constants of the TLC instances of `ChunkFile`.
* `Mkfs` - mkfs.chunkfs; `Mount` - mounting what it wrote (extends `Mkfs`);
  `MCMount` - the TLC instances.
* `Namei` - the names, dentries, inodes and counts of one directory; `MCNamei` -
  its TLC instances.
* `UinoProofs`, `ChunkFileProofs`, `OneWriterProofs`, `SizeProofs`, `FlatProofs`,
  `NameiProofs`, `MkfsProofs`, `MountProofs` - the theorems.

### ChunkFile

A part is named by its chunk: the head is in chunk 1, and the continuation of
the part in chunk k is the client file `/chunk<k+1>/<k>/<ino>`, so the path that
`get_next_cont` builds resolves exactly when the next pointer leads to chunk
k + 1 and the file was created (`PathOK`). Positions count blocks (4096 bytes).

| Variables | Code |
|---|---|
| `xattr`, `made`, `data`, `dirty`, `cattr` | the clients' disks: attributes, existing files, contents, unsynced parts, mode/owner/times |
| `cached` | client inodes in the inode cache. The files opened by chunkfs are never closed, so nothing leaves it before a restart |
| `isize`, `iattr`, `hashed`, `lock` | the chunkfs inode, its dentry, `ii_continuations_lock` |
| `pc`, `call`, `fpos`, `ppos`, `part`, `cd`, `fld`, `sum`, `res` | per task: place, system call, `f_pos`, `*ppos`, the continuation held (`prev_cont`/`next_cont`) and its loaded data, the next xattr to write, `total_size`, the result |
| `owed`, `wend`, `faults` | history: what a pending fsync owes, the end of the data, failed client calls |

A system call is a sequence of atomic steps, cut where another task may get in
between with an effect: taking the lock, each `get_next_cont`, the creation of
the client file, each setxattr, the load of the new part, the client's read or
write, and each step of the sum in `copy_up_inode`.

| Actions | Code |
|---|---|
| `Open Read Pread Write Pwrite Fsync Seek Close Setattr` | entry of the call from the VFS, with its position (`call.at`: f_pos or the argument) and O_APPEND |
| `Lock WalkOn WalkFound WalkNoOpen WalkEnd WalkErr` | `get_cont_at_offset` and `open_cont_file`, with `copy_down_file` |
| `TailOn TailEnd TailErr Create CreateErr SetNew SetPrev SetErr LoadNew LoadNewErr` | `create_continuation` |
| `ReadClient WriteClient ClientErr` | the client's read and write; the client of a full chunk (`MaxPart`) refuses a write |
| `SumStart SumOn SumEnd` | `close_cont_file`: `copy_up_file`, `copy_up_inode`; return to the VFS |
| `SyncOn SyncLost SyncEnd SyncErr` | `fsync_file` |
| `Evict Restart Lookup LookupErr` | the dentry is dropped; the machine restarts; `chunkfs_lookup` |

Every client call may fail (`Fault`, at most `MaxFaults` times): open, create,
setxattr, read, write and fsync, and also the reads of what is there, the getxattrs of
`load_continuation` and `get_next_inode` (`Enodata`, `LoadNewErr`, `SumEnd`) and the
`kern_path` of a part (`Enoent`, which the code makes of any error). Without a fault they
fail only when the attribute or file is missing.

Two points the code leaves undefined are nondeterministic, and a third does not come up.
`next_cont` in `get_cont_at_offset` is uninitialized when the head fails to load: if it
happens to be NULL the error becomes -ENOENT, so a read reports the end of the file and a
write goes on to `create_continuation` (`Nowhere`, `WalkEnd`), else the error is returned
(`WalkErr`). `new_cont` is uninitialized after a failed `load_continuation`: the task dies
or returns the error (`LoadNewErr`). The inode that `iget_locked` returns when it is not
cached is blank (`SizeOf`); `ReachCached` says that this does not happen.

Left out: the leaked references to continuations and client files (except for
their effect on `cached`), short writes, one open file shared by tasks, running out of
memory, directories. fsync passes the client a `struct file` on the stack in which only
`f_dentry` and `f_inode` are set (file.c:235-252); the model takes that call to work or
to return an error, as it does for a client that looks at nothing else in it.
The four attributes are read back in one step. After a restart the clients hold
what they were told to write, in order: losses and reordering in the clients'
own caches are not modelled.

### FlatFile

`FlatFile` keeps the content of the file, the calls in progress, the tasks whose read or
write has taken effect (`done`), and `f_pos`. `Put` and `Get` happen at most once in a
call. A write returns its result only after `Put` (`Worked`); without it, it can only
return an error, and only from a position past the last chunk (`NoSpace`). A read returns
what `Get` got, or nothing if it was called at or after the end of the file (`AtEof`).
`f_pos` changes in three ways: `Move` (lseek, close), `Reposition` (a pread or pwrite that
has taken effect moves it to the call's position) and `Worked`, where a read or write
without a position leaves it past the blocks transferred but relative to their part
(`at % PartLen`). The last two are deviations of the code (see below); they are in the
specification so that it says exactly what is left of the promise. `FlatView` maps `done`
to the tasks that are past the client's read or write and not yet back.

### Namei

One directory in chunk 1, its files, and what is in memory for them. Pointers
are the subject: an inode is named by its number (client) or its place in memory
(chunkfs), a pointer dangles when what it names is no longer in `mem` or has
`icount` 0, and becomes `Gone` when the place is used for another inode.

| Variables | Code |
|---|---|
| `entry nlink kind next cont` | the client's disk: directory, link counts, types, which heads have a next pointer, whose data is in the continuation `/chunk2/1/<ino>` |
| `dst dname dinode dclient dleak dopen` | a chunkfs dentry, the inode of its client dentry, whether `open_cont_file` has leaked a reference to that, whether the file is open |
| `icount iclient inlink idirty` | a chunkfs inode: `i_count`, `ii_client_inode` (left as it was when the memory is freed), `i_nlink`, on the writeback list |
| `mem count idle stray` | the client's caches: inodes in memory, their counts, unused dentries (of inodes that are gone: `stray`) |
| `dcount oops` | references to the directory taken by `link`; the kernel has stopped |
| `life linked faults` | history |

| Actions | Code |
|---|---|
| `LookupNothing Lookup LookupErr` | `chunkfs_lookup`: not there, found, failed |
| `Create Symlink Mkdir Mknod` | the four creating calls, which differ in the client call and the kind; `MakeErr` (the client refuses) and `MakeHalf` (a setxattr fails after it) are their error paths, `...Bug` the cases that end in a wild pointer or a BUG |
| `Link Unlink Rmdir` | each with the VFS's part: dentry made negative, or dropped when in use |
| `Open Extend Setattr Close WriteInode` | calls on a file as far as they touch counts and link counts; `Extend` is a write that makes a continuation |
| `Reclaim` | the VFS frees a dentry: `iput`, `chunkfs_clear_inode`, `chunkfs_release_dentry` |
| `ShrinkDentry ShrinkBug PruneInode` | the client's caches let go of what nobody uses |
| `Crash Restart` | a call goes through a dangling pointer; the machine restarts |

External, and modelled from how chunkfs uses them: the VFS's rules (a creation
needs a negative dentry, an unlink a positive one, a deleted file in use loses its
dentry from the hash), `iget` and `iput` of the client, `d_instantiate`'s BUG on a
positive dentry, and that the VFS queues only hashed inodes and block special ones
for writeback. After `oops` nothing in memory is used again, so it is cleared at
once. The disk survives in the order of the calls. The link count of the directory
itself is left out.

### Mkfs and Mount

`Mkfs` has one action per write of a summary. The size comes from `fstat`, which
gives 0 for a block device; sizes wrap at `Word`. mkfs may be killed anywhere and
run again after a resize of the image. `Mount` reads the summaries back step by
step, counts the allocations, buffers and client mounts taken and released, and
keeps the count of `chunkfs_kernel_mutex`. `fill_super` unlocks this mutex without
holding it, which is undefined: the constant `DebugMutex` selects one of the two
outcomes that kernel builds produce (the count is incremented, or set to 1).
Userland's directories and client mounts come up in order, as in `test.sh`, which makes
`/chunk1/root` some lines after it mounts the client (test.sh:77-84): a client may be
mounted and not have it yet, or have it from before (`rootdir`). A mount then finds no
root directory, the error path of `read_root` goes through the NULL `s_root` (super.c:445),
and only a `Reboot` helps, which may also come at any other point after `fill_super` began. References to client mounts are
counted per mount (`refs.mnt`; number 0 is the file system under the directories):
`read_client_sb` takes one for each chunk, `read_root` one more for the root dentry,
and userland can unmount only a client that has none.

## Runs

Passing:

| Run | Question |
|---|---|
| `one_writer` | A continuous writer and a reader, at f_pos or with pread and pwrite, 3 chunks: is data ever cut off (`ForwardLinked`), does every call reach the right part and position (`RightPart`), does fsync reach every dirty part (`FsyncFansOut`)? |
| `racing` | Two tasks writing anywhere, evictions, restarts, one failing client call: are the links well formed (`ChainOK`), all reachable inodes cached (`ReachCached`), and does every client write go through a continuation that was loaded (`NoWildCont`)? |
| `faulty` | One task, every call, O_APPEND, writes across the end of a part, full clients, two failing client calls, evictions, restarts: types (`TypeOK`); reads and writes go through loaded continuations, at the offset asked for, and no more tasks die of an uninitialized one than calls have failed (`NoWildCont`); i_size is the sum of the parts between calls until a call fails (`SizeSettles`) |
| `flat` | Does the list implement `FlatFile` (`FlatSpec`), for a writer and a reader that uses read, lseek and pread? |
| `live` | Two racing tasks and one failing client call, which takes every error exit of the walks: is the lock given back (`LockReleased`), does every call past the lock return, or its task die of an uninitialized continuation (`CallReturns`)? |
| `names` | Two names, one inode number that two files use in turn, all calls, reclaim in any order, one failing client call, restarts: are dentries true to the client's directory (`NameTruth`); has a file one inode and so one list lock (`OneInode`), held by its dentries (`InodesHeld`), with the right link count in memory (`NlinkFresh`) and on disk (`NamesCounted`)? A second name, a failed creation and a continuation copied up are excepted where the code breaks the property; each exception is in the formula |
| `format` | mkfs on a file or block device of every size 0..16, twice, killed anywhere; then mounts and unmounts, with and without a root directory on the first client, and restarts: chunks in place and inside the target (`ChunksInPlace`, `ChunksFit`), the list read back is chunks 1, 2, ... with root 1 (`ChunkListOK`, `RootFound`), a first format mounts only when whole (`WholeFormat`), references are released (`NothingHeld`), a client in the list cannot be unmounted (`ClientPinned`), an unmount ends if the kernel's mutex counts (`UmountReturns`) |

Violated, each by what the code does against what the repository says (the
quotations are in `PROJECT.json`):

| Run | What happens |
|---|---|
| `lookup_unlinks` | a lookup of an existing file cuts off its continuations (namei.c:292) |
| `unlocked_create` | two writers race in create_continuation and one's data is cut off (cont.c:376) |
| `position` | after I/O in a continuation f_pos is relative to it (file.c:56) |
| `counts` | create and unlink free the client inode that the client dentry still points to (inode.c:109) |
| `reuse` | a new file with the inode number of a deleted one gets its continuation (namei.c:362) |

Known deviations that the models show and no run of its own checks:

* *files.* I/O in a continuation replaces the file's mode, owner, times and link
  count by the continuation's (file.c:111, although the head "keeps our inode
  state"); a write that crosses the end of a part is stored in it whole, beyond its
  `len` (file.c:186); a truncate reaches only the head (file.c:269); the errors of
  set_cont_data are ignored (cont.c:417); pread and pwrite move f_pos to their position
  (file.c:110, `Reposition` in `FlatFile`); O_APPEND is given to the client of the part
  that f_pos is in, so the data goes to the end of that part and not of the file
  (file.c:87).
* *names.* `Held` fails in more ways than `counts` shows: create, reclaim, lookup and
  a shrink of the client's caches (the second chunkfs inode puts a reference it never
  got), and create, lookup of another name, link and reclaim (`link` raises the count
  of the directory, namei.c:345). A name that was unlinked and is created again runs
  into d_instantiate's BUG, because the client dentry is still positive. A failed
  lookup frees `d_fsdata` that release_dentry then uses (namei.c:315). A failed
  creation puts an inode whose `ii_client_inode` is left from another file
  (namei.c:227). After one of its names was reclaimed a file with two names has two
  chunkfs inodes, two list locks, and for block special files two link counts, the
  stale one of which write_inode may copy down (inode.c:173).
* *format and mount.* On a block device `st_size` is 0, the end of the device wraps
  and mkfs runs until a write fails (mkfs.chunkfs.c:165); for one size of the target
  the last chunk points to one that is not written, as the test for the pointer is one
  byte more generous than that of the loop (mkfs.chunkfs.c:123), and the pool does not
  mount; the device description in the pool is cleared before it is written
  (mkfs.chunkfs.c:73). A mount whose first client is not mounted, or has no root
  directory yet, ends in an oops (super.c:421, 445). With `DebugMutex` = TRUE `UmountReturns` fails: a debugging
  kernel's unlock sets the mutex to free whatever its count was, fill_super then locks
  it, and write_super waits for ever (super.c:502).

**Bounds.** Three chunks are the least with a middle part (a link that is both
set and followed), and two tasks the least that race; `CLen` is 1 block except
where a position inside a part matters (`flat`: 2). `MaxPos`
reaches past the last chunk where running out of chunks is of interest.
`Continuous` confines writes to the end of what is written, as the comment of
create_continuation asks ("be sure to write continuously"); without it a file has
holes and f_pos (see `position`) takes writers anywhere, which `racing` wants.
Two faults reach a failure followed by another on the repair path (`faulty`); one is
enough for every error exit with two tasks (`racing`, `live`). `MaxPos` is 1 in `live`, the
position of the second and last part, and 2 in `faulty` and `racing`, that of the last of
three. The symmetry in `racing` is over the tasks, that in `flat` over the contents of blocks, which no property
tells apart. `MaxPart` bounds what O_APPEND could otherwise grow for ever. In `racing` it
is `CLen`, as the links do not depend on what the clients hold: a misplaced write is refused
there and stored in `faulty`. `racing` and `flat` give continuations the mode of the head,
which none of their properties looks at. For `format`, blocks of
2 bytes and chunks of 4 let sizes 0..16 range over every residue and up to two
chunks, the wrapped sizes 0 and 1 included; `MaxFile` stands for the largest file.
`MaxFormats` = 2 is a format over an older one.
For `names`, two names are the least for a link, three dentries let a dropped one
stay beside both, one inode number makes every creation after an unlink a reuse
(`MaxLife` = 2), and two places for chunkfs inodes the least for two of one file.
`MaxIdle`, `MaxDebt`, `MaxLinks` and `MaxFaults` are 1: a second unused dentry, a
count 2 below, or a third name add no new kind of pointer. `counts` and `reuse` use
the same instance with two dentries. The symmetry is over names, inode numbers,
dentries and places in memory, which the code treats alike.

**Fairness.** `FairSpec` of `ChunkFile` asks for weak fairness of each task's
steps inside a call: a runnable task is scheduled. It is not assumed that a task
gets the mutex when others keep taking it, so `CallReturns` starts past the lock. No
fairness is asked of the choice between a client call that works and one that fails, and a
task that follows `new_cont` uninitialized may die: `CallReturns` admits that end, and only
after the one fault.
`FairSpec` of `Mount` asks the same of the one task that mounts or unmounts.

## Proofs

Every invariant of a passing run and the refinement `FlatSpec` are theorems, for every
value of the constants that satisfies the named assumptions. The assumptions are those of the modules:
`SpaceAssumption` (the two fields of a uino are not empty), `TaskAssumption`,
`ChunkAssumption` (at least one chunk, fewer than the chunk field of a uino can name),
`InputAssumption` (sizes and lengths are natural numbers), `ResultAssumption` (an error is
not a sequence of blocks), `NamesAssumption` and
`BoundAssumption` (a directory has finitely many names, no name or inode is the null
pointer, the bounds are natural numbers), `SizeAssumption` (a chunk is a whole number of
blocks, at least two, and the largest file is well below the wrap of a word) and
`MountAssumption`. TLC evaluates all of them in the runs.

| Module | Theorems | Under |
|---|---|---|
| `UinoProofs` | `UinoRoundTrip`, `UinoNotZero`: the packing of chunk and inode numbers is invertible and never 0 | both numbers fit their fields, which the code does not check: more than 15 chunks alias |
| `ChunkFileProofs` | `Inductive` (`IInv`); `TypeOK`, `ChainOK`, `NoWildCont`, `ReachCached` | - |
| `OneWriterProofs` | `ChainInductive` (`ChainInv`); `ForwardLinked`, `FsyncFansOut` | `OneWriter` |
| | `AimInductive` (`AimInv`); `RightPart` | `OneWriter`, `Sequential` |
| `SizeProofs` | `SizeInductive` (`SizeInv`); `SizeSettles` | `OneTask` |
| `FlatProofs` | `FlatInductive` (`FlatInv`), `PosInductive` (`PosInv`); `FlatCorrect`: `Spec` implements `FlatSpec` | `OneWriter`, `Sequential`, `Blockwise` |
| `NameiProofs` | `NameiInductive` (`NameiInv`); `NamesType`, `NameTruth`, `OneInode`, `NlinkFresh`, `NamesCounted`, `InodesHeld` | - |
| `MkfsProofs` | `MkStepInv`: every step of mkfs keeps `MkInv`; `InvInPlace`, `InvFit` | - |
| `MountProofs` | `MountInductive` (`MountInv`); `ChunksInPlace`, `ChunksFit`, `ChunkListOK`, `RootFound`, `WholeFormat`, `NothingHeld`, `ClientPinned` | - |

The four hypotheses are about how the file is used, and the code does not work
without them. `OneWriter` (at most one task writes, with any number of readers and
fsyncs; no dentry is evicted; no client call fails): `unlocked_create` shows data cut
off by a second writer and `lookup_unlinks` by an eviction. `Sequential` (the writer
leaves no holes and a client takes no more than `CLen` blocks of a part):
create_continuation adds one part and asks for continuous writes, and a client with
room takes a crossing write whole. `OneTask` (evictions, restarts and failing calls are allowed): the sum
of copy_up_inode is made without the lock, and a second task can make it stale before
it is stored. `Blockwise` (writes of one block, parts whose client has room for exactly
`CLen` blocks, no setattr): a truncate only reaches the head and leaves the other parts
behind, and a write of several blocks that crosses the end of a part goes to that
part's client alone, which takes it past the part's length or refuses it. The constants of `one_writer`
satisfy the first two, those of `faulty` the third and those of `flat` the first two and the
last.

The inductive invariants were checked by TLC on the runs' instances before they were
proved. Each proof has one step or lemma per action.

* `IInv`. `ChainOK` is not inductive: a task in create_continuation writes what it
  read many steps ago. What makes that harmless: prev, start and len of a part
  are functions of its chunk, whoever writes them and however often (`FieldsOK`); a
  link leads from a complete part to one that exists and, unless a client call
  failed, is complete (`LinksOK`); a continuation a task holds has such data, with a
  next that may be out of date but still leads to such a part (`HeldOK`); the part a
  task is about to link exists, is cached, and has all the attributes already
  written in the task's sequence (`TaskOK`); everything reachable from the head is
  cached (`Fresh`); and positions are natural numbers wherever they are stored in
  f_pos (`PosOK`). The count in `NoWildCont` needs a second invariant on top (`CountInv`):
  the tasks that died, and those whose new part will not load (`Doomed`), are no more than
  the failed calls, since a task writes all the attributes of a part before it loads it,
  whatever others left there, and nobody takes one away.
* `ChainInv` (given `IInv`). The links make one chain from the head (`Prefix`) that
  holds all data and dirty pages (`InChain`). It only grows, so a walk that read a
  link can rely on it later (`OnChain`); only the writer makes it grow, so what the
  writer read of the last part is still true when it adds one, although it no longer
  holds the lock (`Owner`); and what an fsync owes lies ahead of it, never behind
  (`Ahead`).
* `AimInv` (given both). The end of the data is inside the chain or just after it, so
  one new part is enough (`Within(wend)`). A walking call has passed only parts before
  its offset, a call that gives up the walk has an offset past all parts, and a call
  that creates a part needs exactly the next one (`Aimed`).
* `SizeInv` (given `IInv`). `i_size` is `Total` from the end of one sum to the next
  change of the file, not only between calls, and the running sum is that of the parts
  passed. `Total` ends a recursive function (`SizeTo`). That this function satisfies
  its own equation is proved from the least-number principle (`LeastNat`), which
  follows from the well-foundedness of < without an operator parameter.
* `FlatInv` (given `IInv`, `ChainInv` and `AimInv`). The parts are filled one after the
  other up to the end of the data (`Filled`); a call has the arguments it was made with
  and returns nothing before a client has answered (`InCall`); a read whose walk finds no
  part was called at or after the end of the file, because the list it saw end was at least
  as long as the file at the call (`NotBefore`). `PosInv` is about positions: `f_pos` stays
  where the call began, and `ppos` is past the blocks transferred, relative to the part
  (`AtPos`). The mapping
  collects the contents with a recursive function (`From`) over the chain; with `Filled`
  it has a closed form (`FlatSeq`, lemma `ContentIs`), again by the least-number principle.
  It depends on data and links only through what is stored, so creating and linking a
  part is invisible; a client's write is `Put`, its read `Get`, the copy of
  the position after the call invisible or `Reposition`, and the end of the sum `Worked`.
  One simulation lemma per group of actions (`SimEnter`, `SimWalk`, `SimCreate`,
  `SimClient`) says so.
* `NameiInv`. The client dentry and the chunkfs inode of a dentry name the same client
  inode (`Paired`); a name is cached once (`Unique`); a file with one name has one
  dentry and one reference (`Sole`), and none once it was deleted while open
  (`Nameless`): these four make `OneInode` and `NameTruth` inductive. `Fresh` is
  `NlinkFresh` with block special files added, which have no continuations; together
  with `DirtyBlk` (only these wait for write_inode) it shows that what write_inode
  copies down is right, and so `NamesCounted`. Counting names uses the library's
  theorems about cardinality.
* `MkInv` and `MountInv`. Every summary on the target is as mkfs writes it and in a
  place of its kind, whichever run wrote it (`AllWritten`): chunks of two formats
  have the same grid. While mkfs runs, `chunk_id` and the offset it has got to agree
  (`Loop`); the chunks of a first format are those before that, and each fits
  (`OneFormat`). A mount's list is
  1, 2, ... and its offset that of the next chunk (`Listed`); memory, buffers and client
  mounts held are exactly those reachable from the superblock, counted per mount
  (`Accounted`), which is what `NothingHeld` and `ClientPinned` need; the list ends
  where a first format ended (`Whole`).

Only model-checked: the liveness properties `LockReleased`, `CallReturns` and
`UmountReturns`: they need fairness and ENABLED, which are out of the prover's reach.

## Not modelled

* `fsck.chunkfs.c` is an early copy of mkfs that the Makefile does not build and
  that no longer compiles; it checks nothing.
* The scripts and `write_pattern.c` set up and exercise the system; their effect is the
  environment of `Mount`. `cross.sh` gives debugfs a path where `testi` wants an inode
  number, so it removes every continuation, orphan or not: there is no check in it
  to model.
* `chunkfs_rename` (returns -ENOSYS), readdir, readlink and follow_link, permission,
  the copies between nameidata: they change no state of chunkfs. `chunkfs_iget` has no
  caller.
* Running out of memory, several pools sharing `chunkfs_kernel_mutex`, clients that
  reorder or lose writes, and more than one directory.

## Plan

1. *(done)* `Uino`, `ChunkFile`, `FlatFile`/`FlatView`, `Mkfs`, `Mount`, `Namei`; the
   runs above.
2. *(done)* Proofs of all the invariants that the passing runs check.
3. *(done)* The step simulation of `FlatSpec`, on top of `AimInv`.
4. Several pools; clients that reorder writes across chunks.
