# TLA+ models of the xv6 file system engine

This directory holds TLA+ models of the file-system core of this kernel
(`src/kernel/fs.c`, `sysfile.c`, `file.c`), the TLC configurations that
check them, and `PROJECT.json`, which maps every model definition to the source
lines it translates and lists the runs, mutants, findings and hazards.

## The system and its parts

| Part | Source | Model |
|---|---|---|
| Inode cache: `iget`, `idup`, `ilock`, `iunlock`, `iput`, `ialloc`, `iupdate` | fs.c 175-413 | `InodeCache` (partly) |
| Path resolver: `skipelem`, `namex`, `namei`, `nameiparent` | fs.c 720-795 | `PathName` (parsing and the element loop, pure); `InodeCache` (one-element paths) |
| Directory layer: `dirlookup`, `dirlink` (with its `last_inum` cache), `isdirempty` | fs.c 639-703, sysfile.c 209-224 | `Directory`, refining `DirNames`; `dirlookup` as a set of names in `InodeCache` |
| Block allocator and content: `balloc`, `bfree`, `bmap`, `itrunc`, `readi`, `writei`; the log's commit and crash recovery (from the spec) | fs.c 51-104, 424-626 | `InodeContent`, refining `FileContent` |
| System calls: `sys_open`, `create`, `sys_unlink`, `sys_link`, `sys_mkdir`, `sys_chdir`, `sys_chmod`, `sys_symlink`, `sys_readlink`, `link_dereference`, ... | sysfile.c | `InodeCache`: open, open with O_CREATE, create, unlink; `Directory`: create, mkdir, link, unlink of files and directories; `FileTable`: `get_fd`, dup, close, read, write, writev, lseek |
| File table: `filealloc`, `filedup`, `fileclose`, `filestat`, `fileread`, `filewrite`, `fileseek` | file.c | `FileTable`; `filewrite`'s chunks, committed by the log, in `InodeContent`; `filestat`'s lock and unlock in `InodeCache` |
| Console: input ring buffer, `cprintf`, `panic` | console.c | `ConsoleInput`, refining `ConsoleLine`; `ConsoleOutput` (`cprintf`'s conversions and `printint`, pure); `panic`'s halt in `InodeContent` |
| User library: `atoi`, `getenv`, `atexit`/`exit`, `strtoll`, directory helpers, `malloc` | userspace/ulib.c, umalloc.c | `UserLib` (`atoi`, `getenv`, `atexit`/`exit`, pure); `strtoll`, the directory helpers and `malloc` not modelled |
| Traps, boot, process calls | trap.c, main.c, sysproc.c, init.c | not modelled: dispatch to code outside this tree |

How they interact: a system call resolves a path (`namex`), which takes
references on cached inodes (`iget`/`idup`) and locks and unlocks them
(`ilock`/`iunlock`) while it looks names up (`dirlookup`). The call then works
on the inode it found and drops references with `iput`. `iput` frees an inode
on disk when its link count is zero and it holds the last reference. The file
table keeps one reference per open file until `fileclose`.

## The inode cache: `InodeCache.tla`

The cache is `icache.inode[NINODE][NBUCKET]`, with `NBUCKET == NCPU` and one
spin-lock per column. `iget(dev, inum)` hashes `dev % min(NBUCKET, ncpu)` and
scans with a pointer from `&inode[0][hash]` to `&inode[NINODE][hash]`. The
pointer steps one `struct inode` at a time, so it walks the flat indices
`hash .. NINODE*NBUCKET+hash-1`. The model names a slot by that flat index
(`Slots`), and `ScanRange(b)` is bucket b's range. The indices at and above
`NSLOT` (`OutOfArray`) are the memory that follows the array. Each such slot
starts either free or in use by something else (`inum = Foreign`).

State:

- Per slot: `ref`, `inum`, `valid`, `mode`, `nlink`, and `slock`, the holder
  of the slot's sleep-lock.
- Per bucket: `bucket`, the holder of `icache.lock[b]`.
- On disk: `dmode` and `dnlink`, per disk inode.
- The root directory's entries: `named`.
- Per process (a thread on its own CPU): a program counter `pc` and one return
  point `ret`.
- Per-process locals of the C functions: `tgt`, `cur`, `dp`, `ip`, `loaded`,
  `fbi`, `empty`.
- The current call and path kind: `sys`, `rel`.
- `held`, the bag of references `<<slot, inum>>` the process holds.
- `panicked`.

A C function that can block or interleave is split into one action per
atomic step, and `pc`/`ret` record where the caller resumes:

- `IgetHit` loads `ref` inside the locked scan, and `IgetInc` stores
  `loaded + 1` and releases the lock. `ip->ref++` is a load and a store, and
  `idup`/`iput` change `ref` with lock-free atomics on other CPUs in between.
- `IgetClaim` stamps the first free slot.
- `IgetMiss`, `FbNext` and `FbEnd` are the fallback sweep and its end:
  - no free slot gives the `iget: no inodes` panic;
  - otherwise the chosen slot is stamped and `release(&icache.lock[hash])` is
    called on a lock that is no longer held.
- `IlockEnter`/`IlockAcq` are `ilock`: the `ref < 1` panic, then taking the
  sleep-lock and hydrating from disk, with the `ilock: no mode` panic.
- `Iunlock` is `iunlock`, with its panic.
- `IputAcq`, `IputCheck`, `IputRel` and `IputDec` are the four steps of `iput`:
  - `IputAcq` takes the sleep-lock;
  - `IputCheck` reads `ref` under `icache.lock[1]` and, when it read 1, frees
    the inode (mode 0, `iupdate`, valid 0);
  - `IputRel` releases the sleep-lock;
  - `IputDec` is the atomic decrement.

The callers are the whole system-call paths:

- `Syscall` starts `sys_open`, `sys_open` with `O_CREATE`, or `sys_unlink`.
- `NamexStart` begins `namex` with `iget(ROOTDEV, ROOTINO)` for "/name", or
  with the lock-free `idup` of the cwd for "name".
- `NamexLock` and `NamexDir` lock the root and then either stop (in
  `nameiparent` mode) or look the name up.
- `NamexFound`, `NamexPut`, `NamexMissPut` and `PutDir` are the
  `iunlockput`s of the directory.
- `OpenLock` and `GetFd` are `sys_open`'s `ilock` and its `iunlock` at
  `get_fd`.
- `CreatLock`, `CreatUnlock` and `CreatPut` are the -ENOTBLK path.
- `CreateStart` through `CreatePutDir` are `create`, including the branch
  where another process created the name in between.
- `Unlink*` are `sys_unlink`.
- `StatStart`/`StatUnlock` are `filestat`.
- `CloseStart` is `fileclose`'s final `iput`.

Every process starts with a reference to the root as its cwd, in bucket
`hash`'s first slot, where booting put it. `Init` is this boot state, which
`userinit` and its `namei("/")` (outside `src/`) leave; it is not `iinit`,
whose lock set-up is not modelled.

Abstractions:

- A name is an inode number, and paths have one element.
- Every file is a regular file.
- Timestamps, sizes and content are left out.
- `iupdate` is the write of `dmode`/`dnlink` inside the action that calls it.
- Transactions (`begin_op`/`end_op`) are left out. They order disk writes for
  crashes but do not exclude processes from each other.

### Scheduling and fairness

With `ncpu = 1`, a process that holds a spin-lock runs with interrupts off,
so no other process steps until it releases it (`CanRun`). With `ncpu > 1`,
every step may interleave. The `InodeCache` properties are invariants, so
no fairness is assumed there. The one liveness property of the project,
`CallsReturn` in `InodeContent`, assumes weak fairness only of a started
`readi` or `writei` (see that section); crashes, typing, new system calls and lock
acquires get none, because nobody has to call and xv6's spin-locks are not
fair.

A panicked kernel freezes (`panicked = 1` in `panic`). `Halted` is its only
step.

Every passing run says `CHECK_DEADLOCK FALSE`. The code really does deadlock:
this is run `inode_cache_lock_order` below.

### Runs

All runs use two processes, with `SYMMETRY` over them.
`VIEW LiveView` merges states that differ only in the locals of idle
processes; every operation sets a local before reading it.

| Run | Bounds | Checks | Result |
|---|---|---|---|
| `inode_cache_up` | 1 CPU, 2 slots, inodes 1..3, one open file per process, all calls with relative paths and open also with `/name` (`AbsPathBound`) | `TypeOK`, `CacheUnique`, `RefCountExact`, `NoUseAfterFree`, `NoBrokenInvariantPanic` | pass: 460,026 distinct states, 29 s |
| `inode_cache_smp_refcount` | 2 CPUs | `RefCountExact` | violated |
| `inode_cache_past_array` | 2 CPUs | `NoSlotPastArray` | violated |
| `inode_cache_lock_order` | 1 CPU | `NoSleepLockCycle` | violated |

What the passing runs show:

- **`inode_cache_up`.** On one CPU the bucket lock makes `iget` atomic. Under
  every interleaving of two processes' open, open-create, create, unlink,
  stat and close:
  - no two referenced slots name one inode;
  - every slot's `ref` equals the references processes hold;
  - no process holds an inode that `iput` freed.

  - the only panics are the designed `no inodes` ones, although both the
    cache and the inode table run out.

  The bounds let an unlinked file stay open in one process while another
  frees it, recycles its inode by `ialloc`, and looks it up.
On two CPUs only violations are checked: the properties of the one-CPU run
fail there (below). `RefWithinDrift` stops exploration where lost updates
have put `ref` more than one off; without it `ref` drifts without bound.

`FbNext` models both branches of the fallback scan of another bucket
(fs.c 290-306): a slot that already holds the inode is returned with its
`ref` raised (fs.c 292-298), and otherwise the first free slot is
remembered.

The violations are findings in `PROJECT.json`. A fourth path is modelled but
not run. When the free slot is found only by the sweep, `iget` stamps it with
no lock held, then calls `release(&icache.lock[hash])`, which it released at
fs.c:287. `FbEnd` panics with `"release"` there, as xv6's `release`
does. `spinlock.c` is not in this tree, so no run asserts that outcome; it
is a hazard in `PROJECT.json`.

The violations:

1. **`RefCountExact`, fs.c:279.** `ip->ref++` in `iget` is not atomic, and an
   `idup` of the cwd on another CPU between its load and store is lost.
2. **`NoSlotPastArray`, fs.c:277.** For `hash > 0` the scan runs `hash`
   structs past `icache.inode`, and `iget` stamps that memory.
3. **`NoSleepLockCycle`, sysfile.c:348.** `create` holds the new inode's
   sleep-lock while `iput(dp)` sleeps on the directory's lock, and a
   concurrent `sys_unlink` of the new name holds the directory while
   `ilock(ip)` sleeps on the inode. Neither process ever wakes. One CPU
   suffices.

Each property of a passing run has a mutant in `PROJECT.json`: a plausible bug
in the mapped code that TLC finds. The mutants are:

- `ialloc` starting at inode 0;
- a claim that skips the lookup;
- `iput` without its decrement;
- `iput` freeing without reading `ref`;
- `create` returning the found inode without `ilock`.

## The content layer: `InodeContent.tla` and `FileContent.tla`

`FileContent` is what the content layer promises: each file is a sequence of
bytes. A write replaces or extends bytes at an offset no later than the end,
so files have no holes. Truncation empties a file.

`InodeContent` models the code that keeps that promise (fs.c 51-104 and
424-626):

- `used` is the bitmap.
- `addrs[f]` is `ip->addrs`: `NDIRECT` direct addresses, then the indirect
  block, then the double-indirect block.
- Every block has two views. `ind[b]` is block b read as `uint32_t` entries,
  and `data[b]` is block b read as bytes.
- `size` is `ip->size`.
- `op`, `off`, `tot`, `n`, `val` and `buf` are the locals of the `readi` or
  `writei` call in progress on a file.

The actions follow the code:

- `Path`/`Level`/`Addr` are `bmap`'s walk.
- `Bmap` is one `balloc` (the first clear bit below `sb.size`, then `bzero`)
  for the first missing level of the walk. It panics past `MAXFILE` and when
  the bitmap is full.
- `WriteiStart` and `ReadiStart` hold the `-EDOM` checks, computed modulo
  2^W, and `readi`'s clamp.
- `WriteiCopy` and `ReadiCopy` are one iteration of the copy loop, with
  `m = min(n - tot, BSIZE - off % BSIZE)`.
- `WriteiEnd` grows the size.
- `Itrunc` `bfree`s the blocks of `FreeList` in the code's order, stopping at
  the first zero entry of each indirect block. It panics on a clear bit or a
  block freed twice.

Each file's calls are sequential, because its caller holds the inode's
sleep-lock. The calls of different files interleave at every `balloc` and
every block copy, and they share only the bitmap. Each `balloc` and each
`bfree` is atomic, because the bitmap block is held locked (`bread`) while it
changes. `itrunc` is one step: its frees can interleave only with another
file's `balloc`, which merely picks a different free block.

The geometry is scaled down together with the word width:

- `inode_content_two` uses `NDIRECT = 1`,
  `NINDIRECT = 2` and `BSIZE = 2`. `MAXFILE` is then 7 blocks (14 bytes), and
  `W = 4`, so byte arithmetic wraps at 16 just above `MAXFILE * BSIZE`, as
  `uint32_t` does above the real 537,931,776.
- `inode_content_values` uses `NINDIRECT = 1` and `W = 3`.

### `filewrite` and the log

`filewrite` (file.c 143-181) is modelled in the same module, on top of
`writei`. Its locals are `fwpc` (where the call is), `fwn`, `fwi`, `fwv`
(n, i and the written value), and `foff` (`f->off`).

- `FileWriteStart` is the call, with `f->off` either 0 or the end of the
  file.
- `FileWriteChunk` is `begin_op`, `inode_lock` and `inode_write` of
  `n1 = min(n - i, max)` bytes, where `max` is `FWMAX`, computed from
  `MAXOPBLOCKS`. When `writei` rejects the chunk, the loop breaks and the
  call returns `-EDOM`.
- `FileWriteChunkEnd` is `f->off += r`, `inode_unlock`, `end_op` and
  `i += r`.
- `FileWriteReturn` is the return.

While a chunk's `writei` runs, the inode lock is held. `Unlocked` therefore
keeps direct calls off that file.

`log.c` is not in this tree, so the log is modelled from spec.md 5 and 8:

- `durable` is the disk as the log would recover it.
- The log commits as a group. `Commit` copies the disk to `durable` after
  every step that leaves no `writei` running and no `filewrite` chunk
  between its `begin_op` and `end_op` (`Quiet`).
- `Crash` (at most `MaxCrashes` times) puts `durable` back on the disk and
  ends every call in progress.

`FileContent` grows to match: `saved` is what a crash returns to.
`Commit` may follow any step, and `Crash` restores `saved`. The refinement
maps `saved` to the bytes of `durable`.

`fwPre`, `fwStart` and `fwSole` are history variables. They hold:

- the file's committed bytes when the `filewrite` began;
- the offset it began at;
- whether it has been the only writer since then (`fwSole`).

`MCInodeContent`'s view keeps `fwPre` and `fwStart` only while `fwSole`
holds. The values run bounds its inputs with `CONSTRAINT FwAlone`: while a
`filewrite` is between chunks, no direct `readi` or `writei` runs on its
file. Without the constraint, interleavings that no property distinguishes
multiply the states tenfold. Direct calls still interleave with the whole
`filewrite` before and after it, and with its chunks' `writei`.

Callers pass:

- offsets from 0 to one past the size, where one past is the `-EDOM` case;
- counts from `Lens`, including one that wraps.

`VIEW LiveBlocks` ignores the contents of blocks that no tree uses. `balloc`
zeroes every block before linking it, so those contents never influence a
later step. The view also skips block numbers outside the device, so that a
state with one is still reported by `TypeOK` and does not stop the view.

| Run | Bounds | Checks | Result |
|---|---|---|---|
| `inode_content_two` | two files, 5 data blocks (so the device runs out), lengths 1, 3 | `TypeOK`, `BlocksAccounted`, `OnlyDesignedPanics` | pass, 764,253 states |
| `inode_content_values` | one file that can reach `MAXFILE` through all three ranges of the tree, values 1 and 2, lengths 1, 3, 7; `filewrite`s of 3 bytes from offset 0 or the end, `MAXOPBLOCKS = 6` (chunks of 2 bytes); one crash | `BlocksAccounted`, `SizeMatchesMapping`, `ChunksPersisted`, `ReadReturnsContent`, `ContentSpec` (the refinement), `OnlyDesignedPanics`, `CallsReturn` (liveness) | pass, 32,376 states |

In the values run, a 3-byte `filewrite` has two chunks. From offset 4 of
the 6-byte file, the first chunk commits and the second fails with `-EDOM`.
The crash can fall before, between or after the chunks.

What the properties say:

- **`BlocksAccounted`.** A data-region block is marked in use exactly when
  one pointer of one tree refers to it. In particular, `itrunc` frees every
  block `bmap` allocated.
- **`SizeMatchesMapping`.** Between writes, a file has no holes and no spare
  index blocks. This is what makes `itrunc`'s break at the first zero entry
  safe.
- **`OnlyDesignedPanics`.** The only panic is `balloc: out of blocks`. This
  holds because the wrap and `MAXFILE` checks keep `bmap` in range.
- **`ReadReturnsContent`.** `readi` returns exactly the file's bytes.
- **`ContentSpec`.** The content as `readi` would see it, through the tree,
  only ever changes by a `FileContent` write or truncate.
- **`ChunksPersisted`** (spec.md 8, chunked-write atomicity). While a
  `filewrite` is in progress and it is the only writer of its file, two
  things hold. The committed bytes of the file are its bytes at the start,
  overwritten by exactly the chunks completed so far. `f->off` lies past
  those chunks. This includes a call that will return `-EDOM`. After a
  crash, the disk is those committed bytes. A chunk whose `end_op` has not
  run is therefore never partly on disk.
- **`CallsReturn`** (values run, under `FairSpec`). Every `readi` and
  `writei` that passes its checks returns, unless the kernel panics. The
  fairness is weak fairness of `Copying(f)`, the steps of a call already
  started: its caller holds the inode's sleep-lock, and the loop waits only
  for `bread`'s disk I/O, which completes. Each iteration must move `tot`
  forward; a zero `m` at some offset would spin with the lock held.

The mutants are:

- `balloc` scanning to `<= sb.size`;
- `itrunc` not freeing the indirect blocks under the double-indirect block;
- `writei` setting the size after every write;
- `writei` without the wrap check (caught in the values run, whose file can
  reach `MAXFILE`);
- `itrunc` leaving `ip->addrs` set, so a later truncate frees the same blocks
  again;
- `balloc` not setting the bit;
- `readi` without the clamp;
- `memmove` to the start of the block;
- `m` computed with `BSIZE - 1 - off % BSIZE`, which is 0 at a block's last
  byte (caught by `CallsReturn`);
- `filewrite` not advancing `f->off` after a chunk, so the next chunk
  overwrites the last (caught by `ChunksPersisted`).

## The descriptor layer: `FileTable.tla`

`FileTable` models `ftable` (kernel/file.c), each process's `ofile` array,
and the system calls of kernel/sysfile.c that use them. It composes with the
content layer: file bytes are `FileContent`'s `content`, and a `readi` or
`writei` made under the inode's sleep-lock is one step on it. `InodeContent`
is checked to implement that content. `inode_read` and `inode_write`, which
file.c calls, are not defined under `src/`, so they are read as `readi` and
`writei`.

State:
- The fields of each slot: `ref`, `type`, `ip`, `off`, `readable` and
  `writable`.
- `ofile[p][fd]`: the slot a descriptor names, or 0.
- `iref[i]`: the inode references held by open files.
- `ilock[i]`: who holds the inode's sleep-lock.
- `panicked`.
- The locals of each process's current call: `f`, `n`, `i`, `r`, the offset
  handed to `readi`/`writei`, and `sys_writev`'s `iovecs` and loop index.

Actions:

| Action | Code |
|---|---|
| `OpenFile` | `fileopen` from `get_fd` on: `filealloc` and `fdalloc`, or, when either table is full, `fileclose` of the slot and `iunlockput` |
| `Dup` | `sys_dup`: `fdalloc`, then `filedup` |
| `Close` | `sys_close`: `fileclose` |
| `Seek` | `sys_lseek`/`fileseek` |
| `ReadStart`, `ReadEnd` | `fileread`: `readi` at `f->off`, then `f->off += r` and unlock |
| `WriteStart`, `WriteChunk`, `WriteAdvance` | `filewrite`: entry, then one chunk's `writei`, then `f->off += r`, unlock, and loop or return |
| `WritevStart` | `sys_writev`, whose later iterations re-enter `filewrite` from `WriteAdvance` |
| `Fork` | the process layer's copy of `ofile` with a `filedup` per descriptor |

`fork` is not under `src/`. It is the only way two processes come to share an
open file, so it is modelled as the environment.

Locks and steps:
- A process makes one system call at a time.
- The spin-locked `ftable` operations are one step each.
- `fileread` is split between `readi` and `f->off += r`, and so is each
  chunk of `filewrite`. The split is where `fileseek`, which takes no lock,
  can interleave; two readers or writers of one inode cannot, because they
  hold `ilock`.

`MCFileTable` adds symmetry over processes and inodes. It also adds the view
`LiveState`, which drops the fields of slots with ref 0 and the locals of idle
processes. `get_fd` and each call overwrite those before reading them.

| Run | Bounds | Result |
|---|---|---|
| `file_table_refs` | 2 processes, `NOFILE` = `NFILE` = 2, 1 inode, `MAXFILE*BSIZE` = 1, `max` = 1, `W` = 2, writev of 1 iovec | pass: 1,209,242 distinct states, about 25 s |
| `file_table_seek_race` | 2 processes sharing one slot, `W` = 2 | violation of `OffsetAdvancesByTransfer` in 7 steps |

The bounds of `file_table_refs` let:
- both tables fill, so both failure paths of `get_fd` run;
- `fork` share slots and `dup` stack references;
- `writei` reach its `MAXFILE` check without `W` wrapping first.

Properties:
- `FileRefsExact`: each slot's `ref` is the number of descriptors, over all
  processes, that name it.
- `InodeRefsExact`: each open file holds exactly one inode reference. This
  holds across `get_fd`'s error paths and `fileclose`'s put of its copy `ff`.
- `OffsetAdvancesByTransfer` (spec 4.8) is an action property. It fails:
  - `fileseek` stores `f->off` with no lock (file.c:137);
  - a forked child's `lseek(SEEK_END)` between the parent's `writei` and its
    `f->off += r` leaves the offset past the end of the file.

Mutants of `file_table_refs`:

| Property | Mutant |
|---|---|
| `TypeOK` | `writei` without its `MAXFILE` check |
| `FileRefsExact` | `sys_dup` without `filedup` |
| `InodeRefsExact` | `fileclose` testing the cleared `f->type` instead of `ff.type` |

Also observed:
- `sys_writev` never advances `iovecs` (sysfile.c:123), so it writes the
  first buffer `iovcnt` times. `WritevStart` and `WriteAdvance` model it
  this way. No property checks it: one call shows it, with no interleaving.
- `fileseek`'s `SEEK_END` ignores `n`. Its comment says "Not sure if this is
  right".
- A negative `SEEK_CUR` result wraps into the `uint32_t` offset, so the next
  read or write fails with `-EDOM`.
- `filewrite` returns `-EDOM` when a later chunk fails, even though earlier
  chunks were written. `InodeContent`'s `ChunksPersisted` checks that
  exactly those chunks are committed and that `f->off` lies past them.

## The directory layer: `Directory.tla` and `DirNames.tla`

`DirNames` is what the directory layer promises. Each directory binds each
name to at most one inode. `link` adds a binding for a name that has none,
and `unlink` removes one.

`Directory` models the code that keeps that promise:

- `dirlookup` and `dirlink` (fs.c 638-703);
- `isdirempty` (sysfile.c 210-224);
- `iput` (fs.c 384-405);
- `create`, reached from `open` with `O_CREATE` and from `sys_mkdir`, and
  `sys_link` and `sys_unlink` (sysfile.c 156-350, 437-452).

Directories are made and removed at run time. Inode 1 is the root, and
inodes 2 .. NINODE+1 are free until `create` allocates one as a file or a
directory.

State:

- `type[i]`: `"free"`, `"file"` or `"dir"`, the dinode's mode.
- `nlink[i]` and `refs[i]` (the in-memory `ip->ref`).
- `content[d]`: the dirents of directory d, as a sequence of records
  `[inum, name]`. A free entry has `inum = 0`. `Size(d)` is `dp->size` in
  entries.
- `lk[i]`: the holder of inode i's sleep-lock.
- `last_inum` and `last_offset_from_inum`: dirlink's global insertion cache.
  The code reads and writes it under no lock.
- Per process:
  - `pc` and the call `sc`;
  - the locals `dp`, `nm`, `ip`, `off` and `lo`;
  - `links`, the `dirlink` calls still to make (mkdir makes three);
  - `puts` and `after`, the `iput`s still to make and the label after them.

The path walk (`namex`) is one step. It is taken when every directory on
the path is unlocked (`WalkFree`), since `namex` locks each in turn. It
returns a directory reachable from the root (`Reachable`, a recursive
closure over the named entries) or an inode a name leads to (`Linked`), with
a reference taken. The caller locks
it in a later step, as the code does.

Actions, one per step between which another process can run (a timer
interrupt preempts kernel code, trap.c 174-176):

| Action | Code |
|---|---|
| `Start` | `nameiparent` in `create` (open, mkdir) and `sys_unlink` |
| `CreateLookup` | `create`: `ilock(dp)`, `dirlookup`; for a found name `iunlockput(dp)`, else `ialloc` of the least free inode |
| `CreateFound` | the found path's `ilock(ip)`: it waits for the found inode's lock, then puts it |
| `CreateLock` | `create`: `ilock(ip)`, `nlink = 1`, `dp->nlink++` for a directory, and the `dirlink` calls to make |
| `IpUnlock` | the caller's unlock of the inode `create` returns, then its `iput` |
| `LinkStart`, `LinkLock`, `LinkParent`, `LinkDirlink` | `sys_link`: `namei` of the old name, `-EISDIR` or `nlink++` under its lock, `nameiparent`, `ilock(dp)` |
| `LinkNoParent` | `nameiparent` returning 0: `-ENOENT` through `bad`, which undoes the `nlink++` |
| `LinkBad` | `sys_link`'s `bad:` path: `nlink--` |
| `DirlinkLookup`, `DirlinkOff`, `DirlinkScan`, `DirlinkEnd` | `dirlink`: its `dirlookup` and the cache test (fs.c 674-680), the load at 681, the scan and `writei` (686-699), and the end |
| `UnlinkLookup`, `UnlinkClear`, `UnlinkBad`, `UnlinkDec` | `sys_unlink`: lookup under `dp`'s lock; `nlink < 1` panic, `-ENOTEMPTY`, or the entry zeroed and `dp->nlink--` for a directory; `bad:`; `nlink--` |
| `IputCheck`, `IputDec` | `iput`: the free decision under `ip->lock`, then the decrement after it |

fs.c 680 tests `last_offset_from_inum`, and 681 reads it again. Whether the
build loads it once or twice is up to the compiler, because another CPU may
write it in between (a data race). `DirlinkOff` therefore chooses the value
saved at the test or the current one.

`MCDirectory` merges states that differ only in dead locals with
`VIEW LiveState`. A local stays in the view at every label from where it is
set to where it is last read. During `iput` it also stays if the label
`iput` returns to reads it. `SYMMETRY` permutes processes and names.

### Runs

| Run | Bounds | Checks | Result |
|---|---|---|---|
| `dir_links` | 2 processes, names `a`, `b`, 2 inodes besides the root, 4 entries per directory; links and directories made in the root (`RootInputs`) | `TypeOK`, `NamesUnique`, `LinksCounted`, `NoDanglingEntry`, `NamesSpec`, `SkipelemSplits`, `NamexMatchesReference` | pass: 401,642 distinct states, about 39 s |
| `dir_orphan` | 2 processes, name `a`, 1 inode | `OrphansFreed` | violated |
| `dir_removed_parent` | as `dir_links`, with links and directories anywhere | `NoLostInode` | violated |

`dir_links` makes files in the root and in a directory made there. With 4
entries, a directory holds two names, and this reaches:

- free entries reused below the end;
- an append at the end;
- the cache skipping a free entry;
- `-ENOTEMPTY`;
- the unlink of an empty directory, and the reuse of its inode;
- `ialloc`'s panic when both inodes are in use.

`RootInputs` keeps `sys_link`'s new name and `sys_mkdir`'s directory in the
root. Links and directories anywhere quadruple the states, which puts the run
past its time. The race those inputs add is checked by `dir_removed_parent`.

Deadlock is not checked. `create` holds the new inode's lock while it
`iput`s the parent, and an unlink holding the parent waits for that inode.
That is the deadlock `inode_cache_lock_order` shows.

What `dir_links` shows:

- `NamesUnique`: no directory holds two in-use entries with one name.
- `LinksCounted`: `nlink` never counts fewer than the entries naming the
  inode in directories reachable from the root. A directory's `..` counts
  for its parent; its `.` and the root's `..` do not. Every order is covered:
  - `sys_link` raises `nlink` before the entry exists, and undoes it on
    failure;
  - `mkdir` raises the parent's `nlink` before the new `..` exists;
  - `unlink` zeroes the entry before `nlink--`.
- `NoDanglingEntry`: no reachable entry names a freed inode.
- `NamesSpec`: `Directory` implements `DirNames` under
  `names <- [d |-> Bindings(d)]`, where the bindings of a directory with no
  links are empty. Every `dirlink` adds a binding for an unbound name, and
  the cached offset never makes it overwrite a live entry. A directory is
  unlinked only when it binds nothing.

The properties are invariants and a refinement of safety, so no fairness is
assumed. A panic halts the model.

Mutants:

| Property | Mutant |
|---|---|
| `TypeOK` | `dirlink` without its `MAXFILE` check |
| `NamesUnique` | `dirlink` without its `dirlookup` |
| `LinksCounted` | `mkdir` without `dp->nlink++` |
| `NoDanglingEntry` | `iput` freeing without reading `ref` |
| `NamesSpec` | the scan writing at the cached offset whether or not it is free |

Findings:

- **`dir_orphan`, fs.c:402.** `iput` decides whether to free with the `ref`
  it read under `ip->lock`, and decrements `ref` only after releasing the
  lock. One process opens a new file with `O_CREATE` and closes it. The
  close's `iput` has checked `ref` (1, with `nlink` 1) and released the
  lock, but has not decremented yet. Another process unlinks the name,
  taking `nlink` to 0. Its `iput` then sees `ref = 2`. Neither frees the
  inode, and after both decrements it stays allocated on disk with no links
  and no references (20 states).
- **`dir_removed_parent`, sysfile.c:298.** `create` takes its reference to
  the parent in `nameiparent` (296) and locks it only at 298. The trace
  runs in this order (37 states):
  1. One process makes directory `a` and then unlinks it.
  2. Before that unlink locks the root, the other process's `nameiparent`
     walks to `a` for a create of `a/b`. It returns `a` referenced and
     unlocked.
  3. `a` is still empty, so `isdirempty` lets the unlink remove the entry
     and drop `a`'s `nlink` to 0.
  4. The create then locks `a`, allocates a file, sets its `nlink` to 1
     and links it into the removed directory.
  5. No path leads to the file, and nothing will ever free it.

  The same holds when the new entry comes from `mkdir`, which also raises
  the dead directory's `nlink` back to 1, or from `sys_link` (sysfile.c 188).
  Spec 4.7 says path resolution stays correct when another thread unlinks
  concurrently. `NoLostInode` states what is lost: when no call is in
  progress, every inode with a link is one a path leads to.

Outside `RootInputs`, a link into a removed directory that `iput` then
frees leaves the file's `nlink` raised for good. Repeating it raises `nlink`
without bound. `dir_removed_parent` stops at its first violation, long
before that.

### Path names: `PathName.tla`

`PathName` holds `skipelem` and the element loop of `namex` (fs.c 720-795)
as recursive operators. A path is the sequence of its bytes before the NUL,
with '/' as 47. A name is the bytes `namecmp` (`strncmp` over `DIRSIZ`)
compares: the element, or its first `DIRSIZ` bytes.

- `Skipelem` skips leading slashes (`SkipSlashes`). It returns `<<>>` for 0.
  Otherwise it returns the element's name (`NameOf`, cut at `DIRSIZ`) and the
  path after the element and the slashes that follow it.
- `Walk` is the loop:
  - `skipelem`;
  - the `S_ISDIR` check;
  - `nameiparent`'s stop when the remaining path is empty;
  - `dirlookup`.
- `Namex` starts at the root for "/..." and at the cwd otherwise.

The directory tree is a constant function (`Tree`). The reference splits a
path at every '/' and drops the empty pieces (`Pieces`, `Elements`).
`Follow` walks the pieces. MCDirectory instantiates `PathName` with
`DIRSIZ = 2`, bytes 'a' and 'b', and every path of up to 5 bytes (364
paths). The tree has four entries:

- the root 1 holds directory 2 as "a";
- the root holds file 3 as "ab", which "abb" also finds, cut to `DIRSIZ`;
- directory 2 holds file 3 as "b";
- directory 2 holds the root as "a", a way back up like "..".

The cwd is 2. The `dir_links` run checks:

- **`SkipelemSplits`.** Calling `skipelem` until it returns 0 yields exactly
  the path's elements, and leaves an empty path after the last one and only
  there. `nameiparent`'s early stop relies on this with trailing slashes
  ("a/").
- **`NamexMatchesReference`.** `namei` returns where the elements lead.
  `nameiparent` returns the directory the elements but the last lead to,
  with the last element as name. For a path with no element, `nameiparent`
  returns 0.

Both are constant formulas, so TLC computes them once. Each is stated as
`panicked \in Panics => ...`, a state predicate true in every state, so
that TLC reports it as a violated invariant.

Mutants:

- `skipelem` leaving the slashes after an element on the path. Then "a/"
  does not end at its last element.
- `nameiparent`'s stop tested before the `S_ISDIR` check. Then "/ab/b"
  returns the file 3 as a parent.

Not modelled here:

- the byte layout of a dirent (names are model values in `Directory`);
- the refusal to unlink `.` and `..`, which happens before any lookup;
- relative paths and the cwd in `Directory` (`namex` from the root only;
  `PathName` resolves relative paths, on a fixed tree);
- symlinks and device inodes.

## Console input: `ConsoleInput.tla` and `ConsoleLine.tla`

`ConsoleInput` models the input ring of kernel/console.c:
- the state is `input.buf` and the `uint32_t` indices `r`, `w` and `e`, with
  `W` = 3 bits;
- `consoleintr` is the keyboard interrupt, one character per interrupt;
- `consoleread` is run by two readers;
- `cons.lock` is held by a reader from its wake-up to its return or sleep.

An interrupt that delivers several characters holds the lock throughout.
Its states are those of single-character interrupts with no reader step in
between, so the model's behaviours include it.

| Action | Code |
|---|---|
| `IntrKill` | `C('U')`: the `e--` loop, as the recursive `KillLine` |
| `IntrErase` | `C('H')` and `'\x7f'` |
| `IntrType` | the default branch: room test, `'\r'` to `'\n'`, store at `e++`, and commit and `wakeup` on `'\n'`, `C('D')` or a full buffer |
| `ReadStart`, `ReadDone`, `ReadSleep`, `ReadChar`, `ReadEof` | `consoleread`'s steps |
| `ReadWake` | `sleep`'s return with the lock held again |

`ConsoleLine` is the abstract line discipline, with a queue of committed
characters and the line being edited. Its actions are:
- type: a newline, `C('D')` or a full buffer commits the line;
- erase;
- kill the line;
- consume.

The run `console_input` checks seven properties: three on the ring, one on `ConsoleOutput` and three on `UserLib` (both below). It uses a 4-character ring
with 3-bit indices (the indices wrap every second turn of the ring), the
characters `a`, `b`, newline, carriage return and `C('D')`, and two readers
asking for 1 or 3 bytes. It passes with 1,358,538 distinct states in about
35 s.
- `NoLostWakeup`: no reader sleeps while committed input waits.
- `LineSpec`: `ConsoleLine` is implemented under the mapping
  `queue <- Ring(r, w)`, `line <- Ring(w, e)`. This covers:
  - no unread character is overwritten;
  - kill never reaches committed input;
  - a `C('D')` pushed back with `r--` is read exactly once;
  - the modular index arithmetic.

Mutants, all of `IntrType`:

| Property | Mutant |
|---|---|
| `TypeOK` | `'\r'` stored unconverted |
| `NoLostWakeup` | the commit without `wakeup` |
| `LineSpec` | the room test `e - r <= INPUT_BUF` |

### Number formatting: `ConsoleOutput.tla`

`ConsoleOutput` holds `cprintf`'s conversion loop and `printint` as
recursive operators over bytes (ASCII codes):
- `Run` prints the bytes other than '%';
- `Directive` follows "goto do_again" through the flags: '0' sets the local
  padding to 18, '#' sets `alt_form`, 'l' sets `long_form`. It then handles
  the conversion: 'u', 'd', 'x', 'o', 'p', 's', '%' and an unknown byte;
- `Printint` clears `long_form`, emits the digits with the do-while
  (`Digits`), pads with zeros (`ZeroPad`), and prints "0x" and clears
  `alt_form` when `alt_form` is set and the base is 16.

The statics `alt_form` and `long_form` are threaded through as a record.
MCConsoleInput checks, once, `CprintfMatchesReference`:
- the format is "a%<flags><conversion>b", with the statics fresh;
- the flags are every order of up to two of '0', '#' and 'l';
- the numbers are 0 to 70, which gives three octal digits and hexadecimal
  letters;
- the output is the number in the conversion's base. It is computed by
  division (`Numeral`), zero-padded to 18 under '0', with "0x" for %p and
  %#x.

It is stated as `lock \in Readers \cup {None} => ...` for the same reason as
`PathName`'s properties. Its mutant is a while loop in place of the
do-while, which prints 0 as nothing.

Two defects have no property (the second is a listed hazard):
- `printint` tests `xx < 0` on a `uint64_t`, so %d of a negative number
  prints 2^64 minus its magnitude.
- `alt_form` and `long_form` outlive their directive. After "%#d", a later
  %x prints "0x". After "%ls", the next %d reads a long.

The model has both, but each would need a violation run of its own.

Not modelled:
- `cprintf`'s colour escapes (screen attributes only);
- `C('P')`'s `procdump`;
- the `killed` test;
- the output side. `consolewrite` appends to `console_buffer` with no bound,
  and `console_flush`, the only reset of `buffer_position`, has no caller in
  this tree.

## Plan

The modules are built in this order. Each later module is checked by itself
and composed where the parts interact.

1. `InodeCache` (done). Its callers grow next:
   - `sys_chmod`, `sys_readlink`, `sys_symlink` and `link_dereference`, whose
     leaked references are listed hazards;
   - `sys_link` and `sys_chdir`.
2. `Directory` (done: files and directories). Next:
   - the walk of `namex` as a step per path element, with relative paths
     and `sys_chdir` (`PathName` checks the walk's logic, but not as steps);
   - a run with the deadlock check on, once a run slot is free.
3. `InodeContent` (done) refines `FileContent`. It includes `filewrite`'s
   chunks, the log's group commit and a crash. Next:
   - several crashes, and two `filewrite`s of one file, under a larger run
     budget;
   - the metadata updates of `ialloc` and `iput` inside transactions.
4. `FileTable` (done). Next:
   - split `fileclose` at its release of `ftable.lock`, so that slot reuse
     before the `iput` is checked;
   - connect `iref` to `InodeCache`'s `ref`.
5. `ConsoleInput` (done).
6. `UserLib` (done: `atoi`, `getenv`, `atexit`/`exit`). Next:
   - `strtoll`, with violation runs for its defects once run slots are
     free;
   - the `malloc`/`free` free list.

## User library: `UserLib.tla`

`UserLib` holds three pieces of `src/userspace/ulib.c` as operators over
byte sequences:
- `atoi`'s digit loop;
- `getenv`'s scan of `environ`:
  - `strchr` for the first '=';
  - the test that the name before it is `strlen(name)` bytes long;
  - `strncmp` over that length;
- `atexit`'s first-free-slot search and `exit`'s walk from the last slot
  down.

MCConsoleInput instantiates it with `ATEXIT_MAX = 4`, which the tree leaves
undefined, handlers 1 and 2, and 0 as `NULL`. The `console_input` run checks
each property once, like `FormatOK`:

- **`AtoiMatchesReference`.** For every string of up to 4 bytes over '0',
  '5', '9' and 'A', `atoi` is the value of the leading digits, computed by
  powers of ten.
- **`GetenvMatchesReference`.** The environments have up to 2 entries of up
  to 3 bytes over 'A', 'B' and '='. The names are up to 2 bytes. `getenv`
  returns the value of the first entry "name=value", or `NULL`. An entry
  whose name only starts with the name asked for ("AB=x" for "A"), or
  that has no '=', never answers.
- **`ExitRunsInReverse`.** After any 0 to 5 `atexit` calls, the first 4
  return 0 and the rest -1. `exit` calls the registered functions in
  reverse order of registration, repeats included.

The mutants:

| Property | Mutant |
|---|---|
| `AtoiMatchesReference` | the digit test `'0' < *s` |
| `GetenvMatchesReference` | the length test dropped |
| `ExitRunsInReverse` | the slot search one short |

Without the length test, "AB" finds "A=B".

## Not modelled

- `sys_chdir`, and the path walk as steps interleaved with other processes.
  `PathName` checks the parsing and the loop as pure functions.
- Device files and pipes.
- The log's own code (`log.c` is not in this tree). `InodeContent` models
  what it promises: group commit and recovery to the last commit. Crashes
  are modelled only for file content. The inode cache, directory and
  descriptor models keep no disk image to recover.
- `iinit`'s lock initialisation (static zeroed locks behave as unlocked
  ones).
- `strtoll` and its wrappers (`strtol`, `atol`, `atoll`, `atoi_base`).
  Reading them shows four defects:
  - the sign is parsed but never applied;
  - letters are valued from 0, not 10;
  - a leading 0 under base 16 switches to base 8;
  - base 0 without a prefix stays 0, so `atol("12")` returns 2.

  Each defect would need a violation run of its own, and all twelve run
  slots hold other questions. Nothing in the tree calls these functions.
- `fdopendir`, `readdir` and `closedir` are not modelled:
  - the listing stops at the first entry with an empty name, which is what
    an unlinked entry leaves;
  - `closedir`'s loop `free(dir->list->next)` never advances.

  `umalloc`'s free list is not modelled either.
- Console output: `consputc`, `cgaputc` and `consolewrite`'s buffer. They
  write to the screen. `cprintf`'s formatting is in `ConsoleOutput`.
- Everything outside `src/`.
