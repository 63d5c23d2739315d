------------------------------ MODULE InodeCache ------------------------------
(***************************************************************************)
(* The in-memory inode cache of src/kernel/fs.c: iget, idup, ilock,        *)
(* iunlock, iput, ialloc and iupdate, driven by the system-call paths of   *)
(* src/kernel/sysfile.c and file.c that take and drop inode references:    *)
(* a name lookup (namex/dirlookup), create, unlink, filestat, filedup and  *)
(* fileclose.                                                              *)
(*                                                                         *)
(* The cache is icache.inode[NINODE][NBUCKET].  iget scans it with a       *)
(* pointer that steps one struct at a time from &inode[0][b] to            *)
(* &inode[NINODE][b], so "bucket" b is the flat index range                *)
(* b .. NINODE*NBUCKET+b-1: ranges overlap, and for b > 0 they run past    *)
(* the end of the array.  A slot is named by its flat index; indices at    *)
(* or above NINODE*NBUCKET are the memory that follows the array.          *)
(*                                                                         *)
(* Each thread runs on its own CPU.  With ncpu = 1 a thread that holds a   *)
(* spin-lock runs with interrupts off, so no other thread steps until it   *)
(* releases it.  ref is changed by iget with a plain ++ under the bucket   *)
(* lock and by idup/iput with atomic add/sub and no lock: ++ is a load     *)
(* (taken by the scan that tests ref > 0) and a later store.               *)
(***************************************************************************)
EXTENDS Integers, FiniteSets, Bags
LOCAL INSTANCE FiniteSetsExt
LOCAL INSTANCE Relation

CONSTANTS
  NINODE,     \* rows of icache.inode (param.h NINODE)
  NBUCKET,    \* columns of icache.inode and bucket locks (NBUCKET == NCPU)
  ncpu,       \* CPUs found at boot
  NINODES,    \* sb.ninodes; inode 1 is the root directory
  ROOTDEV,    \* the device of every inode
  Threads,    \* kernel threads, one per CPU
  MaxHeld,    \* bound on the files one process keeps open
  SysCalls,   \* the system calls processes make: "open", "creat", "unlink"
  RelPaths,   \* path kinds used: TRUE for "name", FALSE for "/name"
  None        \* no thread / no slot

ASSUME /\ NINODE \in Nat \ {0} /\ NBUCKET \in Nat \ {0}
       /\ ncpu \in 1 .. NBUCKET /\ NINODES \in Nat /\ NINODES >= 3
       /\ NBUCKET >= 2   \* iput takes icache.lock[1]
       /\ ROOTDEV \in Nat /\ MaxHeld \in Nat \ {0}
       /\ SysCalls \subseteq {"open", "creat", "unlink"}
       /\ RelPaths \subseteq BOOLEAN /\ RelPaths # {}

NB       == IF NBUCKET < ncpu THEN NBUCKET ELSE ncpu   \* min(NBUCKET, ncpu)
hash     == ROOTDEV % NB
NSLOT    == NINODE * NBUCKET
Slots    == 0 .. NSLOT + NB - 2
OutOfArray == Slots \ (0 .. NSLOT - 1)
ScanRange(b) == b .. NSLOT + b - 1
ROOTINO  == 1                     \* the root directory, parent of every file
DiskInodes == 0 .. NINODES - 1       \* the inode table; inode 0 is never used
Inums    == 1 .. NINODES - 1
Files    == 2 .. NINODES - 1
Foreign  == -1                     \* inum of memory past the array that is in use
Panics   == {"none", "iget: no inodes", "ialloc: no inodes", "release",
             "ilock", "ilock: no mode", "iunlock", "unlink: nlink < 1"}

SetMin(S) == CHOOSE x \in S : \A y \in S : x <= y

VARIABLES
  ref, inum, valid, mode, nlink, slock,  \* cache slots and their sleep-locks
  bucket,                                \* icache.lock[b]: holder
  dmode, dnlink,                         \* on-disk inodes
  named,                                 \* files with an entry in the root
  pc, ret,                               \* per-thread control
  tgt, cur, dp, ip, loaded, fbi, empty,  \* per-thread locals
  held,                                  \* bag of <<slot, inum>> references
  sys, rel,                              \* the system call, relative path?
  panicked

cache  == <<ref, inum, valid, mode, nlink, slock, bucket>>
disk   == <<dmode, dnlink, named>>
locals == <<tgt, cur, dp, ip, loaded, fbi, empty>>
frame  == <<sys, rel>>
vars   == <<cache, disk, pc, ret, locals, frame, held, panicked>>

(* A reference ("handle") is a pair <<slot, inum>>: the slot iget returned *)
(* and the inode it was asked for.                                         *)
Slot(h) == h[1]

-----------------------------------------------------------------------------
(* Helpers.                                                                *)

Matches(R, n) == {s \in R : ref[s] > 0 /\ inum[s] = n}
Empties(R)    == {s \in R : ref[s] = 0}

HoldsSpin(t) == pc[t] = "igetInc"

\* On one CPU a thread holding a spin-lock cannot be preempted.
CanRun(t) == panicked = "none" /\
             (ncpu > 1 \/ \A u \in Threads \ {t} : ~HoldsSpin(u))

\* Thread t is at p and may take a step.
At(t, p) == CanRun(t) /\ pc[t] = p

Goto(t, p) == pc' = [pc EXCEPT ![t] = p]

Call(t, proc, r) == /\ pc'  = [pc EXCEPT ![t] = proc]
                    /\ ret' = [ret EXCEPT ![t] = r]

Return(t) == pc' = [pc EXCEPT ![t] = ret[t]]

Set(f, t, v) == f' = [f EXCEPT ![t] = v]

Panic(why) == /\ panicked' = why
              /\ UNCHANGED <<cache, disk, pc, ret, locals, held, frame>>

-----------------------------------------------------------------------------
(* iget (fs.c 267-317).  The first scan runs under icache.lock[hash].      *)

\* The new reference is the thread's from the store that counts it.
IgetReturn(t, s) ==
  /\ held' = [held EXCEPT ![t] = @ (+) SetToBag({<<s, tgt[t]>>})]
  /\ Set(cur, t, <<s, tgt[t]>>)
  /\ Return(t)

IgetHit(t) ==
  LET m == Matches(ScanRange(hash), tgt[t]) IN
  /\ At(t, "igetScan") /\ bucket[hash] = None /\ m # {}
  /\ bucket' = [bucket EXCEPT ![hash] = t]
  /\ Set(cur, t, <<SetMin(m), tgt[t]>>)
  /\ Set(loaded, t, ref[SetMin(m)])
  /\ Goto(t, "igetInc")
  /\ UNCHANGED <<ref, inum, valid, mode, nlink, slock, disk, ret, tgt, dp, ip,
                 fbi, empty, held, panicked, frame>>

\* ip->ref++ stores the value loaded by the scan; the lock is released.
IgetInc(t) ==
  /\ At(t, "igetInc")
  /\ ref'    = [ref EXCEPT ![Slot(cur[t])] = loaded[t] + 1]
  /\ bucket' = [bucket EXCEPT ![hash] = None]
  /\ IgetReturn(t, Slot(cur[t]))
  /\ UNCHANGED <<inum, valid, mode, nlink, slock, disk, ret, tgt, dp, ip,
                 loaded, fbi, empty, panicked, frame>>

\* Mutant: a free slot is recycled without first looking for the inode.
IgetClaimNoLookup(t) ==
  LET e == Empties(ScanRange(hash)) IN
  /\ At(t, "igetScan") /\ bucket[hash] = None
  /\ e # {}
  /\ ref'   = [ref EXCEPT ![SetMin(e)] = 1]
  /\ inum'  = [inum EXCEPT ![SetMin(e)] = tgt[t]]
  /\ valid' = [valid EXCEPT ![SetMin(e)] = FALSE]
  /\ IgetReturn(t, SetMin(e))
  /\ UNCHANGED <<mode, nlink, slock, bucket, disk, ret, tgt, dp, ip, loaded,
                 fbi, empty, panicked, frame>>

\* No match: recycle the first free slot of the range (fs.c 305-316).
IgetClaim(t) ==
  LET e == Empties(ScanRange(hash)) IN
  /\ At(t, "igetScan") /\ bucket[hash] = None
  /\ Matches(ScanRange(hash), tgt[t]) = {} /\ e # {}
  /\ ref'   = [ref EXCEPT ![SetMin(e)] = 1]
  /\ inum'  = [inum EXCEPT ![SetMin(e)] = tgt[t]]
  /\ valid' = [valid EXCEPT ![SetMin(e)] = FALSE]
  /\ IgetReturn(t, SetMin(e))
  /\ UNCHANGED <<mode, nlink, slock, bucket, disk, ret, tgt, dp, ip, loaded,
                 fbi, empty, panicked, frame>>

\* Neither: release the bucket and sweep every bucket (fs.c 286-303).
IgetMiss(t) ==
  LET R == ScanRange(hash) IN
  /\ At(t, "igetScan") /\ bucket[hash] = None
  /\ Matches(R, tgt[t]) = {} /\ Empties(R) = {}
  /\ Set(fbi, t, 0)
  /\ Set(empty, t, None)
  /\ Goto(t, "fbScan")
  /\ UNCHANGED <<cache, disk, ret, tgt, cur, dp, ip, loaded, held, panicked, frame>>

\* One bucket of the sweep under icache.lock[i]; bucket hash is skipped.
\* A slot of bucket i that holds the inode gets ref++ and is returned with
\* lock i released; otherwise the first free slot is remembered.
FbNext(t) ==
  LET i == fbi[t]
      R == IF i = hash THEN {} ELSE ScanRange(i)
      m == Matches(R, tgt[t]) IN
  /\ At(t, "fbScan") /\ i < NB /\ bucket[i] = None
  /\ IF m # {}
     THEN /\ ref' = [ref EXCEPT ![SetMin(m)] = @ + 1]
          /\ IgetReturn(t, SetMin(m))
          /\ UNCHANGED <<inum, valid, mode, nlink, slock, bucket, disk, ret, tgt,
                         dp, ip, loaded, fbi, empty, panicked, frame>>
     ELSE /\ Set(fbi, t, i + 1)
          /\ Set(empty, t, IF empty[t] = None /\ Empties(R) # {}
                           THEN SetMin(Empties(R)) ELSE empty[t])
          /\ UNCHANGED <<cache, disk, pc, ret, tgt, cur, dp, ip, loaded, held,
                         panicked, frame>>

\* End of the sweep: no free slot panics; a free slot is stamped with no
\* lock held and release(&icache.lock[hash]), a lock this CPU does not
\* hold, panics before anyone can use the stamped slot.
FbEnd(t) ==
  /\ At(t, "fbScan") /\ fbi[t] = NB
  /\ Panic(IF empty[t] = None THEN "iget: no inodes" ELSE "release")

-----------------------------------------------------------------------------
(* ilock (fs.c 333-364): ip->ref < 1 panics, then the sleep-lock is taken  *)
(* and an invalid slot is read from disk; a free inode panics.             *)

\* Entry of ilock on handle h.
IlockEnter(t, h, r) ==
  IF ref[Slot(h)] < 1 THEN Panic("ilock")
  ELSE /\ Set(cur, t, h)
       /\ Call(t, "ilockAcq", r)
       /\ UNCHANGED <<cache, disk, tgt, dp, ip, loaded, fbi, empty, held,
                      panicked, frame>>

IlockAcq(t) ==
  LET s == Slot(cur[t]) IN
  /\ At(t, "ilockAcq") /\ slock[s] = None
  /\ IF ~valid[s] /\ dmode[inum[s]] = 0
     THEN Panic("ilock: no mode")
     ELSE /\ slock' = [slock EXCEPT ![s] = t]
          /\ valid' = [valid EXCEPT ![s] = TRUE]
          /\ mode'  = [mode EXCEPT ![s] = IF valid[s] THEN @ ELSE dmode[inum[s]]]
          /\ nlink' = [nlink EXCEPT ![s] = IF valid[s] THEN @ ELSE dnlink[inum[s]]]
          /\ Return(t)
          /\ UNCHANGED <<ref, inum, bucket, disk, ret, locals, held, panicked, frame>>

(* iunlock (fs.c 367-374) on handle h.                                     *)
IunlockEnter(t, h, r) ==
  /\ Set(cur, t, h)
  /\ Call(t, "iunlock", r)

Iunlock(t) ==
  LET s == Slot(cur[t]) IN
  /\ At(t, "iunlock")
  /\ IF slock[s] # t \/ ref[s] < 1 THEN Panic("iunlock")
     ELSE /\ slock' = [slock EXCEPT ![s] = None]
          /\ Return(t)
          /\ UNCHANGED <<ref, inum, valid, mode, nlink, bucket, disk, ret,
                         locals, held, panicked, frame>>

(* iput (fs.c 384-405) on handle h.                                        *)
IputEnter(t, h, r) ==
  /\ Set(cur, t, h)
  /\ Call(t, "iputAcq", r)

IputAcq(t) ==
  LET s == Slot(cur[t]) IN
  /\ At(t, "iputAcq") /\ slock[s] = None
  /\ slock' = [slock EXCEPT ![s] = t]
  /\ Goto(t, IF valid[s] /\ nlink[s] = 0 THEN "iputCheck" ELSE "iputRel")
  /\ UNCHANGED <<ref, inum, valid, mode, nlink, bucket, disk, ret, locals, held,
                 panicked, frame>>

\* Mutant: the inode is freed without reading ip->ref.
IputCheckAnyRef(t) ==
  LET s == Slot(cur[t]) IN
  /\ At(t, "iputCheck") /\ bucket[1] = None
  /\ mode'  = [mode EXCEPT ![s] = 0]
  /\ valid' = [valid EXCEPT ![s] = FALSE]
  /\ dmode' = [dmode EXCEPT ![inum[s]] = 0]
  /\ Goto(t, "iputRel")
  /\ UNCHANGED <<ref, inum, nlink, slock, bucket, dnlink, named, ret, locals,
                 held, panicked, frame>>

\* r = ip->ref under icache.lock[1]; if r == 1: itrunc, ip->mode = 0,
\* iupdate, ip->valid = 0.  The content freed by itrunc is InodeContent's.
IputCheck(t) ==
  LET s == Slot(cur[t])
      last == ref[s] = 1 IN
  /\ At(t, "iputCheck") /\ bucket[1] = None
  /\ mode'  = [mode EXCEPT ![s] = IF last THEN 0 ELSE @]
  /\ valid' = [valid EXCEPT ![s] = IF last THEN FALSE ELSE @]
  /\ dmode' = [dmode EXCEPT ![inum[s]] = IF last THEN 0 ELSE @]
  /\ Goto(t, "iputRel")
  /\ UNCHANGED <<ref, inum, nlink, slock, bucket, dnlink, named, ret, locals,
                 held, panicked, frame>>

IputRel(t) ==
  /\ At(t, "iputRel")
  /\ slock' = [slock EXCEPT ![Slot(cur[t])] = None]
  /\ Goto(t, "iputDec")
  /\ UNCHANGED <<ref, inum, valid, mode, nlink, bucket, disk, ret, locals, held,
                 panicked, frame>>

\* Mutant: the reference is dropped but ip->ref is not decremented.
IputDecNoSub(t) ==
  /\ At(t, "iputDec")
  /\ held' = [held EXCEPT ![t] = @ (-) SetToBag({cur[t]})]
  /\ Return(t)
  /\ UNCHANGED <<ref, inum, valid, mode, nlink, slock, bucket, disk, ret, locals,
                 panicked, frame>>

\* __sync_sub_and_fetch(&ip->ref, 1): the reference is gone.
IputDec(t) ==
  /\ At(t, "iputDec")
  /\ ref'  = [ref EXCEPT ![Slot(cur[t])] = @ - 1]
  /\ held' = [held EXCEPT ![t] = @ (-) SetToBag({cur[t]})]
  /\ Return(t)
  /\ UNCHANGED <<inum, valid, mode, nlink, slock, bucket, disk, ret, locals,
                 panicked, frame>>

-----------------------------------------------------------------------------
(* The callers: sys_open, create, sys_unlink, filestat and fileclose.      *)
(* Every path has one element, "/name" or "name": namex starts from the   *)
(* root, by iget(ROOTDEV, ROOTINO) or by idup of the cwd, which is the     *)
(* root for every process, and looks the name up in it.                    *)

\* Every process's cwd: the root, cached since boot in bucket hash's first
\* slot.
Cwd == <<hash, ROOTINO>>

\* A process that is not in a system call; it keeps its cwd and at most
\* MaxHeld open files.
Idle(t) == At(t, "idle") /\ BagCardinality(held[t]) <= MaxHeld

\* nameiparent stops at the parent; namei looks the name up.
Parent(t) == sys[t] \in {"create", "unlink"}

\* dirlookup(dp, name) finds an entry: iget(dp->dev, inum) (fs.c 640).
Lookup(t, r) ==
  \E n \in named : /\ Set(tgt, t, n)
                   /\ Call(t, "igetScan", r)
                   /\ UNCHANGED cur

\* dirlookup returns 0: the caller ends with iunlockput(dp).
NotFound(t) == /\ IunlockEnter(t, cur[t], "putDir")
               /\ UNCHANGED tgt

\* The second half of iunlockput(dp).
PutDir(t) ==
  /\ At(t, "putDir")
  /\ IputEnter(t, dp[t], "idle")
  /\ UNCHANGED <<cache, disk, tgt, dp, ip, loaded, fbi, empty, held, panicked, frame>>

\* namex (fs.c 750-758): ip = iget(ROOTDEV, ROOTINO) for "/name", or
\* ip = idup(myproc()->cwd) for "name", whose atomic add takes no lock.
NamexStart(t) ==
  \/ /\ ~rel'[t]
     /\ Set(tgt, t, ROOTINO)
     /\ Call(t, "igetScan", "namexLock")
     /\ UNCHANGED <<cache, cur, held>>
  \/ /\ rel'[t]
     /\ ref'  = [ref EXCEPT ![Slot(Cwd)] = @ + 1]
     /\ held' = [held EXCEPT ![t] = @ (+) SetToBag({Cwd})]
     /\ Set(cur, t, Cwd)
     /\ Goto(t, "namexLock")
     /\ UNCHANGED <<inum, valid, mode, nlink, slock, bucket, ret, tgt>>

\* A system call on a path begins; the path is absolute or relative.
Syscall(t) ==
  /\ Idle(t)
  /\ \E s \in SysCalls : Set(sys, t, s)
  /\ \E b \in RelPaths : Set(rel, t, b)
  /\ NamexStart(t)
  /\ UNCHANGED <<disk, dp, ip, loaded, fbi, empty, panicked>>

\* The root is a directory: ilock(ip) (fs.c 761).
NamexLock(t) == At(t, "namexLock") /\ IlockEnter(t, cur[t], "namexDir")

\* nameiparent: iunlock(ip), return ip (fs.c 766-769).  namei:
\* dirlookup(ip, name) and iunlockput(ip) whether it finds the name or not.
NamexDir(t) ==
  /\ At(t, "namexDir")
  /\ Set(dp, t, cur[t])
  /\ IF Parent(t)
     THEN IunlockEnter(t, cur[t], "parentLock") /\ UNCHANGED tgt
     ELSE \/ Lookup(t, "namexFound")
          \/ IunlockEnter(t, cur[t], "namexMissPut") /\ UNCHANGED tgt
  /\ UNCHANGED <<cache, disk, ip, loaded, fbi, empty, held, panicked, frame>>

NamexFound(t) ==
  /\ At(t, "namexFound")
  /\ Set(ip, t, cur[t])
  /\ IunlockEnter(t, dp[t], "namexPut")
  /\ UNCHANGED <<cache, disk, tgt, dp, loaded, fbi, empty, held, panicked, frame>>

\* namei returns ip: sys_open locks it (sysfile.c 369, 389).
NamexPut(t) ==
  /\ At(t, "namexPut")
  /\ IputEnter(t, dp[t], IF sys[t] = "open" THEN "openLock" ELSE "creatLock")
  /\ UNCHANGED <<cache, disk, tgt, dp, ip, loaded, fbi, empty, held, panicked,
                 frame>>

\* namei returns 0: sys_open fails with ENOENT, or with O_CREATE calls
\* create(path), which walks the path again with nameiparent.
NamexMissPut(t) ==
  /\ At(t, "namexMissPut")
  /\ IputEnter(t, dp[t], IF sys[t] = "creat" THEN "createStart" ELSE "idle")
  /\ UNCHANGED <<cache, disk, tgt, dp, ip, loaded, fbi, empty, held, panicked,
                 frame>>

\* create (sysfile.c 296-298): dp = nameiparent(path, name).
CreateStart(t) ==
  /\ At(t, "createStart")
  /\ Set(sys, t, "create")
  /\ UNCHANGED rel
  /\ NamexStart(t)
  /\ UNCHANGED <<disk, dp, ip, loaded, fbi, empty, panicked>>

\* create and sys_unlink lock the parent that nameiparent returned.
ParentLock(t) ==
  /\ At(t, "parentLock")
  /\ IlockEnter(t, dp[t], IF sys[t] = "create" THEN "createLookup"
                                                ELSE "unlinkLookup")

\* sys_open without O_CREATE (sysfile.c 389-416): ilock(ip); a regular
\* file is neither a link nor a directory; get_fd: iunlock(ip), the
\* reference goes to the new struct file.
OpenLock(t) ==
  /\ At(t, "openLock") /\ IlockEnter(t, ip[t], "getFd")

GetFd(t) ==
  /\ At(t, "getFd")
  /\ IunlockEnter(t, ip[t], "idle")
  /\ UNCHANGED <<cache, disk, tgt, dp, ip, loaded, fbi, empty, held, panicked,
                 frame>>

\* sys_open with O_CREATE on an existing file (sysfile.c 367-376): ilock,
\* not a block device, iunlockput(ip), -ENOTBLK.
CreatLock(t) ==
  /\ At(t, "creatLock") /\ IlockEnter(t, ip[t], "creatUnlock")

CreatUnlock(t) ==
  /\ At(t, "creatUnlock")
  /\ IunlockEnter(t, ip[t], "creatPut")
  /\ UNCHANGED <<cache, disk, tgt, dp, ip, loaded, fbi, empty, held, panicked,
                 frame>>

CreatPut(t) ==
  /\ At(t, "creatPut")
  /\ IputEnter(t, ip[t], "idle")
  /\ UNCHANGED <<cache, disk, tgt, dp, ip, loaded, fbi, empty, held, panicked,
                 frame>>


(* create (sysfile.c 299-351) of a regular file, with dp locked: dirlookup *)
(* finds the name, created meanwhile by another process, or ialloc makes   *)
(* the inode.  create returns ip locked, and sys_open goes to get_fd.      *)

CreateLookup(t) ==
  /\ At(t, "createLookup")
  /\ Set(dp, t, cur[t])
  /\ \/ Lookup(t, "createFound")
     \/ Goto(t, "ialloc") /\ UNCHANGED <<ret, tgt, cur, frame>>
  /\ UNCHANGED <<cache, disk, ip, loaded, fbi, empty, held, panicked, frame>>

\* The name exists: iunlockput(dp); ilock(ip); a regular file is returned.
CreateFound(t) ==
  /\ At(t, "createFound")
  /\ Set(ip, t, cur[t])
  /\ IunlockEnter(t, dp[t], "createFoundPut")
  /\ UNCHANGED <<cache, disk, tgt, dp, loaded, fbi, empty, held, panicked, frame>>

CreateFoundPut(t) ==
  /\ At(t, "createFoundPut")
  /\ IputEnter(t, dp[t], "createFoundLock")
  /\ UNCHANGED <<cache, disk, tgt, dp, ip, loaded, fbi, empty, held, panicked, frame>>

\* Mutant: the found inode is returned without ilock(ip).
CreateFoundLockSkipped(t) ==
  /\ At(t, "createFoundLock")
  /\ Goto(t, "getFd")
  /\ UNCHANGED <<cache, disk, ret, locals, held, panicked, frame>>

CreateFoundLock(t) ==
  At(t, "createFoundLock") /\ IlockEnter(t, ip[t], "getFd")

\* Mutant: the inode loop starts at inum 0.
IallocFromZero(t) ==
  LET free == {n \in DiskInodes : dmode[n] = 0} IN
  /\ At(t, "ialloc")
  /\ IF free = {} THEN Panic("ialloc: no inodes")
     ELSE /\ dmode'  = [dmode EXCEPT ![SetMin(free)] = 1]
          /\ dnlink' = [dnlink EXCEPT ![SetMin(free)] = 0]
          /\ Set(tgt, t, SetMin(free))
          /\ Call(t, "igetScan", "createLock")
          /\ UNCHANGED <<cache, named, cur, dp, ip, loaded, fbi, empty, held,
                         panicked, frame>>

\* ialloc (fs.c 207-234): the first inode with mode 0 is zeroed and typed
\* under its block's buffer lock, then iget(dev, inum).
Ialloc(t) ==
  LET free == {n \in Inums : dmode[n] = 0} IN
  /\ At(t, "ialloc")
  /\ IF free = {} THEN Panic("ialloc: no inodes")
     ELSE /\ dmode'  = [dmode EXCEPT ![SetMin(free)] = 1]
          /\ dnlink' = [dnlink EXCEPT ![SetMin(free)] = 0]
          /\ Set(tgt, t, SetMin(free))
          /\ Call(t, "igetScan", "createLock")
          /\ UNCHANGED <<cache, named, cur, dp, ip, loaded, fbi, empty, held,
                         panicked, frame>>

CreateLock(t) == At(t, "createLock") /\ IlockEnter(t, cur[t], "createInit")

\* ip->nlink = 1, mode, iupdate(ip); dirlink(dp, name); iunlockput(dp).
CreateInit(t) ==
  LET s == Slot(cur[t]) IN
  /\ At(t, "createInit")
  /\ nlink'  = [nlink EXCEPT ![s] = 1]
  /\ mode'   = [mode EXCEPT ![s] = 1]
  /\ dnlink' = [dnlink EXCEPT ![inum[s]] = 1]
  /\ dmode'  = [dmode EXCEPT ![inum[s]] = 1]
  /\ named'  = named \cup {cur[t][2]}
  /\ Set(ip, t, cur[t])
  /\ IunlockEnter(t, dp[t], "createPutDir")
  /\ UNCHANGED <<ref, inum, valid, slock, bucket, tgt, dp, loaded, fbi, empty,
                 held, panicked, frame>>

CreatePutDir(t) ==
  /\ At(t, "createPutDir")
  /\ IputEnter(t, dp[t], "getFd")
  /\ UNCHANGED <<cache, disk, tgt, dp, ip, loaded, fbi, empty, held, panicked, frame>>

(* sys_unlink (sysfile.c 226-286) of a regular file, with dp locked.       *)

UnlinkLookup(t) ==
  /\ At(t, "unlinkLookup")
  /\ Set(dp, t, cur[t])
  /\ Lookup(t, "unlinkLock") \/ NotFound(t)
  /\ UNCHANGED <<cache, disk, ip, loaded, fbi, empty, held, panicked, frame>>

UnlinkLock(t) == At(t, "unlinkLock") /\ IlockEnter(t, cur[t], "unlinkClear")

\* nlink < 1 panics; the entry is zeroed and the root unlocked and put.
UnlinkClear(t) ==
  /\ At(t, "unlinkClear")
  /\ IF nlink[Slot(cur[t])] < 1 THEN Panic("unlink: nlink < 1")
     ELSE /\ named' = named \ {cur[t][2]}
          /\ Set(ip, t, cur[t])
          /\ IunlockEnter(t, dp[t], "unlinkPutDir")
          /\ UNCHANGED <<cache, dmode, dnlink, tgt, dp, loaded, fbi, empty,
                         held, panicked, frame>>

UnlinkPutDir(t) ==
  /\ At(t, "unlinkPutDir")
  /\ IputEnter(t, dp[t], "unlinkDec")
  /\ UNCHANGED <<cache, disk, tgt, dp, ip, loaded, fbi, empty, held, panicked, frame>>

\* ip->nlink--; iupdate(ip); iunlockput(ip).
UnlinkDec(t) ==
  LET s == Slot(ip[t]) IN
  /\ At(t, "unlinkDec")
  /\ nlink'  = [nlink EXCEPT ![s] = @ - 1]
  /\ dnlink' = [dnlink EXCEPT ![inum[s]] = nlink[s] - 1]
  /\ dmode'  = [dmode EXCEPT ![inum[s]] = mode[s]]
  /\ IunlockEnter(t, ip[t], "unlinkPut")
  /\ UNCHANGED <<ref, inum, valid, mode, slock, bucket, named, tgt, dp, ip,
                 loaded, fbi, empty, held, panicked, frame>>

UnlinkPut(t) ==
  /\ At(t, "unlinkPut")
  /\ IputEnter(t, ip[t], "idle")
  /\ UNCHANGED <<cache, disk, tgt, dp, ip, loaded, fbi, empty, held, panicked, frame>>

(* Operations on a reference the thread keeps (an open file or cwd).      *)

\* filestat (file.c 92-101) of an open file: ilock, stati, iunlock.
StatStart(t) ==
  /\ At(t, "idle")
  /\ \E h \in BagToSet(held[t]) \ {Cwd} : IlockEnter(t, h, "statUnlock")

StatUnlock(t) ==
  /\ At(t, "statUnlock")
  /\ IunlockEnter(t, cur[t], "idle")
  /\ UNCHANGED <<cache, disk, tgt, dp, ip, loaded, fbi, empty, held, panicked, frame>>

\* fileclose (file.c 65-87) of the last reference to a file: iput.
CloseStart(t) ==
  /\ At(t, "idle")
  /\ \E h \in BagToSet(held[t]) \ {Cwd} : IputEnter(t, h, "idle")
  /\ UNCHANGED <<cache, disk, tgt, dp, ip, loaded, fbi, empty, held, panicked, frame>>

\* A panicked kernel stops: the state repeats forever.
Halted == panicked # "none" /\ UNCHANGED vars

-----------------------------------------------------------------------------
Init ==
  \* Since boot the root sits in bucket hash's first slot, referenced by
  \* the cwd of every process; memory past the array is in use or not.
  /\ \E inUse \in SUBSET OutOfArray :
       /\ ref  = [s \in Slots |-> IF s \in inUse THEN 1
                                ELSE IF s = Slot(Cwd) THEN Cardinality(Threads)
                                ELSE 0]
       /\ inum = [s \in Slots |-> IF s \in inUse THEN Foreign
                                ELSE IF s = Slot(Cwd) THEN ROOTINO ELSE 0]
  /\ valid  = [s \in Slots |-> FALSE]
  /\ mode   = [s \in Slots |-> 0]
  /\ nlink  = [s \in Slots |-> 0]
  /\ slock  = [s \in Slots |-> None]
  /\ bucket = [b \in 0 .. NBUCKET - 1 |-> None]
  /\ dmode  = [n \in DiskInodes |-> IF n \in {ROOTINO, 2} THEN 1 ELSE 0]
  /\ dnlink = [n \in DiskInodes |-> IF n \in {ROOTINO, 2} THEN 1 ELSE 0]
  /\ named  = {2}
  /\ pc     = [t \in Threads |-> "idle"]
  /\ ret    = [t \in Threads |-> "idle"]
  /\ tgt    = [t \in Threads |-> ROOTINO]
  /\ cur    = [t \in Threads |-> None]
  /\ dp     = [t \in Threads |-> None]
  /\ ip     = [t \in Threads |-> None]
  /\ loaded = [t \in Threads |-> 0]
  /\ fbi    = [t \in Threads |-> 0]
  /\ empty  = [t \in Threads |-> None]
  /\ sys    = [t \in Threads |-> "none"]
  /\ rel    = [t \in Threads |-> FALSE]
  /\ held   = [t \in Threads |-> SetToBag({Cwd})]
  /\ panicked = "none"

Step(t) ==
  \/ IgetHit(t) \/ IgetInc(t) \/ IgetClaim(t) \/ IgetMiss(t)
  \/ FbNext(t) \/ FbEnd(t)
  \/ IlockAcq(t) \/ Iunlock(t)
  \/ IputAcq(t) \/ IputCheck(t) \/ IputRel(t) \/ IputDec(t)
  \/ Syscall(t) \/ NamexLock(t) \/ NamexDir(t) \/ NamexFound(t)
  \/ NamexPut(t) \/ NamexMissPut(t) \/ PutDir(t)
  \/ OpenLock(t) \/ GetFd(t) \/ CreatLock(t) \/ CreatUnlock(t) \/ CreatPut(t)
  \/ CreateStart(t) \/ ParentLock(t) \/ CreateLookup(t) \/ CreateFound(t)
  \/ CreateFoundPut(t) \/ CreateFoundLock(t) \/ Ialloc(t) \/ CreateLock(t)
  \/ CreateInit(t) \/ CreatePutDir(t)
  \/ UnlinkLookup(t) \/ UnlinkLock(t) \/ UnlinkClear(t) \/ UnlinkPutDir(t)
  \/ UnlinkDec(t) \/ UnlinkPut(t)
  \/ StatStart(t) \/ StatUnlock(t) \/ CloseStart(t)

Next == (\E t \in Threads : Step(t)) \/ Halted

Spec == Init /\ [][Next]_vars

-----------------------------------------------------------------------------
(* Properties.                                                             *)

Handles == (Slots \X Inums) \cup {None}

\* Every variable stays in its range: in particular every inode iget is
\* asked for, and every reference held, names an inode of the table (1..).
TypeOK ==
  /\ ref \in [Slots -> Int] /\ inum \in [Slots -> Inums \cup {0, Foreign}]
  /\ valid \in [Slots -> BOOLEAN] /\ mode \in [Slots -> {0, 1}]
  /\ nlink \in [Slots -> Int] /\ slock \in [Slots -> Threads \cup {None}]
  /\ bucket \in [0 .. NBUCKET - 1 -> Threads \cup {None}]
  /\ dmode \in [DiskInodes -> {0, 1}] /\ dnlink \in [DiskInodes -> Int]
  /\ named \subseteq Files
  /\ tgt \in [Threads -> Inums] /\ loaded \in [Threads -> Nat]
  /\ cur \in [Threads -> Handles] /\ dp \in [Threads -> Handles]
  /\ ip \in [Threads -> Handles]
  /\ fbi \in [Threads -> 0 .. NB] /\ empty \in [Threads -> Slots \cup {None}]
  /\ sys \in [Threads -> {"none", "open", "creat", "create", "unlink"}]
  /\ rel \in [Threads -> BOOLEAN]
  /\ \A t \in Threads : IsABag(held[t]) /\ BagToSet(held[t]) \subseteq Handles
  /\ panicked \in Panics

\* References to slot s that threads hold.
Holders(s) ==
  MapThenSumSet(LAMBDA th : CopiesIn(th[2], held[th[1]]),
                {th \in UNION {{<<t, h>> : h \in BagToSet(held[t])} : t \in Threads} :
                   Slot(th[2]) = s})

\* Cache uniqueness (spec section 8): no two referenced slots name the
\* same inode, whatever the interleaving of iget, idup and iput.
CacheUnique ==
  \A s1, s2 \in Slots :
    (s1 # s2 /\ ref[s1] > 0 /\ ref[s2] > 0 /\ inum[s1] # Foreign)
      => inum[s1] # inum[s2]

\* ip->ref counts exactly the references threads hold: iget's plain ++
\* and the atomic add/sub of idup and iput never lose an update.
RefCountExact ==
  \A s \in Slots : inum[s] # Foreign => ref[s] = Holders(s)

\* No thread holds a reference to an inode that iput freed on disk, unless
\* it is that thread's own final iput that freed it.
NoUseAfterFree ==
  \A t \in Threads : \A h \in BagToSet(held[t]) :
    dmode[h[2]] = 1 \/ (pc[t] \in {"iputRel", "iputDec"} /\ cur[t] = h)

\* iget never stamps memory past the end of icache.inode.
NoSlotPastArray ==
  \A s \in OutOfArray : ref[s] > 0 => inum[s] = Foreign

\* t sleeps in ilock or iput on a sleep-lock that u holds.
WaitsFor ==
  [p \in Threads \X Threads |->
     pc[p[1]] \in {"ilockAcq", "iputAcq"} /\ slock[Slot(cur[p[1]])] = p[2]]

\* Sleep-locks are taken in an order that never closes a cycle: no thread
\* waits, directly or through others, for a lock it holds itself.  create
\* keeps the new inode locked across iunlockput(dp), and iput sleeps on
\* dp's lock, while unlink holds dp's lock and sleeps in ilock(ip).
NoSleepLockCycle == IsIrreflexive(TransitiveClosure(WaitsFor, Threads), Threads)

\* The kernel never stops on a broken internal invariant; running out of
\* cache slots or inodes is the design's fatal limit and is allowed.
NoBrokenInvariantPanic ==
  panicked \in {"none", "iget: no inodes", "ialloc: no inodes"}
=============================================================================
