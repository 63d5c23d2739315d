------------------------------ MODULE Directory ------------------------------
(***************************************************************************)
(* Directory entries and link counts, as changed by the system calls of    *)
(* src/kernel/sysfile.c that bind and unbind names: create (from open with *)
(* O_CREATE and from sys_mkdir), sys_link and sys_unlink, through          *)
(* dirlookup and dirlink of src/kernel/fs.c, and the iput that frees an    *)
(* inode with no links.                                                    *)
(*                                                                         *)
(* A directory's content is a sequence of dirents, one per sizeof(de)      *)
(* bytes, so an offset is an entry index.  An inode's entries and nlink    *)
(* change only under its sleep-lock (lk).  dirlink's insertion cache       *)
(* last_inum / last_offset_from_inum is one pair of globals read and       *)
(* written under no lock.  A process is preempted by the timer wherever it *)
(* holds no spin-lock (trap.c 174-176), so steps of two processes          *)
(* interleave whether they run on one CPU or several.                      *)
(*                                                                         *)
(* nameiparent and namei walk the path from the root; the walk is one step *)
(* taken while the directories on the path are unlocked, that ends with a  *)
(* reference to the inode it returns, and the caller locks that inode in a *)
(* later step.                                                             *)
(***************************************************************************)
EXTENDS Integers, Sequences, FiniteSets

CONSTANTS
  Names,      \* the names processes create, link and unlink
  NINODE,     \* inodes besides the root: 2 .. NINODE + 1
  DirMax,     \* MAXFILE * BSIZE / sizeof(de): entries a directory can hold
  Threads,    \* processes making system calls
  None        \* no holder

ROOTINO == 1
Inodes  == 2 .. NINODE + 1
All     == {ROOTINO} \cup Inodes
Free    == [inum |-> 0, name |-> ""]                \* memset(&de, 0, ...)
Entry(i, n) == [inum |-> i, name |-> n]
Entries == {Free} \cup [inum : All, name : Names \cup {".", ".."}]
Calls   == {"creat", "mkdir", "link", "unlink"}
Panics  == {"none", "dirlink", "create: dirlink", "create dots",
            "ialloc: no inodes", "unlink: nlink < 1"}

VARIABLES
  type,            \* type[i]: "free", "file" or "dir" (the dinode's mode)
  nlink,           \* nlink[i]
  content,         \* content[i]: the dirents of directory i
  refs,            \* refs[i]: ip->ref, the references processes hold
  lk,              \* lk[i]: the holder of inode i's sleep-lock
  last_inum, last_offset_from_inum,   \* dirlink's insertion cache
  pc, sc, dp, nm, ip, off, lo,        \* per-process control and locals
  links,           \* links[t]: the dirlink calls still to make, in order
  puts, after,     \* puts[t]: the inodes to iput in order, then go to after[t]
  panicked

fs     == <<type, nlink, content, refs>>
cache  == <<last_inum, last_offset_from_inum>>
locals == <<sc, dp, nm, ip, off, lo, links, puts, after>>
vars   == <<fs, lk, cache, pc, locals, panicked>>

Least(S) == CHOOSE x \in S : \A y \in S : x <= y

Size(d) == Len(content[d])
Ent(d, k) == content[d][k + 1]                     \* the dirent at offset k

\* dirlookup(dp, name, &off): the offsets of in-use entries named n.
Lookup(d, n) == {k \in 0 .. Size(d) - 1 : Ent(d, k).inum # 0 /\ Ent(d, k).name = n}

\* The inodes that names in d (not "." or "..") lead to.
Named(d) == {Ent(d, k).inum : k \in {j \in 0 .. Size(d) - 1 :
                                       Ent(d, j).inum # 0 /\ Ent(d, j).name \in Names}}

\* The directories namex reaches from "/".
RECURSIVE Reach(_)
Reach(S) == LET N == S \cup {i \in UNION {Named(d) : d \in S} : type[i] = "dir"}
            IN IF N = S THEN S ELSE Reach(N)
Reachable == Reach({ROOTINO})

\* The directories on the path from the root to d, both included.
Ancestors(d) == {e \in Reachable : d \in Reach({e})}

\* namex locks each directory of the path in turn, d included when it
\* stops one level early (fs.c 760-768).  The walk is one step, taken when
\* all of them are unlocked: one of the schedules the code allows.
WalkFree(d) == \A e \in Ancestors(d) : lk[e] = None

\* The inodes a path from the root leads to.
Linked == LET R == Reachable IN R \cup UNION {Named(d) : d \in R}

\* isdirempty: no in-use entry past "." and "..".
IsDirEmpty(d) == \A k \in 2 .. Size(d) - 1 : Ent(d, k).inum = 0

At(t, l) == pc[t] = l /\ panicked = "none"
Idle(t) == At(t, "idle")
Goto(t, l) == pc' = [pc EXCEPT ![t] = l]
Set(f, t, v) == f' = [f EXCEPT ![t] = v]

\* iput of each inode of S in turn, then on to label l.
Put(t, S, l) == Set(puts, t, S) /\ Set(after, t, l) /\ Goto(t, "iputCheck")

Panic(why) ==
  /\ panicked' = why
  /\ UNCHANGED <<fs, lk, cache, pc, locals>>

\* Write dirent e at offset k of d; k = Size(d) appends.
WriteDirent(d, k, e) ==
  content' = [content EXCEPT ![d] = IF k = Len(@) THEN Append(@, e)
                                      ELSE [@ EXCEPT ![k + 1] = e]]

-----------------------------------------------------------------------------
(* iput (fs.c 384-405): under ip->lock, read ip->ref; an inode with no     *)
(* links and this last reference is truncated and its type cleared.  The   *)
(* lock is released before ref is decremented.                             *)

\* Mutant: the inode is freed when nlink is 0, whoever else holds it.
IputCheckIgnoresRefs(t) ==
  LET i == Head(puts[t]) IN
  /\ At(t, "iputCheck") /\ lk[i] = None
  /\ IF nlink[i] = 0
     THEN /\ type' = [type EXCEPT ![i] = "free"]
          /\ content' = [content EXCEPT ![i] = <<>>]
     ELSE UNCHANGED <<type, content>>
  /\ Goto(t, "iputDec")
  /\ UNCHANGED <<nlink, refs, lk, cache, locals, panicked>>

IputCheck(t) ==
  LET i == Head(puts[t]) IN
  /\ At(t, "iputCheck") /\ lk[i] = None
  /\ IF nlink[i] = 0 /\ refs[i] = 1
     THEN /\ type' = [type EXCEPT ![i] = "free"]
          /\ content' = [content EXCEPT ![i] = <<>>]
     ELSE UNCHANGED <<type, content>>
  /\ Goto(t, "iputDec")
  /\ UNCHANGED <<nlink, refs, lk, cache, locals, panicked>>

\* __sync_sub_and_fetch(&ip->ref, 1).
IputDec(t) ==
  /\ At(t, "iputDec")
  /\ refs' = [refs EXCEPT ![Head(puts[t])] = @ - 1]
  /\ Set(puts, t, Tail(puts[t]))
  /\ Goto(t, IF Tail(puts[t]) = <<>> THEN after[t] ELSE "iputCheck")
  /\ UNCHANGED <<type, nlink, content, lk, cache, sc, dp, nm, ip, off, lo,
                 links, after, panicked>>
-----------------------------------------------------------------------------
(* dirlink(d, n, i) (fs.c 664-703) for the head <<d, n, i>> of links[t],   *)
(* with d locked by the caller.  The cached offset is read twice, at 680   *)
(* and 681: the build may load it once or twice, and a store by another    *)
(* process between the two loads is seen by the second.                    *)
LD(t) == Head(links[t])[1]
LN(t) == Head(links[t])[2]
LI(t) == Head(links[t])[3]

\* The caller's path when dirlink returns -1: create panics ("create dots"
\* for the entries of a new directory); sys_link does iunlockput(dp) and
\* goes to bad:.
DirlinkFailed(t) ==
  IF sc[t] # "link"
  THEN Panic(IF Len(links[t]) > 1 THEN "create dots" ELSE "create: dirlink")
  ELSE /\ lk' = [lk EXCEPT ![dp[t]] = None]
       /\ Put(t, <<dp[t]>>, "linkBad")
       /\ UNCHANGED <<fs, cache, sc, dp, nm, ip, off, lo, links, panicked>>

\* The scan starts after the cached offset when the inode linked is the one
\* linked last and that offset lies inside the directory, and at 0 if not.
DirlinkStart(t) ==
  /\ IF LI(t) = last_inum /\ last_offset_from_inum + 1 < Size(LD(t))
     THEN Set(lo, t, last_offset_from_inum) /\ Goto(t, "dlOff") /\ UNCHANGED off
     ELSE Set(off, t, 0) /\ Goto(t, "dlScan") /\ UNCHANGED lo
  /\ UNCHANGED <<fs, lk, cache, sc, dp, nm, ip, links, puts, after, panicked>>

\* Mutant: dirlink does not check that the name is absent.
DirlinkLookupDropped(t) == At(t, "dlLookup") /\ DirlinkStart(t)

\* dirlookup(dp, name, 0) finds the name: iput(ip), return -1.  (The
\* inode found has a link, so that iput only drops the reference the
\* lookup took.)
DirlinkLookup(t) ==
  /\ At(t, "dlLookup")
  /\ IF Lookup(LD(t), LN(t)) # {} THEN DirlinkFailed(t) ELSE DirlinkStart(t)

\* off = last_offset_from_inum + sizeof(de): the value loaded at 680, or a
\* second load that sees the current value.
DirlinkOff(t) ==
  /\ At(t, "dlOff")
  /\ \E o \in {lo[t], last_offset_from_inum} : Set(off, t, o + 1)
  /\ Goto(t, "dlScan")
  /\ UNCHANGED <<fs, lk, cache, sc, dp, nm, ip, lo, links, puts, after, panicked>>

\* The offset the loop stops at: the first free entry at or after off[t],
\* or else the size, or off[t] itself if it started past the size.
FreeAt(t) == {k \in off[t] .. Size(LD(t)) - 1 : Ent(LD(t), k).inum = 0}
ScanEnd(t) == IF FreeAt(t) # {} THEN Least(FreeAt(t))
              ELSE IF off[t] > Size(LD(t)) THEN off[t] ELSE Size(LD(t))

\* Mutant: dirlink writes at the offset it starts from, in use or not.
DirlinkScanNoFreeCheck(t) ==
  LET k == off[t] IN
  /\ At(t, "dlScan")
  /\ IF k > Size(LD(t)) \/ k + 1 > DirMax THEN Panic("dirlink")
     ELSE /\ WriteDirent(LD(t), k, Entry(LI(t), LN(t)))
          /\ Goto(t, "dlEnd")
          /\ UNCHANGED <<type, nlink, refs, lk, cache, locals, panicked>>

\* Mutant: writei without its MAXFILE check.
DirlinkScanNoMax(t) ==
  LET k == ScanEnd(t) IN
  /\ At(t, "dlScan")
  /\ IF k > Size(LD(t)) THEN Panic("dirlink")
     ELSE /\ WriteDirent(LD(t), k, Entry(LI(t), LN(t)))
          /\ last_offset_from_inum' = IF FreeAt(t) # {} THEN k ELSE last_offset_from_inum
          /\ Goto(t, "dlEnd")
          /\ UNCHANGED <<type, nlink, refs, lk, last_inum, locals, panicked>>

\* The free entry found is taken and its offset cached.  writei fails
\* (-EDOM) on an offset past the size or past MAXFILE, and dirlink panics.
DirlinkScan(t) ==
  LET k == ScanEnd(t) IN
  /\ At(t, "dlScan")
  /\ IF k > Size(LD(t)) \/ k + 1 > DirMax THEN Panic("dirlink")
     ELSE /\ WriteDirent(LD(t), k, Entry(LI(t), LN(t)))
          /\ last_offset_from_inum' = IF FreeAt(t) # {} THEN k ELSE last_offset_from_inum
          /\ Goto(t, "dlEnd")
          /\ UNCHANGED <<type, nlink, refs, lk, last_inum, locals, panicked>>

\* last_inum = inum.  After the last dirlink: create's iunlockput(dp), then
\* the caller unlocks ip (IpUnlock); sys_link's iunlockput(dp), iput(ip).
DirlinkEnd(t) ==
  /\ At(t, "dlEnd")
  /\ last_inum' = LI(t)
  /\ Set(links, t, Tail(links[t]))
  /\ IF Tail(links[t]) # <<>>
     THEN Goto(t, "dlLookup") /\ UNCHANGED <<lk, puts, after>>
     ELSE /\ lk' = [lk EXCEPT ![dp[t]] = None]
          /\ IF sc[t] = "link" THEN Put(t, <<dp[t], ip[t]>>, "idle")
                               ELSE Put(t, <<dp[t]>>, "ipUnlock")
  /\ UNCHANGED <<fs, last_offset_from_inum, sc, dp, nm, ip, off, lo, panicked>>
-----------------------------------------------------------------------------
(* The system calls.  Each begins with the path walk that returns the      *)
(* parent (nameiparent) or the file (namei) with a reference taken.        *)

\* sys_open with O_CREATE and sys_mkdir call create(path); sys_unlink:
\* dp = nameiparent(path, name).
Start(t, c, d, n) ==
  /\ Idle(t) /\ WalkFree(d)
  /\ refs' = [refs EXCEPT ![d] = @ + 1]
  /\ Set(sc, t, c) /\ Set(dp, t, d) /\ Set(nm, t, n)
  /\ Goto(t, "parentLock")
  /\ UNCHANGED <<type, nlink, content, lk, cache, ip, off, lo, links, puts,
                 after, panicked>>

\* create (sysfile.c 296-316): ilock(dp) and dirlookup.  A name that is
\* present: iunlockput(dp), then the caller's ilock, iunlock and iput of
\* the inode found (sys_open returns it, sys_mkdir fails).  sys_open's
\* own namei of an existing name, before create, ends the same way and is
\* this branch.  Otherwise ialloc of the least free inode, which returns
\* it referenced; with none free it panics.
CreateLookup(t) ==
  LET d == dp[t]
      F == {i \in Inodes : type[i] = "free"}
      i == Least(F) IN
  /\ At(t, "parentLock") /\ sc[t] \in {"creat", "mkdir"} /\ lk[d] = None
  /\ IF Lookup(d, nm[t]) # {}
     THEN LET f == Ent(d, Least(Lookup(d, nm[t]))).inum IN
          /\ refs' = [refs EXCEPT ![f] = @ + 1]
          /\ Set(ip, t, f)
          /\ Put(t, <<d>>, "createFound")
          /\ UNCHANGED <<type, lk, panicked>>
     ELSE IF F = {} THEN Panic("ialloc: no inodes")
     ELSE /\ type' = [type EXCEPT ![i] = IF sc[t] = "mkdir" THEN "dir" ELSE "file"]
          /\ refs' = [refs EXCEPT ![i] = @ + 1]
          /\ lk' = [lk EXCEPT ![d] = t]
          /\ Set(ip, t, i)
          /\ Goto(t, "createLock")
          /\ UNCHANGED <<puts, after, panicked>>
  /\ UNCHANGED <<nlink, content, cache, sc, dp, nm, off, lo, links>>

\* The found path after iunlockput(dp): ilock(ip) waits for the found
\* inode's sleep-lock (sysfile.c 302).  The S_ISREG test and the iunlockput
\* (mkdir) or sys_open's later iunlock touch nothing of the model, so the
\* lock is taken and given back in this step; then ip is put.
CreateFound(t) ==
  /\ At(t, "createFound") /\ lk[ip[t]] = None
  /\ Put(t, <<ip[t]>>, "idle")
  /\ UNCHANGED <<fs, lk, cache, sc, dp, nm, ip, off, lo, links, panicked>>

\* Mutant: mkdir does not count the new ".." in dp->nlink.
CreateLockNoParentInc(t) ==
  LET i == ip[t] IN
  /\ At(t, "createLock") /\ lk[i] = None
  /\ lk' = [lk EXCEPT ![i] = t]
  /\ nlink' = [nlink EXCEPT ![i] = 1]
  /\ Set(links, t, IF sc[t] = "mkdir" THEN <<<<i, ".", i>>, <<i, "..", dp[t]>>,
                                             <<dp[t], nm[t], i>>>>
                   ELSE <<<<dp[t], nm[t], i>>>>)
  /\ Goto(t, "dlLookup")
  /\ UNCHANGED <<type, content, refs, cache, sc, dp, nm, ip, off, lo, puts,
                 after, panicked>>

\* create (sysfile.c 318-346): ilock(ip); nlink = 1; for a directory
\* dp->nlink++ for its "..", and the dirlinks of "." and ".." into ip
\* before the dirlink of the name into dp.
CreateLock(t) ==
  LET i == ip[t] IN
  /\ At(t, "createLock") /\ lk[i] = None
  /\ lk' = [lk EXCEPT ![i] = t]
  /\ nlink' = IF sc[t] = "mkdir" THEN [nlink EXCEPT ![i] = 1, ![dp[t]] = @ + 1]
                                 ELSE [nlink EXCEPT ![i] = 1]
  /\ Set(links, t, IF sc[t] = "mkdir" THEN <<<<i, ".", i>>, <<i, "..", dp[t]>>,
                                             <<dp[t], nm[t], i>>>>
                   ELSE <<<<dp[t], nm[t], i>>>>)
  /\ Goto(t, "dlLookup")
  /\ UNCHANGED <<type, content, refs, cache, sc, dp, nm, ip, off, lo, puts,
                 after, panicked>>

\* create returns ip locked: sys_open's iunlock (its close's iput ends the
\* call) or sys_mkdir's iunlockput(ip).
IpUnlock(t) ==
  /\ At(t, "ipUnlock")
  /\ lk' = [lk EXCEPT ![ip[t]] = None]
  /\ Put(t, <<ip[t]>>, "idle")
  /\ UNCHANGED <<fs, cache, sc, dp, nm, ip, off, lo, links, panicked>>

-----------------------------------------------------------------------------
(* sys_link (sysfile.c 157-208).                                           *)

\* ip = namei(old): an inode a name leads to.
LinkStart(t, i) ==
  /\ Idle(t) /\ \E e \in Reachable : i \in Named(e) /\ WalkFree(e)
  /\ refs' = [refs EXCEPT ![i] = @ + 1]
  /\ Set(sc, t, "link") /\ Set(ip, t, i)
  /\ Goto(t, "linkLock")
  /\ UNCHANGED <<type, nlink, content, lk, cache, dp, nm, off, lo, links,
                 puts, after, panicked>>

\* ilock(ip); a directory: iunlockput(ip), -EISDIR.  Otherwise
\* ip->nlink++, iupdate(ip), iunlock(ip).
LinkLock(t) ==
  /\ At(t, "linkLock") /\ lk[ip[t]] = None
  /\ IF type[ip[t]] = "dir"
     THEN Put(t, <<ip[t]>>, "idle") /\ UNCHANGED nlink
     ELSE /\ nlink' = [nlink EXCEPT ![ip[t]] = @ + 1]
          /\ Goto(t, "linkParent")
          /\ UNCHANGED <<puts, after>>
  /\ UNCHANGED <<type, content, refs, lk, cache, sc, dp, nm, ip, off, lo,
                 links, panicked>>

\* dp = nameiparent(new, name).
LinkParent(t, d, n) ==
  /\ At(t, "linkParent") /\ WalkFree(d)
  /\ refs' = [refs EXCEPT ![d] = @ + 1]
  /\ Set(dp, t, d) /\ Set(nm, t, n)
  /\ Goto(t, "parentLock")
  /\ UNCHANGED <<type, nlink, content, lk, cache, sc, ip, off, lo, links,
                 puts, after, panicked>>

\* nameiparent(new, name) returns 0 (a missing parent, sysfile.c 184-186):
\* retflag = ENOENT and on to bad, which undoes the nlink++.
LinkNoParent(t) ==
  /\ At(t, "linkParent")
  /\ Goto(t, "linkBad")
  /\ UNCHANGED <<fs, lk, cache, sc, dp, nm, ip, off, lo, links, puts, after,
                 panicked>>

\* ilock(dp); dirlink(dp, name, ip->inum).
LinkDirlink(t) ==
  /\ At(t, "parentLock") /\ sc[t] = "link" /\ lk[dp[t]] = None
  /\ lk' = [lk EXCEPT ![dp[t]] = t]
  /\ Set(links, t, <<<<dp[t], nm[t], ip[t]>>>>)
  /\ Goto(t, "dlLookup")
  /\ UNCHANGED <<fs, cache, sc, dp, nm, ip, off, lo, puts, after, panicked>>

\* bad: ilock(ip); ip->nlink--; iupdate(ip); iunlockput(ip).
LinkBad(t) ==
  /\ At(t, "linkBad") /\ lk[ip[t]] = None
  /\ nlink' = [nlink EXCEPT ![ip[t]] = @ - 1]
  /\ Put(t, <<ip[t]>>, "idle")
  /\ UNCHANGED <<type, content, refs, lk, cache, sc, dp, nm, ip, off, lo,
                 links, panicked>>

-----------------------------------------------------------------------------
(* sys_unlink (sysfile.c 226-286) of a name in Names ("." and ".." are     *)
(* refused before any lookup, like a missing name).                        *)

\* ilock(dp); dirlookup takes a reference to the inode found.  A missing
\* name: bad: iunlockput(dp).
UnlinkLookup(t) ==
  LET d == dp[t]
      L == Lookup(d, nm[t]) IN
  /\ At(t, "parentLock") /\ sc[t] = "unlink" /\ lk[d] = None
  /\ IF L = {}
     THEN Put(t, <<d>>, "idle") /\ UNCHANGED <<refs, lk, ip, off>>
     ELSE LET i == Ent(d, Least(L)).inum IN
          /\ refs' = [refs EXCEPT ![i] = @ + 1]
          /\ lk' = [lk EXCEPT ![d] = t]
          /\ Set(ip, t, i) /\ Set(off, t, Least(L))
          /\ Goto(t, "unlinkLock")
          /\ UNCHANGED <<puts, after>>
  /\ UNCHANGED <<type, nlink, content, cache, sc, dp, nm, lo, links, panicked>>

\* ilock(ip); nlink < 1 panics.  A directory that is not empty:
\* iunlockput(ip), then bad: (UnlinkBad).  Otherwise the entry is zeroed,
\* a directory's ".." is uncounted from dp->nlink, and iunlockput(dp).
UnlinkClear(t) ==
  LET i == ip[t]
      d == dp[t] IN
  /\ At(t, "unlinkLock") /\ lk[i] = None
  /\ CASE nlink[i] < 1 -> Panic("unlink: nlink < 1")
       [] type[i] = "dir" /\ ~IsDirEmpty(i) ->
            /\ Put(t, <<i>>, "unlinkBad")
            /\ UNCHANGED <<fs, lk, cache, sc, dp, nm, ip, off, lo, links, panicked>>
       [] OTHER ->
            /\ WriteDirent(d, off[t], Free)
            /\ nlink' = IF type[i] = "dir" THEN [nlink EXCEPT ![d] = @ - 1] ELSE nlink
            /\ lk' = [lk EXCEPT ![i] = t, ![d] = None]
            /\ Put(t, <<d>>, "unlinkDec")
            /\ UNCHANGED <<type, refs, cache, sc, dp, nm, ip, off, lo, links, panicked>>

\* bad: iunlockput(dp), after the ENOTEMPTY iunlockput(ip).
UnlinkBad(t) ==
  /\ At(t, "unlinkBad")
  /\ lk' = [lk EXCEPT ![dp[t]] = None]
  /\ Put(t, <<dp[t]>>, "idle")
  /\ UNCHANGED <<fs, cache, sc, dp, nm, ip, off, lo, links, panicked>>

\* ip->nlink--; iupdate(ip); iunlockput(ip).
UnlinkDec(t) ==
  /\ At(t, "unlinkDec")
  /\ nlink' = [nlink EXCEPT ![ip[t]] = @ - 1]
  /\ lk' = [lk EXCEPT ![ip[t]] = None]
  /\ Put(t, <<ip[t]>>, "idle")
  /\ UNCHANGED <<type, content, refs, cache, sc, dp, nm, ip, off, lo, links,
                 panicked>>

-----------------------------------------------------------------------------
\* A file system as mkfs makes it: the root directory, with "." and "..",
\* and every other inode free.
Init ==
  /\ type = [i \in All |-> IF i = ROOTINO THEN "dir" ELSE "free"]
  /\ nlink = [i \in All |-> IF i = ROOTINO THEN 1 ELSE 0]
  /\ content = [i \in All |-> IF i = ROOTINO
                              THEN <<Entry(ROOTINO, "."), Entry(ROOTINO, "..")>>
                              ELSE <<>>]
  /\ refs = [i \in All |-> 0]
  /\ lk = [i \in All |-> None]
  /\ last_inum = 0 /\ last_offset_from_inum = 0
  /\ pc = [t \in Threads |-> "idle"]
  /\ sc = [t \in Threads |-> "creat"]
  /\ dp = [t \in Threads |-> ROOTINO]
  /\ nm = [t \in Threads |-> None]
  /\ ip = [t \in Threads |-> ROOTINO]
  /\ off = [t \in Threads |-> 0]
  /\ lo = [t \in Threads |-> 0]
  /\ links = [t \in Threads |-> <<>>]
  /\ puts = [t \in Threads |-> <<>>]
  /\ after = [t \in Threads |-> "idle"]
  /\ panicked = "none"

\* After a panic the kernel stops.
Halted == panicked # "none" /\ UNCHANGED vars

\* The walks return a directory reachable from the root (nameiparent) or
\* an inode a name leads to (namei).
Next ==
  \/ \E t \in Threads :
       \/ \E d \in Reachable, n \in Names :
            \/ \E c \in {"creat", "mkdir", "unlink"} : Start(t, c, d, n)
            \/ LinkParent(t, d, n)
       \/ \E i \in Linked \ {ROOTINO} : LinkStart(t, i)
       \/ CreateLookup(t) \/ CreateFound(t) \/ CreateLock(t) \/ IpUnlock(t)
       \/ LinkNoParent(t) \/ LinkLock(t) \/ LinkDirlink(t) \/ LinkBad(t)
       \/ DirlinkLookup(t) \/ DirlinkOff(t) \/ DirlinkScan(t) \/ DirlinkEnd(t)
       \/ UnlinkLookup(t) \/ UnlinkClear(t) \/ UnlinkBad(t) \/ UnlinkDec(t)
       \/ IputCheck(t) \/ IputDec(t)
  \/ Halted

Spec == Init /\ [][Next]_vars

-----------------------------------------------------------------------------
TypeOK ==
  /\ type \in [All -> {"free", "file", "dir"}]
  /\ content \in [All -> Seq(Entries)]
  /\ \A d \in All : Size(d) <= DirMax
  /\ nlink \in [All -> Nat] /\ refs \in [All -> Nat]
  /\ lk \in [All -> Threads \cup {None}]
  /\ last_inum \in {0} \cup All /\ last_offset_from_inum \in 0 .. DirMax - 1
  /\ sc \in [Threads -> Calls] /\ dp \in [Threads -> All]
  /\ nm \in [Threads -> Names \cup {None}] /\ ip \in [Threads -> All]
  /\ off \in [Threads -> Nat] /\ lo \in [Threads -> Nat]
  /\ links \in [Threads -> Seq(All \X (Names \cup {".", ".."}) \X All)]
  /\ puts \in [Threads -> Seq(All)]
  /\ panicked \in Panics

\* dirlink's dirlookup and its write happen under one hold of the
\* directory's sleep-lock, and create and unlink look up under the same
\* lock: a directory never holds two in-use entries with one name.
NamesUnique == \A d \in All, n \in Names : Cardinality(Lookup(d, n)) <= 1

\* The entries that count in nlink[i]: those of the directories reachable
\* from the root, except a directory's "." and the root's "..".  (A
\* directory being unlinked is unreachable once its entry is zeroed; its
\* ".." is uncounted from the parent in that step, before its own nlink--.)
Counts(d, k, i) ==
  /\ k < Size(d) /\ Ent(d, k).inum = i
  /\ Ent(d, k).name # "." /\ ~(d = ROOTINO /\ Ent(d, k).name = "..")

\* nlink never undercounts the entries naming an inode: sys_link raises it
\* before dirlink writes the entry and lowers it on the bad: path only
\* after the entry failed; mkdir raises dp->nlink before the new ".."
\* exists; unlink zeroes the entry before nlink--.  An undercount lets
\* iput free an inode a directory still names.
LinksCounted ==
  LET R == Reachable IN
  \A i \in All :
     Cardinality({<<d, k>> \in R \X (0 .. DirMax - 1) : Counts(d, k, i)}) <= nlink[i]

\* Every entry namex can reach from the root names an allocated inode:
\* iput frees an inode only when it has no links and holds the last
\* reference, so a sys_link that holds namei's reference across an unlink
\* of the old name links a live file.
NoDanglingEntry ==
  \A d \in Reachable : \A k \in 0 .. Size(d) - 1 :
     Ent(d, k).inum # 0 => type[Ent(d, k).inum] # "free"

\* When no system call is in progress, every inode with a link is one a
\* path leads to.  create and sys_link take their reference to the parent
\* in nameiparent and lock it only later; unlink removes an empty
\* directory under its lock without knowing of that reference, and the
\* create or link then writes its entry into the removed directory.
NoLostInode ==
  (\A t \in Threads : pc[t] = "idle") =>
     \A i \in Inodes : type[i] # "free" /\ nlink[i] > 0 => i \in Linked

\* The spec's lifetime of an inode: it is freed on disk when its link count
\* is zero and the last in-memory reference is dropped.  iput reads ref
\* under ip->lock but decrements it after releasing the lock, so two
\* iputs of an unlinked inode can each see the other's reference.
OrphansFreed == \A i \in Inodes : type[i] # "free" => nlink[i] > 0 \/ refs[i] > 0

\* The directories as name-to-inode bindings, seen in linked directories:
\* create and sys_link add a binding for an absent name, unlink removes
\* one; no other step changes one (the insertion cache only chooses where
\* an entry goes, and a directory is unlinked only when it binds nothing).
Bindings(d) == IF nlink[d] > 0
               THEN {<<Ent(d, k).name, Ent(d, k).inum>> :
                       k \in {j \in 0 .. Size(d) - 1 :
                                Ent(d, j).inum # 0 /\ Ent(d, j).name \in Names}}
               ELSE {}

DN == INSTANCE DirNames WITH Dirs <- All, Inodes <- All,
                             names <- [d \in All |-> Bindings(d)]

NamesSpec == DN!Spec
=============================================================================
