---------------------------- MODULE InodeContent ----------------------------
(***************************************************************************)
(* The content layer of src/kernel/fs.c: the block bitmap (balloc, bfree), *)
(* the address tree of an inode (bmap: NDIRECT direct blocks, one          *)
(* indirect and one double-indirect block), readi, writei and itrunc.      *)
(*                                                                         *)
(* Each file is driven by the process that holds its sleep-lock, so the    *)
(* operations on one file are sequential; operations on different files   *)
(* interleave at each balloc and at each block copied, and share only the  *)
(* bitmap.  Byte arithmetic is unsigned and W bits wide, as uint32_t is in *)
(* the code; the model scales W down together with the block geometry.    *)
(*                                                                         *)
(* filewrite (file.c) drives writei in chunks, one log transaction each.   *)
(* The log itself lies outside this tree; it is modelled from the design   *)
(* (spec.md 5): what the disk holds when no transaction is outstanding is  *)
(* committed as a group, and a crash brings the disk back to it.           *)
(***************************************************************************)
EXTENDS Integers, Sequences, SequencesExt

CONSTANTS
    NDIRECT,    \* direct addresses in ip->addrs
    NINDIRECT,  \* block numbers held by one indirect block
    BSIZE,      \* bytes per block
    FSSIZE,     \* sb.size: blocks on the device
    DataStart,  \* blocks 0 .. DataStart-1 hold metadata, marked in use by mkfs
    Files,      \* the inodes whose content is read and written
    Vals,       \* byte values that writes store (0 is the zeroed byte)
    Lens,       \* byte counts that callers pass to readi and writei
    W,          \* width in bits of uint32_t, scaled with the geometry
    MAXOPBLOCKS,\* blocks one log transaction may write (param.h)
    FwLens,     \* byte counts that callers pass to filewrite
    MaxCrashes  \* crashes a behaviour may contain

ASSUME /\ NDIRECT \in Nat \ {0} /\ NINDIRECT \in Nat \ {0} /\ BSIZE \in Nat \ {0}
       /\ DataStart \in 1 .. FSSIZE /\ 0 \notin Vals /\ Lens \subseteq Nat

MAXFILE == NDIRECT + NINDIRECT + NINDIRECT * NINDIRECT
MaxBytes == MAXFILE * BSIZE
Word == 2 ^ W
ASSUME MaxBytes < Word /\ Lens \subseteq 0 .. Word - 1

\* filewrite's max: the bytes one transaction may carry, leaving room for
\* the inode, an indirect block, the bitmap and two blocks of slop.
FWMAX == ((MAXOPBLOCKS - 1 - 1 - 2) \div 2) * BSIZE
ASSUME FWMAX > 0 /\ FwLens \subseteq 1 .. Word - 1 /\ MaxCrashes \in Nat

Blocks == 0 .. FSSIZE - 1
Meta == 0 .. DataStart - 1
AddrIdx == 0 .. NDIRECT + 1
Entries == 0 .. NINDIRECT - 1
Bytes == {0} \cup Vals
Panics == {"none", "balloc: out of blocks", "freeing free block", "bmap: out of range"}

VARIABLES
    used,       \* blocks whose bitmap bit is set
    addrs,      \* addrs[f][i]: ip->addrs of file f (0: none)
    ind,        \* ind[b][j]: entry j of block b read as uint32_t block numbers
    data,       \* data[b][i]: byte i of block b
    size,       \* ip->size
    op,         \* the call in progress on f: "idle", "write" or "read"
    off,        \* readi/writei's off, advanced by each block copied
    tot,        \* bytes copied so far
    n,          \* bytes to copy (readi clamps it to the size)
    val,        \* the byte value the write in progress stores
    buf,        \* the bytes readi has copied to dst
    panicked,   \* the message of the panic that stopped the kernel
    fwpc,       \* where filewrite on f is: "none", "loop", "writei", "ret"
    fwn,        \* filewrite's n
    fwi,        \* filewrite's i: bytes written by the chunks so far
    foff,       \* f->off of the file filewrite writes through
    fwv,        \* the byte value filewrite stores
    durable,    \* the disk as of the last commit of the log
    crashes,    \* crashes so far
    fwPre,      \* auxiliary: the file's content when filewrite began
    fwStart,    \* auxiliary: f->off when filewrite began
    fwSole      \* auxiliary: no other write began since filewrite did

disk == <<used, addrs, ind, data, size>>
locals == <<op, off, tot, n, val, buf>>
fwvars == <<fwpc, fwn, fwi, foff, fwv, fwPre, fwStart>>
vars == <<disk, locals, panicked, fwvars, fwSole, durable, crashes>>

ZeroBlock == [i \in 0 .. BSIZE - 1 |-> 0]
ZeroEntries == [j \in Entries |-> 0]

-----------------------------------------------------------------------------
(* Address translation.                                                    *)

\* The indices bmap follows for logical block bn: one into ip->addrs, then
\* one into each indirect block on the way down.
Path(bn) ==
    IF bn < NDIRECT THEN <<bn>>
    ELSE IF bn - NDIRECT < NINDIRECT THEN <<NDIRECT, bn - NDIRECT>>
    ELSE LET d == bn - NDIRECT - NINDIRECT
         IN <<NDIRECT + 1, d \div NINDIRECT, d % NINDIRECT>>

\* The block number found at level k of bn's path on disk dk; 0 once a
\* level is missing.
RECURSIVE LevelIn(_, _, _, _)
LevelIn(dk, f, bn, k) ==
    IF k = 1 THEN dk[2][f][Path(bn)[1]]
    ELSE LET up == LevelIn(dk, f, bn, k - 1)
         IN IF up = 0 THEN 0 ELSE dk[3][up][Path(bn)[k]]

Level(f, bn, k) == LevelIn(disk, f, bn, k)

\* What bmap returns for bn when it needs to allocate nothing (0 otherwise).
Addr(f, bn) == Level(f, bn, Len(Path(bn)))

\* The first level of bn's path that bmap must allocate.
Missing(f, bn) == SelectInSeq([k \in 1 .. Len(Path(bn)) |-> Level(f, bn, k)], LAMBDA a : a = 0)

\* Mutant: balloc's scan runs one bit past sb.size (b + bi <= sb.size).
FreeBlocksPastEnd == {b \in 0 .. FSSIZE : b \notin used}

\* The blocks balloc's scan of the bitmap can hand out: those below
\* sb.size whose bit is clear.  It hands out the first.
FreeBlocks == {b \in Blocks : b \notin used}

Panic(why) ==
    /\ panicked' = why
    /\ UNCHANGED <<disk, locals>>

Running(f) == panicked = "none" /\ op[f] # "idle"

\* ip->lock is not held by a filewrite: it holds it from its writei to its
\* f->off += r.
Unlocked(f) == fwpc[f] # "writei"

\* Mutant: balloc hands out the block without setting its bitmap bit.
BmapNoMark(f) ==
    /\ Running(f)
    /\ tot[f] < n[f]
    /\ LET bn == off[f] \div BSIZE IN
       /\ bn < MAXFILE /\ Addr(f, bn) = 0 /\ FreeBlocks # {}
       /\ LET k == Missing(f, bn)
              b == Min(FreeBlocks)
          IN /\ data' = [data EXCEPT ![b] = ZeroBlock]
             /\ IF k = 1
                THEN /\ addrs' = [addrs EXCEPT ![f][Path(bn)[1]] = b]
                     /\ ind' = [ind EXCEPT ![b] = ZeroEntries]
                ELSE /\ ind' = [ind EXCEPT ![b] = ZeroEntries,
                                           ![Level(f, bn, k - 1)][Path(bn)[k]] = b]
                     /\ UNCHANGED addrs
             /\ UNCHANGED <<used, size, locals, panicked>>

\* One balloc inside bmap: the first missing level of the path of the block
\* holding byte off gets a fresh zeroed block (bzero) linked into its parent.
\* readi and writei share it; past MAXFILE blocks bmap panics.
Bmap(f) ==
    /\ Running(f)
    /\ tot[f] < n[f]
    /\ LET bn == off[f] \div BSIZE IN
       /\ bn >= MAXFILE \/ Addr(f, bn) = 0
       /\ IF bn >= MAXFILE THEN Panic("bmap: out of range")
          ELSE IF FreeBlocks = {} THEN Panic("balloc: out of blocks")
          ELSE LET k == Missing(f, bn)
                   b == Min(FreeBlocks)
               IN /\ used' = used \cup {b}
                  /\ data' = [data EXCEPT ![b] = ZeroBlock]
                  /\ IF k = 1
                     THEN /\ addrs' = [addrs EXCEPT ![f][Path(bn)[1]] = b]
                          /\ ind' = [ind EXCEPT ![b] = ZeroEntries]
                     ELSE /\ ind' = [ind EXCEPT ![b] = ZeroEntries,
                                                ![Level(f, bn, k - 1)][Path(bn)[k]] = b]
                          /\ UNCHANGED addrs
                  /\ UNCHANGED <<size, locals, panicked>>

\* Mutant: the copy runs to the end of the block, ignoring n - tot.
ChunkWholeBlock(f) == BSIZE - (off[f] % BSIZE)

\* Mutant: the room left in the block taken as the index of its last byte.
ChunkLastIndex(f) == Min({n[f] - tot[f], BSIZE - 1 - (off[f] % BSIZE)})

\* The block holding byte off, already mapped, and the bytes of it that this
\* iteration copies: m = min(n - tot, BSIZE - off % BSIZE).
Chunk(f) == Min({n[f] - tot[f], BSIZE - (off[f] % BSIZE)})

Mapped(f) == Running(f) /\ tot[f] < n[f] /\ off[f] \div BSIZE < MAXFILE
             /\ Addr(f, off[f] \div BSIZE) # 0

Advance(f) ==
    /\ off' = [off EXCEPT ![f] = @ + Chunk(f)]
    /\ tot' = [tot EXCEPT ![f] = @ + Chunk(f)]

-----------------------------------------------------------------------------
(* writei                                                                  *)

\* Mutant: writei without the wrap-around check off + n < off.
WriteiStartNoWrapCheck(f, o, k, v) ==
    /\ panicked = "none"
    /\ op[f] = "idle" /\ Unlocked(f)
    /\ IF o > size[f] \/ (o + k) % Word > MaxBytes
       THEN UNCHANGED vars
       ELSE /\ op' = [op EXCEPT ![f] = "write"]
            /\ off' = [off EXCEPT ![f] = o]
            /\ n' = [n EXCEPT ![f] = k]
            /\ val' = [val EXCEPT ![f] = v]
            /\ UNCHANGED <<disk, tot, buf, panicked>>

\* writei's checks: an offset past the end, a wrapping sum and a file past
\* MAXFILE blocks return -EDOM.
WriteiRejects(f, o, k) ==
    o > size[f] \/ (o + k) % Word < o \/ (o + k) % Word > MaxBytes

\* writei passed its checks: its copy loop starts at o.
BeginWritei(f, o, k, v) ==
    /\ op' = [op EXCEPT ![f] = "write"]
    /\ off' = [off EXCEPT ![f] = o]
    /\ n' = [n EXCEPT ![f] = k]
    /\ val' = [val EXCEPT ![f] = v]
    /\ UNCHANGED <<disk, tot, buf, panicked>>

\* writei(ip, src, o, k) called with ip->lock held.
WriteiStart(f, o, k, v) ==
    /\ panicked = "none"
    /\ op[f] = "idle" /\ Unlocked(f)
    /\ IF WriteiRejects(f, o, k) THEN UNCHANGED vars ELSE BeginWritei(f, o, k, v)

\* Mutant: memmove to bp->data instead of bp->data + off % BSIZE.
WriteiCopyAtBlockStart(f) ==
    /\ op[f] = "write"
    /\ Mapped(f)
    /\ LET b == Addr(f, off[f] \div BSIZE)
       IN data' = [data EXCEPT ![b] =
                      [i \in 0 .. BSIZE - 1 |-> IF i < Chunk(f) THEN val[f] ELSE @[i]]]
    /\ Advance(f)
    /\ UNCHANGED <<used, addrs, ind, size, op, n, val, buf, panicked>>

\* memmove into the block and log_write: one iteration of the loop.
WriteiCopy(f) ==
    /\ op[f] = "write"
    /\ Mapped(f)
    /\ LET b == Addr(f, off[f] \div BSIZE)
           o == off[f] % BSIZE
       IN data' = [data EXCEPT ![b] =
                      [i \in 0 .. BSIZE - 1 |-> IF o <= i /\ i < o + Chunk(f) THEN val[f] ELSE @[i]]]
    /\ Advance(f)
    /\ UNCHANGED <<used, addrs, ind, size, op, n, val, buf, panicked>>

\* Mutant: the size is set to the end of every non-empty write.
WriteiEndAlwaysSets(f) ==
    /\ op[f] = "write"
    /\ Running(f)
    /\ tot[f] >= n[f]
    /\ size' = [size EXCEPT ![f] = IF n[f] > 0 THEN off[f] ELSE @]
    /\ op' = [op EXCEPT ![f] = "idle"]
    /\ off' = [off EXCEPT ![f] = 0]
    /\ tot' = [tot EXCEPT ![f] = 0]
    /\ n' = [n EXCEPT ![f] = 0]
    /\ val' = [val EXCEPT ![f] = CHOOSE v \in Vals : TRUE]
    /\ UNCHANGED <<used, addrs, ind, data, buf, panicked>>

\* The loop is done: a write that ends past the size grows it (iupdate).
WriteiEnd(f) ==
    /\ op[f] = "write"
    /\ Running(f)
    /\ tot[f] >= n[f]
    /\ size' = [size EXCEPT ![f] = IF n[f] > 0 /\ off[f] > @ THEN off[f] ELSE @]
    /\ op' = [op EXCEPT ![f] = "idle"]
    /\ off' = [off EXCEPT ![f] = 0]
    /\ tot' = [tot EXCEPT ![f] = 0]
    /\ n' = [n EXCEPT ![f] = 0]
    /\ val' = [val EXCEPT ![f] = CHOOSE v \in Vals : TRUE]
    /\ UNCHANGED <<used, addrs, ind, data, buf, panicked>>

-----------------------------------------------------------------------------
(* readi                                                                   *)

\* Mutant: readi without clamping n to the bytes left in the file.
ReadiStartNoClamp(f, o, k) ==
    /\ panicked = "none"
    /\ op[f] = "idle" /\ Unlocked(f)
    /\ IF o > size[f] \/ (o + k) % Word < o
       THEN UNCHANGED vars
       ELSE /\ op' = [op EXCEPT ![f] = "read"]
            /\ off' = [off EXCEPT ![f] = o]
            /\ n' = [n EXCEPT ![f] = k]
            /\ UNCHANGED <<disk, tot, val, buf, panicked>>

\* readi(ip, dst, o, k): -EDOM past the end or on a wrapping sum; otherwise
\* clamp k to the bytes left and start the copy loop.
ReadiStart(f, o, k) ==
    /\ panicked = "none"
    /\ op[f] = "idle" /\ Unlocked(f)
    /\ IF o > size[f] \/ (o + k) % Word < o
       THEN UNCHANGED vars
       ELSE /\ op' = [op EXCEPT ![f] = "read"]
            /\ off' = [off EXCEPT ![f] = o]
            /\ n' = [n EXCEPT ![f] = IF o + k > size[f] THEN size[f] - o ELSE k]
            /\ UNCHANGED <<disk, tot, val, buf, panicked>>

\* memmove out of the block: one iteration of the loop.
ReadiCopy(f) ==
    /\ op[f] = "read"
    /\ Mapped(f)
    /\ LET b == Addr(f, off[f] \div BSIZE)
           o == off[f] % BSIZE
       IN buf' = [buf EXCEPT ![f] = @ \o [i \in 1 .. Chunk(f) |-> data[b][o + i - 1]]]
    /\ Advance(f)
    /\ UNCHANGED <<disk, op, n, val, panicked>>

ReadiEnd(f) ==
    /\ op[f] = "read"
    /\ Running(f)
    /\ tot[f] >= n[f]
    /\ op' = [op EXCEPT ![f] = "idle"]
    /\ off' = [off EXCEPT ![f] = 0]
    /\ tot' = [tot EXCEPT ![f] = 0]
    /\ n' = [n EXCEPT ![f] = 0]
    /\ buf' = [buf EXCEPT ![f] = <<>>]
    /\ UNCHANGED <<disk, val, panicked>>

-----------------------------------------------------------------------------
(* itrunc                                                                  *)

\* The entries of indirect block b that itrunc frees: those before the
\* first zero entry, where its loop breaks.
EntryPrefix(b) ==
    LET e == [j \in 1 .. NINDIRECT |-> ind[b][j - 1]]
        z == SelectInSeq(e, LAMBDA a : a = 0)
    IN IF z = 0 THEN e ELSE SubSeq(e, 1, z - 1)

\* Mutant: itrunc frees the entries of each indirect block listed in the
\* double-indirect block but not the indirect block itself.
FreeListKeepsInner(f) ==
    LET a == addrs[f]
        direct == SelectSeq([i \in 1 .. NDIRECT |-> a[i - 1]], LAMBDA x : x # 0)
        single == IF a[NDIRECT] = 0 THEN <<>> ELSE EntryPrefix(a[NDIRECT]) \o <<a[NDIRECT]>>
        d == a[NDIRECT + 1]
        inner == SelectSeq([i \in 1 .. NINDIRECT |-> IF d = 0 THEN 0 ELSE ind[d][i - 1]],
                           LAMBDA x : x # 0)
        double == IF d = 0 THEN <<>>
                  ELSE FlattenSeq([i \in 1 .. Len(inner) |-> EntryPrefix(inner[i])]) \o <<d>>
    IN direct \o single \o double

\* The blocks itrunc passes to bfree, in its order: the direct blocks, the
\* indirect block's entries and the block itself, then for each non-zero
\* entry of the double-indirect block its entries and itself, then it.
FreeList(f) ==
    LET a == addrs[f]
        direct == SelectSeq([i \in 1 .. NDIRECT |-> a[i - 1]], LAMBDA x : x # 0)
        single == IF a[NDIRECT] = 0 THEN <<>> ELSE EntryPrefix(a[NDIRECT]) \o <<a[NDIRECT]>>
        d == a[NDIRECT + 1]
        inner == SelectSeq([i \in 1 .. NINDIRECT |-> IF d = 0 THEN 0 ELSE ind[d][i - 1]],
                           LAMBDA x : x # 0)
        double == IF d = 0 THEN <<>>
                  ELSE FlattenSeq([i \in 1 .. Len(inner) |-> EntryPrefix(inner[i]) \o <<inner[i]>>])
                       \o <<d>>
    IN direct \o single \o double

\* Mutant: itrunc frees the blocks but leaves ip->addrs pointing at them.
ItruncKeepsAddrs(f) ==
    /\ panicked = "none"
    /\ op[f] = "idle" /\ fwpc[f] = "none"
    /\ LET fl == FreeList(f) IN
       IF ~IsInjective(fl) \/ ~(ToSet(fl) \subseteq used)
       THEN Panic("freeing free block")
       ELSE /\ used' = used \ ToSet(fl)
            /\ size' = [size EXCEPT ![f] = 0]
            /\ UNCHANGED <<addrs, ind, data, locals, panicked>>

\* itrunc, with iupdate: bfree each block (panicking on a clear bit), zero
\* the addresses and the size.  Only iput calls it, on an idle inode.
Itrunc(f) ==
    /\ panicked = "none"
    /\ op[f] = "idle" /\ fwpc[f] = "none"
    /\ LET fl == FreeList(f) IN
       IF ~IsInjective(fl) \/ ~(ToSet(fl) \subseteq used)
       THEN Panic("freeing free block")
       ELSE /\ used' = used \ ToSet(fl)
            /\ addrs' = [addrs EXCEPT ![f] = [i \in AddrIdx |-> 0]]
            /\ size' = [size EXCEPT ![f] = 0]
            /\ UNCHANGED <<ind, data, locals, panicked>>

Halted == panicked # "none" /\ UNCHANGED vars

-----------------------------------------------------------------------------
(* filewrite and the log                                                   *)

\* The file as its tree on disk dk holds it: the bytes below the size (a
\* missing block reads as zeros).
ContentIn(dk, f) ==
    [i \in 1 .. dk[5][f] |->
        LET a == LevelIn(dk, f, (i - 1) \div BSIZE, Len(Path((i - 1) \div BSIZE)))
        IN IF a = 0 THEN 0 ELSE dk[4][a][(i - 1) % BSIZE]]

\* No log transaction is outstanding: no writei runs, neither one a caller
\* wrapped in begin_op/end_op nor a chunk of filewrite.
Quiet == \A f \in Files : op[f] # "write" /\ fwpc[f] # "writei"

\* end_op of the last outstanding transaction commits the disk as a group.
Commit == durable' = IF Quiet' THEN disk' ELSE durable

\* filewrite on f with nothing in progress.
FwIdle(f) ==
    /\ fwpc' = [fwpc EXCEPT ![f] = "none"]
    /\ fwn' = [fwn EXCEPT ![f] = 0]
    /\ fwi' = [fwi EXCEPT ![f] = 0]
    /\ foff' = [foff EXCEPT ![f] = 0]
    /\ fwv' = [fwv EXCEPT ![f] = CHOOSE v \in Vals : TRUE]
    /\ fwPre' = [fwPre EXCEPT ![f] = <<>>]
    /\ fwStart' = [fwStart EXCEPT ![f] = 0]

\* filewrite(f, addr, k) through a writable inode file whose f->off is o.
FileWriteStart(f, o, k, v) ==
    /\ panicked = "none"
    /\ fwpc[f] = "none"
    /\ fwpc' = [fwpc EXCEPT ![f] = "loop"]
    /\ fwn' = [fwn EXCEPT ![f] = k]
    /\ foff' = [foff EXCEPT ![f] = o]
    /\ fwv' = [fwv EXCEPT ![f] = v]
    /\ fwPre' = [fwPre EXCEPT ![f] = ContentIn(disk, f)]
    /\ fwStart' = [fwStart EXCEPT ![f] = o]
    /\ fwSole' = [fwSole EXCEPT ![f] = Quiet]
    /\ UNCHANGED <<disk, locals, panicked, fwi>>

\* The bytes of the next chunk: n1 = min(n - i, max).
N1(f) == IF fwn[f] - fwi[f] > FWMAX THEN FWMAX ELSE fwn[f] - fwi[f]

\* while (i < n): begin_op, ilock, writei(f->ip, addr + i, f->off, n1).
\* writei's -EDOM is followed by iunlock, end_op and the break, so that
\* filewrite returns -EDOM with the chunks before it committed.
FileWriteChunk(f) ==
    /\ panicked = "none"
    /\ fwpc[f] = "loop"
    /\ op[f] = "idle"
    /\ IF WriteiRejects(f, foff[f], N1(f))
       THEN /\ fwpc' = [fwpc EXCEPT ![f] = "ret"]
            /\ UNCHANGED <<disk, locals, panicked>>
       ELSE /\ BeginWritei(f, foff[f], N1(f), fwv[f])
            /\ fwpc' = [fwpc EXCEPT ![f] = "writei"]
    /\ UNCHANGED <<fwn, fwi, foff, fwv, fwPre, fwStart, fwSole>>

\* Mutant: f->off is not advanced by the bytes writei wrote.
FileWriteChunkEndNoOff(f) ==
    /\ fwpc[f] = "writei"
    /\ op[f] = "idle"
    /\ panicked = "none"
    /\ fwi' = [fwi EXCEPT ![f] = @ + N1(f)]
    /\ fwpc' = [fwpc EXCEPT ![f] = IF fwi[f] + N1(f) < fwn[f] THEN "loop" ELSE "ret"]
    /\ UNCHANGED <<disk, locals, panicked, fwn, foff, fwv, fwPre, fwStart, fwSole>>

\* writei returned r = n1 (it returns n whenever it passed its checks, so
\* "short filewrite" cannot panic): f->off += r, iunlock, end_op, i += r.
FileWriteChunkEnd(f) ==
    /\ fwpc[f] = "writei"
    /\ op[f] = "idle"
    /\ panicked = "none"
    /\ foff' = [foff EXCEPT ![f] = (@ + N1(f)) % Word]
    /\ fwi' = [fwi EXCEPT ![f] = @ + N1(f)]
    /\ fwpc' = [fwpc EXCEPT ![f] = IF fwi[f] + N1(f) < fwn[f] THEN "loop" ELSE "ret"]
    /\ UNCHANGED <<disk, locals, panicked, fwn, fwv, fwPre, fwStart, fwSole>>

\* return i == n ? n : -EDOM.
FileWriteReturn(f) ==
    /\ fwpc[f] = "ret"
    /\ FwIdle(f)
    /\ UNCHANGED <<disk, locals, panicked, fwSole>>

\* The machine stops at any point and reboots: the log replays what was
\* committed, every system call in progress is gone.
Crash ==
    /\ crashes < MaxCrashes
    /\ used' = durable[1] /\ addrs' = durable[2] /\ ind' = durable[3]
    /\ data' = durable[4] /\ size' = durable[5]
    /\ op' = [f \in Files |-> "idle"]
    /\ off' = [f \in Files |-> 0]
    /\ tot' = [f \in Files |-> 0]
    /\ n' = [f \in Files |-> 0]
    /\ val' = [f \in Files |-> CHOOSE v \in Vals : TRUE]
    /\ buf' = [f \in Files |-> <<>>]
    /\ panicked' = "none"
    /\ fwpc' = [f \in Files |-> "none"]
    /\ fwn' = [f \in Files |-> 0]
    /\ fwi' = [f \in Files |-> 0]
    /\ foff' = [f \in Files |-> 0]
    /\ fwv' = [f \in Files |-> CHOOSE v \in Vals : TRUE]
    /\ fwPre' = [f \in Files |-> <<>>]
    /\ fwStart' = [f \in Files |-> 0]
    /\ fwSole' = [f \in Files |-> FALSE]
    /\ crashes' = crashes + 1
    /\ UNCHANGED durable

-----------------------------------------------------------------------------

Init ==
    /\ used = Meta
    /\ addrs = [f \in Files |-> [i \in AddrIdx |-> 0]]
    /\ ind = [b \in Blocks |-> ZeroEntries]
    /\ data = [b \in Blocks |-> ZeroBlock]
    /\ size = [f \in Files |-> 0]
    /\ op = [f \in Files |-> "idle"]
    /\ off = [f \in Files |-> 0]
    /\ tot = [f \in Files |-> 0]
    /\ n = [f \in Files |-> 0]
    /\ val = [f \in Files |-> CHOOSE v \in Vals : TRUE]
    /\ buf = [f \in Files |-> <<>>]
    /\ panicked = "none"
    /\ fwpc = [f \in Files |-> "none"]
    /\ fwn = [f \in Files |-> 0]
    /\ fwi = [f \in Files |-> 0]
    /\ foff = [f \in Files |-> 0]
    /\ fwv = [f \in Files |-> CHOOSE v \in Vals : TRUE]
    /\ durable = disk
    /\ crashes = 0
    /\ fwPre = [f \in Files |-> <<>>]
    /\ fwStart = [f \in Files |-> 0]
    /\ fwSole = [f \in Files |-> FALSE]

\* A step of the content layer called directly (by sys_write's other
\* callers, dirlink, iput): a writei it starts ends a filewrite's claim to
\* be the only writer.
ContentStep ==
    /\ \/ \E f \in Files :
             \/ \E o \in 0 .. size[f] + 1, k \in Lens, v \in Vals : WriteiStart(f, o, k, v)
             \/ \E o \in 0 .. size[f] + 1, k \in Lens : ReadiStart(f, o, k)
             \/ Bmap(f)
             \/ WriteiCopy(f)
             \/ WriteiEnd(f)
             \/ ReadiCopy(f)
             \/ ReadiEnd(f)
             \/ Itrunc(f)
    /\ fwSole' = [f \in Files |-> fwSole[f] /\ ~\E g \in Files : op[g] = "idle" /\ op'[g] = "write"]
    /\ UNCHANGED fwvars

\* A filewrite starts where an open file's f->off can be: 0 after open, or
\* the end of the file after lseek(fd, 0, SEEK_END) or earlier writes.
FileWriteStep ==
    \E f \in Files :
        \/ \E o \in {0, size[f]}, k \in FwLens, v \in Vals : FileWriteStart(f, o, k, v)
        \/ FileWriteChunk(f)
        \/ FileWriteChunkEnd(f)
        \/ FileWriteReturn(f)

Next ==
    \/ (ContentStep \/ FileWriteStep) /\ Commit /\ UNCHANGED crashes
    \/ Crash
    \/ Halted

Spec == Init /\ [][Next]_vars

\* The steps of a readi or writei in progress.  Its caller holds the
\* inode's sleeplock, and the loop waits for nothing but bread's disk I/O,
\* which completes: a runnable system call keeps being scheduled, so these
\* steps are weakly fair.  Starting a call and itrunc get no fairness.
Copying(f) ==
    /\ Bmap(f) \/ WriteiCopy(f) \/ WriteiEnd(f) \/ ReadiCopy(f) \/ ReadiEnd(f)
    /\ UNCHANGED <<fwvars, fwSole, crashes>>
    /\ Commit

FairSpec == Spec /\ \A f \in Files : WF_vars(Copying(f))

-----------------------------------------------------------------------------
(* Properties                                                              *)

TypeOK ==
    /\ used \subseteq Blocks /\ Meta \subseteq used
    /\ addrs \in [Files -> [AddrIdx -> Blocks]]
    /\ ind \in [Blocks -> [Entries -> Blocks]]
    /\ data \in [Blocks -> [0 .. BSIZE - 1 -> Bytes]]
    /\ size \in [Files -> 0 .. MaxBytes]
    /\ op \in [Files -> {"idle", "write", "read"}]
    /\ off \in [Files -> 0 .. MaxBytes] /\ tot \in [Files -> Nat] /\ n \in [Files -> Nat]
    /\ val \in [Files -> Vals] /\ buf \in [Files -> Seq(Bytes)]
    /\ panicked \in Panics
    /\ fwpc \in [Files -> {"none", "loop", "writei", "ret"}]
    /\ fwn \in [Files -> Nat] /\ fwi \in [Files -> Nat] /\ foff \in [Files -> 0 .. Word - 1]
    /\ crashes \in 0 .. MaxCrashes

\* The file as its reader sees it: the bytes below the size, read through
\* the tree (a missing block reads as zeros).  A write in progress has
\* already made the bytes below its offset part of the file.
LSize(f) == IF op[f] = "write" /\ off[f] > size[f] THEN off[f] ELSE size[f]
ByteAt(f, i) ==
    LET a == Addr(f, i \div BSIZE) IN IF a = 0 THEN 0 ELSE data[a][i % BSIZE]
Content(f) == [i \in 1 .. LSize(f) |-> ByteAt(f, i - 1)]

\* The blocks whose entries are block numbers: the indirect block, the
\* double-indirect block and the indirect blocks it lists.
IndexBlocks ==
    (UNION {{addrs[f][NDIRECT], addrs[f][NDIRECT + 1]}
              \cup {ind[addrs[f][NDIRECT + 1]][j] : j \in Entries} : f \in Files}) \ {0}
Pointers == {<<"inode", f, i>> : f \in Files, i \in AddrIdx}
            \cup {<<"block", b, j>> : b \in IndexBlocks, j \in Entries}
Target(p) == IF p[1] = "inode" THEN addrs[p[2]][p[3]] ELSE ind[p[2]][p[3]]

\* The bitmap agrees with the trees of all files, in every interleaving of
\* balloc in bmap with itrunc's bfree on another file: a data-region block
\* is marked in use exactly when one pointer of one tree refers to it, so
\* no block is shared between files or leaked, and no pointer reaches the
\* metadata blocks.  It covers truncation completeness: every block bmap
\* allocated is free again after itrunc.
BlocksAccounted ==
    /\ \A b \in Blocks \ Meta :
          Cardinality({p \in Pointers : Target(p) = b}) = IF b \in used THEN 1 ELSE 0
    /\ \A p \in Pointers : Target(p) \notin Meta \ {0}

\* Between writes a file has no holes and no spare blocks: bmap maps logical
\* block bn exactly when bn lies below the size, and the indirect blocks
\* exist exactly when a mapped block needs them.  itrunc's loops stop at the
\* first zero entry and rely on this.
SizeMatchesMapping ==
    \A f \in Files : op[f] # "write" =>
        LET nb == (size[f] + BSIZE - 1) \div BSIZE
            d == addrs[f][NDIRECT + 1]
        IN /\ \A bn \in 0 .. MAXFILE - 1 : (Addr(f, bn) # 0) = (bn < nb)
           /\ (addrs[f][NDIRECT] # 0) = (nb > NDIRECT)
           /\ (d # 0) = (nb > NDIRECT + NINDIRECT)
           /\ d # 0 => \A j \in Entries :
                 (ind[d][j] # 0) = (nb > NDIRECT + NINDIRECT + j * NINDIRECT)

\* readi copies to dst exactly the file's bytes from its starting offset on,
\* across block boundaries and the clamp at the size.
ReadReturnsContent ==
    \A f \in Files : op[f] = "read" =>
        /\ off[f] <= LSize(f)
        /\ buf[f] = SubSeq(Content(f), off[f] - tot[f] + 1, off[f])

\* The only way the content layer stops the kernel is running out of
\* blocks: bfree never meets a clear bit and bmap is never asked for a block
\* past MAXFILE, whatever offsets and counts callers pass.
OnlyDesignedPanics == panicked \in {"none", "balloc: out of blocks"}

\* Every readi and writei that passes its checks returns, unless the kernel
\* panics: each iteration of the copy loop, m = min(n - tot, BSIZE -
\* off % BSIZE), moves tot and off forward, and bmap maps the block it
\* needs or panics.
CallsReturn == \A f \in Files : op[f] # "idle" ~> (op[f] = "idle" \/ panicked # "none")

\* writei and itrunc implement FileContent: every copy loop iteration
\* writes its bytes at an offset inside or at the end of the file, and
\* itrunc empties it; a crash brings back exactly the content of the last
\* commit.
FC == INSTANCE FileContent WITH content <- [f \in Files |-> Content(f)],
                                saved <- [f \in Files |-> ContentIn(durable, f)]
ContentSpec == FC!Spec

\* The chunks of a filewrite become durable one at a time (spec.md 8,
\* chunked-write atomicity): while a filewrite runs with no other writer,
\* what a crash would leave of its file is the content filewrite found,
\* with exactly its first i bytes written from the offset it began at, and
\* f->off has moved by i.  A filewrite that fails with -EDOM part way
\* leaves these chunks and this offset behind.
ChunksPersisted ==
    \A f \in Files : fwpc[f] # "none" /\ fwSole[f] =>
        /\ ContentIn(durable, f) =
              IF fwi[f] = 0 THEN fwPre[f]
              ELSE FC!Overwrite(fwPre[f], fwStart[f], [j \in 1 .. fwi[f] |-> fwv[f]])
        /\ foff[f] = fwStart[f] + fwi[f]
=============================================================================
