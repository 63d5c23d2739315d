----------------------------- MODULE FileTable -----------------------------
(***************************************************************************)
(* The file-descriptor layer: the global table of open-file structures    *)
(* (ftable in kernel/file.c), each process's descriptor table (ofile), and  *)
(* the system calls of kernel/sysfile.c that use them: open (its get_fd    *)
(* part), dup, close, read, write and lseek.                               *)
(*                                                                         *)
(* File content is the abstract content of FileContent, which the block    *)
(* layer (InodeContent) is checked to implement: a call of readi or writei *)
(* made under the inode's sleep-lock is one step on that content.  The     *)
(* inode's sleep-lock is ilock; its reference count as far as this layer   *)
(* holds references is iref.  A process runs one system call at a time;    *)
(* processes interleave at every lock and at every chunk of filewrite.     *)
(***************************************************************************)
EXTENDS Integers, Sequences, FiniteSets, FiniteSetsExt

CONSTANTS
    Procs,      \* processes
    NOFILE,     \* descriptors per process
    NFILE,      \* slots of ftable
    Inodes,     \* the inodes that can be opened (model values)
    Vals,       \* byte values written
    MaxBytes,   \* MAXFILE * BSIZE
    MaxChunk,   \* filewrite's max, ((MAXOPBLOCKS-1-1-2)/2)*512, scaled down
    Lens,       \* byte counts passed to read and write
    Shifts,     \* offsets passed to lseek
    IovCnt,     \* the most iovecs passed to writev
    W           \* width of f->off and of readi/writei's uint32_t arithmetic

ASSUME MaxChunk \in 1..MaxBytes /\ Lens \subseteq 1..MaxBytes /\ MaxBytes < 2^W

Word  == 2^W
Slots == 1..NFILE           \* 0 is the null struct file pointer
Fds   == 0..NOFILE-1
None  == "none"
Modes == {"O_RDONLY", "O_WRONLY", "O_RDWR"}
Whences == {"SEEK_SET", "SEEK_CUR", "SEEK_END"}
\* The iovec arrays passed to writev: a buffer is iov_len copies of a value.
Iovecs == UNION {[1..k -> [len : Lens, val : Vals]] : k \in 1..IovCnt}

VARIABLES
    ref, type, ip, off, readable, writable,   \* the fields of ftable.file[s]
    ofile,      \* ofile[p][fd]: the slot descriptor fd of p refers to (0: none)
    content,    \* content[i]: the bytes of inode i
    iref,       \* iref[i]: references to inode i held by open files
    ilock,      \* ilock[i]: the process holding i's sleep-lock, or None
    panicked,   \* the argument of the first panic, or None
    pc,         \* where process p is in its system call
    cf,         \* the struct file *f the call works on
    cn,         \* n: bytes requested
    ci,         \* filewrite's i: bytes written so far
    cv,         \* the byte value the caller's buffer holds
    coff,       \* the value of f->off passed to readi or writei
    cr,         \* r: what readi or writei returned (-1 stands for -EDOM)
    cvec,       \* sys_writev's iovecs (<<>> in sys_write)
    cvi         \* sys_writev's i: the iovecs written so far

slots  == <<ref, type, ip, off, readable, writable>>
locals == <<pc, cf, cn, ci, cv, coff, cr, cvec, cvi>>
vars   == <<slots, ofile, content, iref, ilock, panicked, locals>>

\* The content layer the calls act on (no crash here: saved is content).
FC == INSTANCE FileContent WITH Files <- Inodes, saved <- content

Size(i) == Len(content[i])

\* A process at the top of the system call loop, able to make a new call.
Idle(p) == panicked = None /\ pc[p] = "idle"

\* argfd: the descriptor names an open file (otherwise the call returns
\* -EBADF and changes nothing).
ArgFd(p, fd) == ofile[p][fd] # 0

-----------------------------------------------------------------------------
(* Allocation and release                                                  *)

\* filealloc: the first slot with ref 0 (the scan holds ftable.lock).
FreeSlots == {s \in Slots : ref[s] = 0}

\* fdalloc: the lowest descriptor of p with no file.
FreeFds(p) == {fd \in Fds : ofile[p][fd] = 0}

\* Mutant: the type tested after the slot is cleared, as if fileclose
\* read f->type instead of its copy ff.type: the inode is never put.
FileCloseResetFirst(s) ==
    IF ref[s] < 1
    THEN /\ panicked' = "fileclose"
         /\ UNCHANGED <<ref, type, iref>>
    ELSE /\ ref' = [ref EXCEPT ![s] = @ - 1]
         /\ IF ref[s] = 1
            THEN type' = [type EXCEPT ![s] = "none"] /\ UNCHANGED iref
            ELSE UNCHANGED <<type, iref>>
         /\ UNCHANGED panicked

\* fileclose(f): drop one reference; the last one clears the slot and puts
\* the inode.  ff is a copy, so the inode put after release(&ftable.lock)
\* is the one the slot held even if filealloc reuses the slot meanwhile.
FileClose(s) ==
    IF ref[s] < 1
    THEN /\ panicked' = "fileclose"
         /\ UNCHANGED <<ref, type, iref>>
    ELSE /\ ref' = [ref EXCEPT ![s] = @ - 1]
         /\ IF ref[s] = 1
            THEN /\ type' = [type EXCEPT ![s] = "none"]
                 /\ iref' = IF type[s] = "inode"
                            THEN [iref EXCEPT ![ip[s]] = @ - 1] ELSE iref
            ELSE UNCHANGED <<type, iref>>
         /\ UNCHANGED panicked

\* fileopen from get_fd on: inode i has been found and locked by namei and
\* ilock (one more reference).  filealloc and fdalloc either both succeed,
\* and the slot is filled in after iunlock, or the slot is given back with
\* fileclose and iunlockput drops the reference namei took.
OpenFile(p, i, m) ==
    /\ Idle(p)
    /\ ilock[i] = None
    /\ FreeSlots # {}
    /\ LET s == Min(FreeSlots) IN
       IF FreeFds(p) = {}
       THEN \* filealloc set ref to 1; fileclose puts it back to 0
            /\ type' = [type EXCEPT ![s] = "none"]
            /\ UNCHANGED <<ref, ip, off, readable, writable, ofile, iref>>
       ELSE /\ ofile' = [ofile EXCEPT ![p][Min(FreeFds(p))] = s]
            /\ ref' = [ref EXCEPT ![s] = 1]
            /\ type' = [type EXCEPT ![s] = "inode"]
            /\ ip' = [ip EXCEPT ![s] = i]
            /\ off' = [off EXCEPT ![s] = 0]
            /\ readable' = [readable EXCEPT ![s] = m # "O_WRONLY"]
            /\ writable' = [writable EXCEPT ![s] = m \in {"O_WRONLY", "O_RDWR"}]
            /\ iref' = [iref EXCEPT ![i] = @ + 1]
    /\ UNCHANGED <<content, ilock, panicked, locals>>

\* Mutant: sys_dup without filedup.
DupNoFiledup(p, fd) ==
    /\ Idle(p)
    /\ ArgFd(p, fd)
    /\ FreeFds(p) # {}
    /\ ofile' = [ofile EXCEPT ![p][Min(FreeFds(p))] = ofile[p][fd]]
    /\ UNCHANGED <<slots, content, iref, ilock, panicked, locals>>

\* filedup(f): one more reference under ftable.lock; fatal below 1.
FileDup(s) ==
    IF ref[s] < 1
    THEN panicked' = "filedup" /\ UNCHANGED ref
    ELSE ref' = [ref EXCEPT ![s] = @ + 1] /\ UNCHANGED panicked

\* sys_dup: fdalloc publishes the descriptor, then filedup counts it.
Dup(p, fd) ==
    /\ Idle(p)
    /\ ArgFd(p, fd)
    /\ FreeFds(p) # {}
    /\ ofile' = [ofile EXCEPT ![p][Min(FreeFds(p))] = ofile[p][fd]]
    /\ FileDup(ofile[p][fd])
    /\ UNCHANGED <<type, ip, off, readable, writable, content, iref, ilock, locals>>

\* sys_close: clear the descriptor, then fileclose.
Close(p, fd) ==
    /\ Idle(p)
    /\ ArgFd(p, fd)
    /\ ofile' = [ofile EXCEPT ![p][fd] = 0]
    /\ FileClose(ofile[p][fd])
    /\ UNCHANGED <<ip, off, readable, writable, content, ilock, locals>>

\* fork, from the process layer: the child q, a process with no open
\* files, gets a copy of p's descriptors and each is filedup'ed.
Fork(p, q) ==
    /\ Idle(p) /\ Idle(q) /\ p # q
    /\ \A fd \in Fds : ofile[q][fd] = 0
    /\ \E fd \in Fds : ArgFd(p, fd)
    /\ ofile' = [ofile EXCEPT ![q] = ofile[p]]
    /\ ref' = [s \in Slots |->
                 ref[s] + Cardinality({fd \in Fds : ofile[p][fd] = s})]
    /\ UNCHANGED <<type, ip, off, readable, writable, content, iref, ilock,
                   panicked, locals>>

-----------------------------------------------------------------------------
(* Offsets, reads and writes                                               *)

\* fileseek: the int offset is f->off + n or n, stored back into the
\* uint32_t f->off; SEEK_END takes the size and ignores n.
FileSeek(s, n, whence) ==
    CASE whence = "SEEK_CUR" -> (off[s] + n) % Word
      [] whence = "SEEK_SET" -> n % Word
      [] whence = "SEEK_END" -> Size(ip[s])

\* sys_lseek: argfd, the S_ISFIFO/S_ISSOCK test (false for the regular
\* files opened here), then fileseek, which writes f->off with no lock held.
Seek(p, fd, n, whence) ==
    /\ Idle(p)
    /\ ArgFd(p, fd)
    /\ off' = [off EXCEPT ![ofile[p][fd]] = FileSeek(ofile[p][fd], n, whence)]
    /\ UNCHANGED <<ref, type, ip, readable, writable, ofile, content, iref,
                   ilock, panicked, locals>>

\* readi: -EDOM past the end or on uint32_t overflow, else n clamped to
\* the bytes left.
Readi(i, o, n) ==
    IF o > Size(i) \/ (o + n) % Word < o THEN -1
    ELSE IF o + n > Size(i) THEN Size(i) - o ELSE n

\* sys_read and fileread up to readi: a file not opened for reading gives
\* -EINVAL and changes nothing; otherwise take the inode's lock and read
\* at f->off.
ReadStart(p, fd, n) ==
    /\ Idle(p)
    /\ ArgFd(p, fd)
    /\ LET s == ofile[p][fd] IN
       /\ readable[s]
       /\ ilock[ip[s]] = None
       /\ ilock' = [ilock EXCEPT ![ip[s]] = p]
       /\ pc' = [pc EXCEPT ![p] = "read"]
       /\ cf' = [cf EXCEPT ![p] = s]
       /\ cn' = [cn EXCEPT ![p] = n]
       /\ coff' = [coff EXCEPT ![p] = off[s]]
       /\ cr' = [cr EXCEPT ![p] = Readi(ip[s], off[s], n)]
    /\ UNCHANGED <<slots, ofile, content, iref, panicked, ci, cv, cvec, cvi>>

\* fileread after readi: f->off += r when r > 0, then inode_unlock.
ReadEnd(p) ==
    /\ panicked = None
    /\ pc[p] = "read"
    /\ LET s == cf[p] IN
       /\ off' = [off EXCEPT ![s] = IF cr[p] > 0 THEN (@ + cr[p]) % Word ELSE @]
       /\ ilock' = [ilock EXCEPT ![ip[s]] = None]
    /\ pc' = [pc EXCEPT ![p] = "idle"]
    /\ UNCHANGED <<ref, type, ip, readable, writable, ofile, content, iref,
                   panicked, cf, cn, ci, cv, coff, cr, cvec, cvi>>

\* sys_write and filewrite's entry: -EROFS if not opened for writing.
WriteStart(p, fd, n, v) ==
    /\ Idle(p)
    /\ ArgFd(p, fd)
    /\ writable[ofile[p][fd]]
    /\ pc' = [pc EXCEPT ![p] = "write"]
    /\ cf' = [cf EXCEPT ![p] = ofile[p][fd]]
    /\ cn' = [cn EXCEPT ![p] = n]
    /\ ci' = [ci EXCEPT ![p] = 0]
    /\ cv' = [cv EXCEPT ![p] = v]
    /\ cvec' = [cvec EXCEPT ![p] = <<>>]
    /\ UNCHANGED <<slots, ofile, content, iref, ilock, panicked, coff, cr, cvi>>

\* sys_writev: argfd, then for i < iovcnt, filewrite(file, iovecs->iov_base,
\* iovecs->iov_len).  The first filewrite starts here.
WritevStart(p, fd, iov) ==
    /\ Idle(p)
    /\ ArgFd(p, fd)
    /\ writable[ofile[p][fd]]
    /\ pc' = [pc EXCEPT ![p] = "write"]
    /\ cf' = [cf EXCEPT ![p] = ofile[p][fd]]
    /\ cn' = [cn EXCEPT ![p] = iov[1].len]
    /\ ci' = [ci EXCEPT ![p] = 0]
    /\ cv' = [cv EXCEPT ![p] = iov[1].val]
    /\ cvec' = [cvec EXCEPT ![p] = iov]
    /\ cvi' = [cvi EXCEPT ![p] = 0]
    /\ UNCHANGED <<slots, ofile, content, iref, ilock, panicked, coff, cr>>

\* Mutant: writei without the MAXFILE * BSIZE check.
WriteiNoMaxCheck(i, o, n) ==
    IF o > Size(i) \/ (o + n) % Word < o THEN -1 ELSE n

\* writei: -EDOM past the end, on overflow, or beyond MAXFILE.
Writei(i, o, n) ==
    IF o > Size(i) \/ (o + n) % Word < o \/ o + n > MaxBytes THEN -1 ELSE n

\* One chunk of filewrite's loop: n1 = min(n - i, max) bytes; begin_op,
\* inode_lock, and writei at f->off.
WriteChunk(p) ==
    /\ panicked = None
    /\ pc[p] = "write"
    /\ LET s  == cf[p]
           i  == ip[s]
           n1 == Min({cn[p] - ci[p], MaxChunk})
           r  == Writei(i, off[s], n1)
       IN /\ ilock[i] = None
          /\ ilock' = [ilock EXCEPT ![i] = p]
          /\ content' = IF r < 0 THEN content
                        ELSE [content EXCEPT ![i] =
                                FC!Overwrite(@, off[s], [k \in 1..n1 |-> cv[p]])]
          /\ coff' = [coff EXCEPT ![p] = off[s]]
          /\ cr' = [cr EXCEPT ![p] = r]
    /\ pc' = [pc EXCEPT ![p] = "chunk"]
    /\ UNCHANGED <<slots, ofile, iref, panicked, cf, cn, ci, cv, cvec, cvi>>

\* The rest of the chunk: f->off += r when r > 0, inode_unlock, end_op;
\* stop at an error (returning -EDOM whatever was written before), else
\* i += r and loop while i < n.  writei returns n1 or an error, so the
\* "short filewrite" panic is not reachable from inode files.  When
\* filewrite returns n inside sys_writev and iovecs are left, the next
\* filewrite is called on iovecs->iov_base and iovecs->iov_len: iovecs is
\* never advanced, so it is the first iovec again.
WriteAdvance(p) ==
    /\ panicked = None
    /\ pc[p] = "chunk"
    /\ LET s == cf[p]
           more == cr[p] >= 0 /\ ci[p] + cr[p] < cn[p]
           next == cr[p] >= 0 /\ ~more /\ cvi[p] + 1 < Len(cvec[p])
       IN /\ off' = [off EXCEPT ![s] = IF cr[p] > 0 THEN (@ + cr[p]) % Word ELSE @]
          /\ ilock' = [ilock EXCEPT ![ip[s]] = None]
          /\ pc' = [pc EXCEPT ![p] = IF more \/ next THEN "write" ELSE "idle"]
          /\ IF next
             THEN /\ ci' = [ci EXCEPT ![p] = 0]
                  /\ cn' = [cn EXCEPT ![p] = cvec[p][1].len]
                  /\ cv' = [cv EXCEPT ![p] = cvec[p][1].val]
                  /\ cvi' = [cvi EXCEPT ![p] = @ + 1]
             ELSE /\ ci' = [ci EXCEPT ![p] = IF cr[p] < 0 THEN @ ELSE @ + cr[p]]
                  /\ UNCHANGED <<cn, cv, cvi>>
    /\ UNCHANGED <<ref, type, ip, readable, writable, ofile, content, iref,
                   panicked, cf, coff, cr, cvec>>

-----------------------------------------------------------------------------

Init ==
    /\ ref = [s \in Slots |-> 0]
    /\ type = [s \in Slots |-> "none"]
    /\ ip = [s \in Slots |-> None]
    /\ off = [s \in Slots |-> 0]
    /\ readable = [s \in Slots |-> FALSE]
    /\ writable = [s \in Slots |-> FALSE]
    /\ ofile = [p \in Procs |-> [fd \in Fds |-> 0]]
    /\ content = [i \in Inodes |-> <<>>]
    /\ iref = [i \in Inodes |-> 0]
    /\ ilock = [i \in Inodes |-> None]
    /\ panicked = None
    /\ pc = [p \in Procs |-> "idle"]
    /\ cf = [p \in Procs |-> 1]
    /\ cn = [p \in Procs |-> 0]
    /\ ci = [p \in Procs |-> 0]
    /\ cv = [p \in Procs |-> CHOOSE v \in Vals : TRUE]
    /\ coff = [p \in Procs |-> 0]
    /\ cr = [p \in Procs |-> 0]
    /\ cvec = [p \in Procs |-> <<>>]
    /\ cvi = [p \in Procs |-> 0]

Next ==
    \/ \E p \in Procs :
          \/ \E i \in Inodes, m \in Modes : OpenFile(p, i, m)
          \/ \E fd \in Fds :
                \/ Dup(p, fd)
                \/ Close(p, fd)
                \/ \E n \in Shifts, w \in Whences : Seek(p, fd, n, w)
                \/ \E n \in Lens : ReadStart(p, fd, n)
                \/ \E n \in Lens, v \in Vals : WriteStart(p, fd, n, v)
                \/ \E iov \in Iovecs : WritevStart(p, fd, iov)
          \/ ReadEnd(p)
          \/ WriteChunk(p)
          \/ WriteAdvance(p)
          \/ \E q \in Procs : Fork(p, q)

Spec == Init /\ [][Next]_vars

-----------------------------------------------------------------------------
(* Properties                                                              *)

TypeOK ==
    /\ ref \in [Slots -> 0..NOFILE * Cardinality(Procs)]
    /\ type \in [Slots -> {"none", "inode"}]
    /\ ip \in [Slots -> Inodes \cup {None}]
    /\ off \in [Slots -> 0..Word-1]
    /\ readable \in [Slots -> BOOLEAN] /\ writable \in [Slots -> BOOLEAN]
    /\ ofile \in [Procs -> [Fds -> 0..NFILE]]
    /\ content \in [Inodes -> Seq(Vals)]
    /\ \A i \in Inodes : Size(i) <= MaxBytes
    /\ ilock \in [Inodes -> Procs \cup {None}]
    /\ pc \in [Procs -> {"idle", "read", "write", "chunk"}]

\* The descriptors referring to slot s, over all processes.
Holders(s) == {<<p, fd>> \in Procs \X Fds : ofile[p][fd] = s}

\* ftable's ref of every slot is the number of descriptors of all processes
\* that refer to it: open, dup, fork and close (and open's failure path,
\* which hands a slot back through fileclose) keep the count exact, so a
\* slot is reused only when no descriptor can reach it.
FileRefsExact ==
    \A s \in Slots :
        /\ ref[s] = Cardinality(Holders(s))
        /\ ref[s] > 0 => type[s] = "inode"

\* Every open-file structure holds exactly one reference to its inode,
\* dropped by the fileclose of its last descriptor: the references open
\* takes (namei) and the ones fileclose puts (iput of the copy ff) balance,
\* on the error path of get_fd too.
InodeRefsExact ==
    \A i \in Inodes :
        iref[i] = Cardinality({s \in Slots : ref[s] > 0 /\ ip[s] = i})

\* fileread and filewrite advance f->off by exactly the bytes readi or
\* writei transferred at the offset they were given (spec: "advance the
\* handle's offset by the bytes transferred"): the value stored is the
\* offset the transfer started at plus r.
OffsetAdvancesByTransfer ==
    [][\A p \in Procs :
         (pc[p] \in {"read", "chunk"} /\ pc'[p] # pc[p] /\ cr[p] > 0)
            => off'[cf[p]] = (coff[p] + cr[p]) % Word]_vars
=============================================================================
