------------------------------ MODULE PathName ------------------------------
(***************************************************************************)
(* Path-name parsing of src/kernel/fs.c: skipelem, which copies the next   *)
(* element of a path into a DIRSIZ-byte name, and the element loop of      *)
(* namex behind namei and nameiparent.  A path is the sequence of its      *)
(* bytes before the NUL; a name is the bytes that namecmp (strncmp over *)
(* DIRSIZ) compares: the element itself, or its first DIRSIZ bytes       *)
(* when it is longer (then the name has no NUL).  The directory tree is a  *)
(* constant: Tree maps a directory and a name to the inode of that entry.  *)
(*                                                                         *)
(* Both are pure functions, checked against a reference: a path split at   *)
(* every '/' with the empty pieces dropped.                                *)
(***************************************************************************)
EXTENDS Naturals, Sequences

CONSTANTS
    DIRSIZ,         \* bytes of a directory entry's name
    Chars,          \* the bytes of path elements (not '/')
    MaxPath,        \* the longest path checked
    ROOTINO,        \* the root directory
    Cwd,            \* myproc()->cwd
    Tree,           \* Tree[<<d, name>>]: the inode named name in directory d
    Dirs            \* the inodes that are directories

SLASH == 47     \* '/'

ASSUME DIRSIZ \in Nat \ {0} /\ SLASH \notin Chars /\ MaxPath \in Nat

\* dirlookup(d, name, 0): the inode of d's entry named name, or 0.
Dirlookup(d, name) == IF <<d, name>> \in DOMAIN Tree THEN Tree[<<d, name>>] ELSE 0

\* S_ISDIR(ip->mode)
IsDir(i) == i \in Dirs

Paths == UNION {[1 .. k -> Chars \cup {SLASH}] : k \in 0 .. MaxPath}

\* while (*path == '/') path++;
RECURSIVE SkipSlashes(_)
SkipSlashes(p) == IF p # <<>> /\ Head(p) = SLASH THEN SkipSlashes(Tail(p)) ELSE p

\* while (*path != '/' && *path != 0) path++; len = path - s;
RECURSIVE ElemLen(_)
ElemLen(p) == IF p # <<>> /\ Head(p) # SLASH THEN 1 + ElemLen(Tail(p)) ELSE 0

\* The name memmove leaves for an element: all of it below DIRSIZ bytes
\* (then NUL-terminated), else its first DIRSIZ bytes.
NameOf(e) == IF Len(e) >= DIRSIZ THEN SubSeq(e, 1, DIRSIZ) ELSE e

\* Mutant: the slashes after the element are left on the path.
SkipelemKeepsSlashes(path) ==
    LET p   == SkipSlashes(path)
        len == ElemLen(p)
    IN  IF p = <<>> THEN <<>>
        ELSE <<NameOf(SubSeq(p, 1, len)), SubSeq(p, len + 1, Len(p))>>

\* skipelem(path, name): <<>> for a return of 0; otherwise the name and
\* the path after the element and the slashes that follow it.
Skipelem(path) ==
    LET p   == SkipSlashes(path)
        len == ElemLen(p)
    IN  IF p = <<>> THEN <<>>
        ELSE <<NameOf(SubSeq(p, 1, len)), SkipSlashes(SubSeq(p, len + 1, Len(p)))>>

\* Mutant: nameiparent's early stop is tested before the S_ISDIR check.
RECURSIVE WalkStopFirst(_, _, _, _)
WalkStopFirst(cur, path, nameiparent, name) ==
    LET r == Skipelem(path) IN
    IF r = <<>> THEN IF nameiparent THEN [ip |-> 0, name |-> name]
                     ELSE [ip |-> cur, name |-> name]
    ELSE IF nameiparent /\ r[2] = <<>> THEN [ip |-> cur, name |-> r[1]]
    ELSE IF ~IsDir(cur) THEN [ip |-> 0, name |-> r[1]]
    ELSE IF Dirlookup(cur, r[1]) = 0 THEN [ip |-> 0, name |-> r[1]]
    ELSE WalkStopFirst(Dirlookup(cur, r[1]), r[2], nameiparent, r[1])

\* The loop of namex (fs.c 759-781) from inode cur (namex's ip): each
\* skipelem, then the S_ISDIR check, nameiparent's stop before the last
\* element, and dirlookup; the iunlockput and ilock change no result here.
RECURSIVE Walk(_, _, _, _)
Walk(cur, path, nameiparent, name) ==
    LET r == Skipelem(path) IN
    IF r = <<>> THEN IF nameiparent THEN [ip |-> 0, name |-> name]
                     ELSE [ip |-> cur, name |-> name]
    ELSE IF ~IsDir(cur) THEN [ip |-> 0, name |-> r[1]]
    ELSE IF nameiparent /\ r[2] = <<>> THEN [ip |-> cur, name |-> r[1]]
    ELSE IF Dirlookup(cur, r[1]) = 0 THEN [ip |-> 0, name |-> r[1]]
    ELSE Walk(Dirlookup(cur, r[1]), r[2], nameiparent, r[1])

\* namex: from the root for an absolute path, else from the cwd (idup).
Namex(path, nameiparent) ==
    Walk(IF path # <<>> /\ Head(path) = SLASH THEN ROOTINO ELSE Cwd,
         path, nameiparent, <<>>)

Namei(path) == Namex(path, FALSE).ip
Nameiparent(path) == Namex(path, TRUE)

-----------------------------------------------------------------------------
(* The reference: the pieces of a path between slashes.                    *)

RECURSIVE Pieces(_)
Pieces(path) ==
    IF path = <<>> THEN <<<<>>>>
    ELSE LET acc == Pieces(SubSeq(path, 1, Len(path) - 1))
             c   == path[Len(path)]
         IN  IF c = SLASH THEN Append(acc, <<>>)
             ELSE [acc EXCEPT ![Len(acc)] = Append(@, c)]

Elements(path) ==
    LET E == SelectSeq(Pieces(path), LAMBDA e : e # <<>>)
    IN  [k \in 1 .. Len(E) |-> NameOf(E[k])]

\* The inode the first k elements lead to from d, or 0 when one is missing
\* or a non-directory is passed through.
RECURSIVE Follow(_, _)
Follow(d, es) ==
    IF es = <<>> THEN d
    ELSE IF ~IsDir(d) \/ Dirlookup(d, Head(es)) = 0 THEN 0
    ELSE Follow(Dirlookup(d, Head(es)), Tail(es))

Start(path) == IF path # <<>> /\ Head(path) = SLASH THEN ROOTINO ELSE Cwd

\* The elements skipelem returns, one after the other, each with whether
\* the path it leaves is empty.
RECURSIVE SkipAll(_)
SkipAll(path) ==
    LET r == Skipelem(path) IN
    IF r = <<>> THEN <<>> ELSE <<[name |-> r[1], last |-> r[2] = <<>>]>> \o SkipAll(r[2])

\* Calling skipelem until it returns 0 yields exactly the path's elements,
\* each cut to DIRSIZ bytes, and leaves an empty path after the last one
\* and only there: namex's "*path == '\0'" test for nameiparent's early
\* stop depends on the slashes after an element being skipped (fs.c 739).
SkipelemSplits ==
    \A p \in Paths :
        LET E == Elements(p) IN
        SkipAll(p) = [k \in 1 .. Len(E) |-> [name |-> E[k], last |-> k = Len(E)]]

\* namei returns the inode the path's elements lead to from the root or the
\* cwd, and nameiparent the directory its elements but the last lead to,
\* with the last element as name, and 0 for a path with no element: with
\* trailing slashes, long elements and a file in the middle of the path.
NamexMatchesReference ==
    \A p \in Paths :
        LET E == Elements(p) IN
        /\ Namei(p) = Follow(Start(p), E)
        /\ Nameiparent(p).ip =
              IF E = <<>> THEN 0
              ELSE LET d == Follow(Start(p), SubSeq(E, 1, Len(E) - 1))
                   IN IF d # 0 /\ IsDir(d) THEN d ELSE 0
        /\ Nameiparent(p).ip # 0 => Nameiparent(p).name = E[Len(E)]
=============================================================================
