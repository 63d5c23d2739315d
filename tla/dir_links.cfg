\* Two processes making files and directories (open with O_CREATE and
\* mkdir), linking and unlinking two names, with two inodes besides the
\* root; directories and links are made in the root, files anywhere.  A
\* directory holds up to 4 entries: ".", ".." and the two names.
\* create holds the new inode's lock while it iputs the parent, which an
\* unlink holding the parent and waiting for that inode blocks: a
\* lock-order deadlock the code has, so deadlock is not checked.
CONSTANTS
  Names = {a, b}
  NINODE = 2
  DirMax = 4
  Threads = {t1, t2}
  None = None
SYMMETRY ProcNameSymmetry
VIEW LiveState
SPECIFICATION Spec
CHECK_DEADLOCK FALSE
INVARIANT TypeOK
INVARIANT NamesUnique
INVARIANT LinksCounted
INVARIANT NoDanglingEntry
PROPERTY NamesSpec
\* The parsing of path names (PathName), on a fixed tree.
INVARIANT SkipelemSplits
INVARIANT NamexMatchesReference
CONSTRAINT RootInputs
