\* Two processes and one inode besides the root: one creates a file and
\* closes it while the other unlinks it, and their iputs of the file
\* interleave.
CONSTANTS
  Names = {a}
  NINODE = 1
  DirMax = 3
  Threads = {t1, t2}
  None = None
SYMMETRY ProcNameSymmetry
VIEW LiveState
SPECIFICATION Spec
CHECK_DEADLOCK FALSE
INVARIANT OrphansFreed
