\* Two processes, two names and two inodes besides the root, making files
\* and directories anywhere: one makes a directory and then a file in it,
\* while the other removes the directory between the nameiparent that
\* returns it and the ilock that locks it.
CONSTANTS
  Names = {a, b}
  NINODE = 2
  DirMax = 4
  Threads = {t1, t2}
  None = None
SYMMETRY ProcNameSymmetry
VIEW LiveState
SPECIFICATION Spec
CHECK_DEADLOCK FALSE
INVARIANT NoLostInode
