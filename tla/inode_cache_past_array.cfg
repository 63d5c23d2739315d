\* Two CPUs: bucket 1's scan runs one slot past icache.inode, and iget
\* claims that memory when it looks free.
CONSTANTS
  NINODE = 1
  NBUCKET = 2
  ncpu = 2
  NINODES = 4
  ROOTDEV = 1
  MaxHeld = 2
  SysCalls = {"open", "creat", "unlink"}
  RelPaths = {FALSE, TRUE}
  Threads = {t1, t2}
  None = None
SYMMETRY ThreadSymmetry
VIEW LiveView
CONSTRAINT RefWithinDrift
SPECIFICATION Spec
CHECK_DEADLOCK FALSE
INVARIANT NoSlotPastArray
