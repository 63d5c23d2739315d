\* Two CPUs: iget's plain ip->ref++ under the bucket lock races the
\* lock-free atomic add of idup and sub of iput.
CONSTANTS
  NINODE = 1
  NBUCKET = 2
  ncpu = 2
  NINODES = 4
  ROOTDEV = 1
  MaxHeld = 2
  SysCalls = {"open", "creat", "unlink"}
  RelPaths = {FALSE, TRUE}
  Threads = {t1, t2}
  None = None
SYMMETRY ThreadSymmetry
VIEW LiveView
CONSTRAINT RefWithinDrift
SPECIFICATION Spec
CHECK_DEADLOCK FALSE
INVARIANT RefCountExact
