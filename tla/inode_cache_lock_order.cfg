\* create keeps the new file locked while iput(dp) sleeps on the root's
\* lock; a concurrent unlink of the new name holds the root and sleeps on
\* the file.  One CPU suffices.
CONSTANTS
  NINODE = 2
  NBUCKET = 2
  ncpu = 1
  NINODES = 4
  ROOTDEV = 1
  MaxHeld = 2
  SysCalls = {"open", "creat", "unlink"}
  RelPaths = {FALSE, TRUE}
  Threads = {t1, t2}
  None = None
SYMMETRY ThreadSymmetry
SPECIFICATION Spec
INVARIANT NoSleepLockCycle
