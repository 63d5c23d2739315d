\* One CPU (ncpu = 1) of a kernel built for two: bucket locks make iget
\* atomic, and every scan covers exactly the whole array.  Two slots for
\* the root and three files, so the cache and the inode table both fill.
\* Every call uses a relative path; open also uses an absolute one.
CONSTANTS
  NINODE = 1
  NBUCKET = 2
  ncpu = 1
  NINODES = 4
  ROOTDEV = 1
  MaxHeld = 1
  SysCalls = {"open", "creat", "unlink"}
  RelPaths = {FALSE, TRUE}
  Threads = {t1, t2}
  None = None
SYMMETRY ThreadSymmetry
VIEW LiveView
SPECIFICATION Spec
\* create and unlink can deadlock on two sleep-locks (inode_cache_lock_order).
CHECK_DEADLOCK FALSE
INVARIANT TypeOK
INVARIANT CacheUnique
INVARIANT RefCountExact
INVARIANT NoUseAfterFree
INVARIANT NoBrokenInvariantPanic
CONSTRAINT AbsPathBound
