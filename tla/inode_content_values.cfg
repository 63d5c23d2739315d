\* Two byte values, so a byte copied to the wrong block or offset shows: a
\* geometry of NDIRECT = 1, NINDIRECT = 1, BSIZE = 2 (MAXFILE 3 blocks, one
\* in each range, 6 bytes), with a 3-bit word that wraps at 8.
CONSTANTS
  NDIRECT = 1
  NINDIRECT = 1
  BSIZE = 2
  FSSIZE = 7
  DataStart = 1
  Files = {f1}
  Vals = {1, 2}
  Lens = {1, 3, 7}
  W = 3
  MAXOPBLOCKS = 6
  FwLens = {3}
  MaxCrashes = 1
VIEW LiveBlocksDurable
SPECIFICATION FairSpec
INVARIANT BlocksAccounted
INVARIANT SizeMatchesMapping
INVARIANT ChunksPersisted
INVARIANT ReadReturnsContent
PROPERTY ContentSpec
PROPERTY CallsReturn
INVARIANT OnlyDesignedPanics
CONSTRAINT FwAlone
