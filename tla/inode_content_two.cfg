\* Two files written concurrently on a device too small for both to reach
\* MAXFILE: balloc and bfree of the two interleave on one bitmap until it
\* runs out.  NDIRECT = 1, NINDIRECT = 2, BSIZE = 2: MAXFILE is 7 blocks.
CONSTANTS
  NDIRECT = 1
  NINDIRECT = 2
  BSIZE = 2
  FSSIZE = 6
  DataStart = 1
  Files = {f1, f2}
  Vals = {1}
  Lens = {1, 3}
  W = 4
  MAXOPBLOCKS = 6
  FwLens = {}
  MaxCrashes = 0
SYMMETRY FileSymmetry
VIEW LiveBlocks
SPECIFICATION Spec
INVARIANT TypeOK
INVARIANT BlocksAccounted
INVARIANT OnlyDesignedPanics
