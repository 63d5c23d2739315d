\* Two processes, two descriptors each, two file slots, one inode:
\* enough for a slot and a descriptor table to fill, for fork to share a
\* slot and for open's failure paths to be taken.  writev gets one iovec:
\* its loop over several is the loop filewrite already runs over chunks.
CONSTANTS
    Procs = {p1, p2}
    Inodes = {i1}
    NOFILE = 2
    NFILE = 2
    Vals = {1}
    MaxBytes = 1
    MaxChunk = 1
    Lens = {1}
    Shifts = {1}
    W = 2
    IovCnt = 1
SYMMETRY ProcInodeSymmetry
SPECIFICATION Spec
INVARIANT TypeOK
INVARIANT FileRefsExact
INVARIANT InodeRefsExact
VIEW LiveState
