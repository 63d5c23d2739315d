\* One inode opened once and shared by fork: the smallest setting in which
\* an lseek by one process can land inside another's fileread or filewrite.
CONSTANTS
    Procs = {p1, p2}
    Inodes = {i1}
    NOFILE = 1
    NFILE = 1
    Vals = {1}
    MaxBytes = 2
    MaxChunk = 1
    Lens = {1}
    Shifts = {1}
    W = 2
    IovCnt = 1
SPECIFICATION Spec
PROPERTY OffsetAdvancesByTransfer
