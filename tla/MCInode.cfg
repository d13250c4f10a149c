CONSTANTS
    Proc = {1, 2}
    Fd = {d1, d2}
    BSIZE = 2
    NDIRECT = 1
    NINDIRECT = 2
    IPB = 4
    BPB = 32
    LOGSIZE = 6
    NBLOCKS = 9
    NLOG = 6
    NINODES = 4
    NFILES = 1
    FileSizes = {3}
    Counts = {1, 4}
    MaxCalls = 3
    NoFd = NoFd
    UINT = 16
SPECIFICATION Spec
INVARIANTS InodeInv FitsInLog ReadsBack LogIsLast

SYMMETRY Symmetry
