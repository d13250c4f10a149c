CONSTANTS
    Proc = {p1, p2}
    Sector = {s1, s2, l1}
    LogSector = {l1}
    Indirect = {s1}
    Data = {d1, d2}
    NBUF = 2
    NoSector = NoSector
    None = None
SPECIFICATION Spec
INVARIANTS BufferInv DriverInv
PROPERTIES IsBlockStore
