CONSTANTS
    Proc = {p1, p2}
    p1 = p1
    p2 = p2
    Initproc = p1
    NPAGE = 17
    NKPT = 1
    PGSIZE = 2
    NPTENTRIES = 2
    KERNBASE = 12
    UINT = 64
    Programs <- MCPrograms
    ArgSizes = {1, 3}
    Increments <- MCIncrements
    Refusals = {0, 2, 7}
    MaxLost = 2
SPECIFICATION Spec
INVARIANTS PageInv SizeIsMapped PanicNeedsLoss
PROPERTY ForkCopies
