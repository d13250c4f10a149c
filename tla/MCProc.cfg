SPECIFICATION Spec
CONSTANTS
    NPROC = 4
    CPU = {c1, c2}
    Scheduler = Scheduler
    NoCPU = NoCPU
    MaxPid = 5
SYMMETRY Symmetric
INVARIANTS ProcInv ParentIsAlive NoMissedExit
CHECK_DEADLOCK FALSE
