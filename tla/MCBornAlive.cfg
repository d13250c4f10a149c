SPECIFICATION Spec
CONSTANTS
    NPROC = 3
    CPU = {c1, c2}
    Scheduler = Scheduler
    NoCPU = NoCPU
    MaxPid = 5
SYMMETRY Symmetric
PROPERTY BornAlive
CHECK_DEADLOCK FALSE
