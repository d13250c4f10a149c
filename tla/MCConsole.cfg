CONSTANTS
    CPU = {c0, c1}
    c0 = c0
    c1 = c1
    BootCPU = c0
    NPROC = 2
    INPUT_BUF = 2
    UINT = 4
    Scenarios <- MCScenarios
    NoCPU = NoCPU
SPECIFICATION Spec
INVARIANTS LockInv RingInv LineAtATime WakeupsArrive NoStuckModifier
