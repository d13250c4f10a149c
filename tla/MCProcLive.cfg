SPECIFICATION LiveSpec
CONSTANTS
    NPROC = 3
    CPU = {c1}
    Scheduler = Scheduler
    NoCPU = NoCPU
    MaxPid = 4
PROPERTIES InitReaps KilledExits
CHECK_DEADLOCK FALSE
