CONSTANTS
    p1 = p1
    p2 = p2
    Proc = {p1, p2}
    Initproc = p1
    Name = {"a", "b"}
    Calls <- MCCalls
    Image <- MCImage
    NINODES = 5
    NINODE = 4
    NFILE = 2
    NOFILE = 2
    MaxCalls = 2
    NoProc = NoProc
SPECIFICATION Spec
INVARIANTS InodeCacheInv RefsCounted TreeAfterCrash PanicKnown
