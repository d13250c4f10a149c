CONSTANTS
    Proc = {p1, p2, p3}
    Block = {b1, b2}
    Data = {d1, d2}
    NoData = NoData
    NoBlock = {b1, b2}
    LOGSIZE = 3
    NLog = 3
SPECIFICATION LiveSpec
INVARIANT LogInv
PROPERTIES AtomicTransactions RecoveryEnds SleepersWake
