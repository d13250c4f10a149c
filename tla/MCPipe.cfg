SPECIFICATION Spec
CONSTANTS
    Proc = {p1, p2, p3}
    Byte = {a, b}
    PIPESIZE = 2
    UINT = 4
    MaxBytes = 3
    Nobody = Nobody
SYMMETRY Symmetric
INVARIANTS PipeInv NoLostWakeup
PROPERTIES IsByteQueue EndOfFileIsFinal
CHECK_DEADLOCK FALSE
