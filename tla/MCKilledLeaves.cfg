SPECIFICATION LiveSpec
CONSTANTS
    Proc = {p1, p2}
    Byte = {a}
    PIPESIZE = 2
    UINT = 4
    MaxBytes = 2
    Nobody = Nobody
PROPERTY KilledLeaves
CHECK_DEADLOCK FALSE
