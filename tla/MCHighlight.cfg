SPECIFICATION Spec
CONSTANTS
    Letter = {"i", "f", "n", "t", " "}
    Blank = " "
    Keyword <- McKeyword
    MaxLength = 4
INVARIANT PrintInv
PROPERTY EndsOrRepeats
CHECK_DEADLOCK FALSE
