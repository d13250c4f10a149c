SPECIFICATION Spec
CONSTANTS
    Letter = {"i", "f", "n", "t", " "}
    Blank = " "
    Keyword <- McKeyword
    MaxLength = 4
PROPERTY DisplayEnds
CHECK_DEADLOCK FALSE
