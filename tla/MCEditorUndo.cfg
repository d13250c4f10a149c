CONSTANTS
    a = a
    long = long
    Empty = Empty
    NULL = NULL
    Junk = Junk
    NoFile = NoFile
    MAX_LINE_NUMBER = 3
    MAX_ROLLBAKC_STEP = 2
    Line = {Empty, a, long}
    LongLine = {long}
    HangLine = {}
    HugeLine = {}
    Kept <- McKept
    Preset <- McPreset
SPECIFICATION UndoSpec
PROPERTIES UndoRestores InsertAddsOneLine
