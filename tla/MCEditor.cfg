CONSTANTS
    quote = quote
    huge = huge
    Empty = Empty
    NULL = NULL
    Junk = Junk
    NoFile = NoFile
    MAX_LINE_NUMBER = 3
    MAX_ROLLBAKC_STEP = 1
    Line = {Empty, quote}
    LongLine = {}
    HangLine = {quote}
    HugeLine = {huge}
    Kept <- McKept
    Preset <- McPreset
SPECIFICATION Spec
INVARIANTS TextInv UnchangedIsSaved SaveLeavesPrefix
