SPECIFICATION RTSpec
CONSTANTS
    Texts <- MCTexts
    MaxCount = 14
    Puttable <- MCItems
    Widths <- MCWidths
    MinSize = 4
    MaxPuts = 3
    MaxFlushes = 2
    NoOutput = NoOutput
INVARIANTS LinesFull BufferHolds ErrorRight
PROPERTIES ImplementsItemSnk ReadsItems ReadEnds
CHECK_DEADLOCK FALSE
