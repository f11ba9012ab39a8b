SPECIFICATION RTSpec
CONSTANTS
    Texts <- LongTexts
    MaxCount = 14
    Puttable <- MCItems
    Widths <- MCWidths
    MinSize = 4
    MaxPuts = 0
    MaxFlushes = 0
    NoOutput = NoOutput
INVARIANT LineRight
CHECK_DEADLOCK FALSE
