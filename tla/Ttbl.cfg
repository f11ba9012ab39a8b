SPECIFICATION TblSpec
CONSTANTS
    NoText = NoText
    TextLen <- MCTextLen
    Texts = {0, 4}
    Tabstops = {4}
    MaxCol = 2
    MaxLine = 2
    MaxSpan = 2
    MaxCalls = 4
INVARIANTS GetRight RenderAligned
PROPERTY ImplementsSparseTable
CHECK_DEADLOCK FALSE
