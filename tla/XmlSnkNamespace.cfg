SPECIFICATION RTSpec
CONSTANTS
    Alphabet <- RTItems
    Known <- KnownUsages
    MayFail = FALSE
    Schema = TRUE
    MaxPuts = 4
    MaxFlushes = 1
    NoOutput = NoOutput
INVARIANT AllQualified
CHECK_DEADLOCK FALSE
