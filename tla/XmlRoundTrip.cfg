SPECIFICATION RTSpec
CONSTANTS
    Alphabet <- RTItems
    Known <- KnownUsages
    MayFail = TRUE
    Schema = FALSE
    MaxPuts = 4
    MaxFlushes = 1
    NoOutput = NoOutput
INVARIANTS TreeSound CallsSound MeaningKept StatesAgree
PROPERTIES ImplementsItemSnk ReadEnds
CHECK_DEADLOCK FALSE
