SPECIFICATION Spec
CONSTANTS
    NoText = NoText
    TextLen <- MCTextLen
    Alphabet <- PutItems
    Types = {"spec", "code"}
    Tabstops = {2}
    MaxPuts = 4
    MaxFlushes = 1
    NoOutput = NoOutput
INVARIANTS LinesWellFormed CommentTellsItem NestingShown
PROPERTY ImplementsItemSnk
CHECK_DEADLOCK FALSE
