SPECIFICATION ElementSpec
CONSTANTS
    DigitsPerByte = 1
    MaxElements = 2
    Fills = {0, 15}
    Beyond = {"centimeter", "nothing"}
    Pages <- MCPages
    Items <- MCItems
    Foreign <- MCForeign
INVARIANT ShortStaysShort
CHECK_DEADLOCK FALSE
