SPECIFICATION Spec
CONSTANTS
    DigitsPerByte = 1
    Texts <- MCTexts
    SpecLists <- MCSpecLists
INVARIANTS OptionsRight ListFits WrittenReadsBack
CHECK_DEADLOCK FALSE
