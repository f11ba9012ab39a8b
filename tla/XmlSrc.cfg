SPECIFICATION SrcSpec
CONSTANTS
    Documents <- MCDocuments
    Bad = Bad
    MayFail = TRUE
    MaxNodes = 3
INVARIANTS StaysInside StateFollowsItems
PROPERTIES GetReturns ImplementsItemSrc
