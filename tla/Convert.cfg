SPECIFICATION Spec
CONSTANTS
    Contents <- MCContents
    Formats <- MCFormats
    Unknown = Unknown
    Alloc = 2
INVARIANTS OutputRight AllReleased ErrorRight
PROPERTIES Terminates ImplementsItemSrc
CHECK_DEADLOCK FALSE
