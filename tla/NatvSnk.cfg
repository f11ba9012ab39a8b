SPECIFICATION Spec
CONSTANTS
    i1 = i1
    i2 = i2
    Items = {i1, i2}
    Size <- MCSize
    MaxSize = 2
    Blocks = {b1, b2}
    NoBuf = NoBuf
    Modes = {"both", "size", "none"}
    MaxUser = 3
    MaxStream = 9
INVARIANTS BufferSound StreamStored UserView NoLeak
PROPERTY ImplementsByteSnk
