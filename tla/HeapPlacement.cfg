CONSTANTS
    PAGE = 16
    HEADER = 4
    WORD = 2
    UINT = 128
    FirstPage = 1
    LastPage = 4
    MaxBlocks = 3
    Frames = {1, 2, 3, 4}
    InitialPointer = 5
    PlainSizes = {3, 15, 127}
    AlignedSizes = {16}
SPECIFICATION HeapSpec
INVARIANTS
    HeapTypeOK
    FramesExclusive
    PlacementSound
