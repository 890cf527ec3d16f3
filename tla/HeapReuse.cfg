CONSTANTS
    PAGE = 16
    HEADER = 4
    WORD = 2
    UINT = 128
    FirstPage = 1
    LastPage = 4
    MaxBlocks = 4
    Frames = {1, 2, 3, 4, 5}
    InitialPointer = 5
    PlainSizes = {3, 15}
    AlignedSizes = {}
SPECIFICATION HeapSpec
INVARIANTS
    LiveBlocksDisjoint
