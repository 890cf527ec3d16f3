CONSTANTS
    PAGE = 16
    HEADER = 4
    WORD = 2
    UINT = 256
    FirstPage = 1
    LastPage = 8
    MaxBlocks = 5
    Frames = {1, 2, 3, 4, 5, 6, 7}
    InitialPointer = 5
    PlainSizes = {13, 20, 28}
    AlignedSizes = {}
SPECIFICATION HeapSpec
INVARIANTS
    LiveBlocksMapped
    NoFrameLeaked
PROPERTIES
    FailureHarmless
    PagedImplementsAllocator
