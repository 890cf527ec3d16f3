CONSTANTS
    PAGE = 16
    HEADER = 4
    WORD = 2
    UINT = 2048
    FirstPage = 1
    LastPage = 75
    MaxBlocks = 20
    Frames = {1, 2, 3, 4, 5, 6, 7, 8, 9, 10, 11, 12, 13, 14, 15, 16, 17, 18, 19, 20, 21, 22, 23, 24, 25, 26, 27, 28}
    InitialPointer = 25
    PlainSizes = {4, 6, 8, 10, 16}
    AlignedSizes = {16, 32}
    BootEnds = {10, 16, 26, 30, 122, 600, 1000}
    FramesTaken = {0, 1, 2, 3, 4, 5, 6, 7, 8, 9, 10, 11, 12, 13, 14, 15, 16, 17, 18, 19, 20, 21, 22, 23, 24, 25, 26, 27, 28}
    SizeOf <- MCSizeOf
    MODULUS = 16
    USER_CODE_BASE = 4
    USER_CODE_SIZE = 3
    USER_STACK_BASE = 9
    USER_STACK_SIZE = 3
    VGA_MEMORY_PAGE = 1
    PROGRAM_HEADER = 1
    EventSize = 3
    IdentitySize = 2
    InfoSize = 2
    Words = {0, 1, 2, 3, 4, 13, 15}
    Pointers = {0, 3, 8, 9, 10, 11, 12, 15}
SPECIFICATION TasksSpec
INVARIANTS
    TasksTypeOK
    IntactUnlessTablesFail
    TickSound
    NothingLost
    UtilitiesRepeat
    UserAccessInBounds
