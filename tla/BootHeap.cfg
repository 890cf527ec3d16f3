CONSTANTS
    HEADER = 2
    WORD = 2
    HeapStart = 10
    HeapLimit = 36
    Sizes = {2, 3, 6, 9}
SPECIFICATION BootSpec
INVARIANTS
    BootTypeOK
    BlocksTile
    Coalesced
    RefusesWithoutRoom
PROPERTIES
    BootImplementsAllocator
