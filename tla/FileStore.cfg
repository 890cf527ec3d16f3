CONSTANTS
    INITRAFS_BLOCK_SIZE = 2
    INITRAFS_DIRECT_BLOCK_COUNT = 2
    DATA_START = 1
    INITRAFS_INSTANCE_MAX_BLOCKS = 4
    INODE_COUNT = 4
    DeviceSizes = {1, 4}
    Files = {f1, f2}
    Bytes = {1, 2}
SPECIFICATION StoreSpec
INVARIANTS
    StoreTypeOK
    BlocksOwned
    NothingLeaked
    CountersAgree
    FilesUsable
PROPERTIES
    ImplementsByteFiles
