CONSTANTS
    Objects = {o1, o2, o3}
    Root = root
    Names = {"a", "b"}
    ENTRIES = 4
    INODE_COUNT = 4
    FileSystems = {fs1, fs2}
    VFS_MAX_FILESYSTEMS = 1
    VFS_MAX_OPEN_FILES = 1
    Identities <- TestIdentities
    Owners <- TestOwners
    MaxSize = 1
    Positions = {0, 2}
    PathLength = 3
    None = None
SPECIFICATION NameSpec
INVARIANTS
    NameTypeOK
    TreeSound
    LookupRetraces
    MountHeld
PROPERTIES
    OnlyOwnerWrites
    RemovalLegal
SYMMETRY Interchangeable
