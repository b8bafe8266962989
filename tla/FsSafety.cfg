\* Any caller: invalid and long paths, closed handles, truncation of open files.
SPECIFICATION Spec
CONSTANTS
    INODE_TABLE_SIZE = 5
    DATA_BLOCKS = 2
    BLOCK_SIZE = 2
    MAX_OPEN_FILES = 2
    MAX_DIR_ENTRIES = 3
    SIZE_T = 32
    MAX_OFFSET = 4
    empty = empty
    f = f
    long = long
    short = short
    zero = zero
    a = a
    EmptyName = empty
    ZeroByte = zero
    Beyond = beyond
    SubNames <- MCSubNames
    Stored <- MCStored
    Paths <- MCPaths
    Bytes <- MCBytes
    Buffers <- MCBuffers
    Lens <- MCLens
VIEW ViewWithoutReply
INVARIANTS
    TypeOK
    BlockOwnership
    DirectoryAgreement
    OpenFilesCounted
PROPERTIES
    NameBindingStable
    WriteIsolation
CHECK_DEADLOCK FALSE
