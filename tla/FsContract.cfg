\* Callers that keep the rules: P2/fs implements FileStore.
SPECIFICATION ContractSpec
CONSTANTS
    INODE_TABLE_SIZE = 4
    DATA_BLOCKS = 3
    BLOCK_SIZE = 2
    MAX_OPEN_FILES = 2
    MAX_DIR_ENTRIES = 2
    SIZE_T = 32
    MAX_OFFSET = 4
    empty = empty
    name1 = name1
    name2 = name2
    name3 = name3
    long = long
    cut = cut
    zero = zero
    a = a
    EmptyName = empty
    ZeroByte = zero
    Beyond = beyond
    SubNames <- MCSubNames
    Stored <- MCStored
    Paths <- MCPaths
    Bytes <- MCBytes
    Buffers <- MCBuffers
    Lens <- MCLens
SYMMETRY NameSymmetry
VIEW ViewWithoutReply
INVARIANTS
    OffsetsWithinFile
    NamesLeadToFiles
PROPERTIES
    ReadsEndAtFileSize
    ImplementsFileStore
CHECK_DEADLOCK FALSE
