\* Two threads that create, open, write and close two files at once.
SPECIFICATION Spec
CONSTANTS
    INODE_TABLE_SIZE = 4
    DATA_BLOCKS = 5
    BLOCK_SIZE = 2
    MAX_OPEN_FILES = 2
    DIRECT_BLOCK_POINTERS = 1
    MAX_BLOCK_POINTERS = 2
    MAX_DIR_ENTRIES = 2
    SIZE_T = 16
    BYTE = 99
    NoThread = noThread
    thread1 = thread1
    thread2 = thread2
    fileA = fileA
    fileB = fileB
    cut = cut
    Blank = blankName
    Garbled = garbledName
    Threads <- MCThreads
    Names <- MCNames
    Partial <- MCWhole
    OpenFlags <- MCOpenFlags
    Lens <- MCLens
    Rules <- MCRules
    MAX_CALLS <- MCCalls
INVARIANTS
    TypeOK
    INodesGivenOnce
    HandlesLeadToFiles
    HandlesHeldByOne
    BlocksOwned
    CopiesInPlace
CHECK_DEADLOCK FALSE
SYMMETRY MCSymmetry
CONSTRAINT MCBound
