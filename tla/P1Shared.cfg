\* One file, handles that threads share, liveness.
SPECIFICATION FairSpec
CONSTANTS
    INODE_TABLE_SIZE = 3
    DATA_BLOCKS = 4
    BLOCK_SIZE = 2
    MAX_OPEN_FILES = 1
    DIRECT_BLOCK_POINTERS = 1
    MAX_BLOCK_POINTERS = 2
    MAX_DIR_ENTRIES = 1
    SIZE_T = 16
    BYTE = 99
    NoThread = noThread
    thread1 = thread1
    thread2 = thread2
    fileA = fileA
    fileB = fileB
    cut = cut
    Blank = blankName
    Garbled = garbledName
    Threads <- MCThreads
    Names <- MCNames
    Partial <- MCPartial
    OpenFlags <- MCOpenFlags
    Lens <- MCLens
    Rules <- MCSharedRules
    MAX_CALLS <- MCTwoCalls
PROPERTIES
    CallsReturn
CHECK_DEADLOCK FALSE
