\* Two threads run testes_3.c.
SPECIFICATION TestSpec
CONSTANTS
    INODE_TABLE_SIZE = 3
    DATA_BLOCKS = 4
    BLOCK_SIZE = 2
    MAX_OPEN_FILES = 2
    DIRECT_BLOCK_POINTERS = 1
    MAX_BLOCK_POINTERS = 2
    MAX_DIR_ENTRIES = 2
    SIZE_T = 16
    BYTE = 99
    NoThread = noThread
    thread1 = thread1
    thread2 = thread2
    fileA = fileA
    fileB = fileB
    cut = cut
    Blank = blankName
    Garbled = garbledName
    Threads <- MCThreads
    Names <- MCTestNames
    Partial <- MCTestPartial
    OpenFlags <- MCOpenFlags
    Lens <- MCLens
    Rules <- MCRules
    MAX_CALLS <- MCTestCalls
INVARIANTS
    ReadsBack
CHECK_DEADLOCK FALSE
