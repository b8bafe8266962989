\* Two clients, three requests, deaths.
SPECIFICATION Spec
CONSTANTS
    BASE = 16
    SIZEOF_INT = 2
    SIZEOF_SIZE_T = 2
    MAX_PIPE_NAME = 4
    MAX_MESSAGE_SIZE = 11
    S = 2
    client1 = client1
    client2 = client2
    Clients <- MCClients
    Paths <- MCPaths
    Ints <- MCInts
    Contents <- MCContents
    MAX_REQUESTS = 3
INVARIANTS
    ServedInOrder
    FieldsArrive
PROPERTIES
    EveryRequestServed
CONSTRAINTS
    MCBound
CHECK_DEADLOCK FALSE
