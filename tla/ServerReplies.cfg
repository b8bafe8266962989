\* Two sessions and one client, whose mount is given both.
SPECIFICATION Spec
CONSTANTS
    c1 = c1
    c2 = c2
    S = 2
    Clients <- OneClient
    MAX_FDS = 5
    MAX_MOUNTS = 1
    MAX_CALLS = 1
    CRASHES = FALSE
    MAX_SPURIOUS = 0
PROPERTIES
    RepliesMatchRequests
CHECK_DEADLOCK FALSE
