\* One session and one client, which mounts.
SPECIFICATION FairSpec
CONSTANTS
    c1 = c1
    c2 = c2
    S = 1
    Clients <- OneClient
    MAX_FDS = 5
    MAX_MOUNTS = 1
    MAX_CALLS = 0
    CRASHES = FALSE
    MAX_SPURIOUS = 0
PROPERTIES
    MountReturns
CHECK_DEADLOCK FALSE
