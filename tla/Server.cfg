\* Two sessions, two clients that mount, call, unmount, die and come back.
SPECIFICATION LastSpec
CONSTANTS
    c1 = c1
    c2 = c2
    S = 2
    Last = 0
    Clients <- TwoClients
    MAX_FDS = 5
    MAX_MOUNTS = 2
    MAX_CALLS = 1
    CRASHES = TRUE
    MAX_SPURIOUS = 1
SYMMETRY ClientSymmetry
CONSTRAINT MCBound
INVARIANTS
    TypeOK
    LastExclusive
    LastTaken
    
PROPERTIES
    LastNotOverwritten
    LastReplies
CHECK_DEADLOCK FALSE
