\* Four sessions, two clients and no deaths, under one schedule.
SPECIFICATION Scheduled
CONSTANTS
    c1 = c1
    c2 = c2
    S = 4
    Clients <- TwoClients
    MAX_FDS = 5
    MAX_MOUNTS = 2
    MAX_CALLS = 1
    CRASHES = FALSE
    MAX_SPURIOUS = 0
INVARIANT
    SessionExclusive
CHECK_DEADLOCK FALSE
