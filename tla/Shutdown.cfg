\* Two threads open and close files while two others destroy TecnicoFS.
SPECIFICATION FairSpec
CONSTANTS
    u1 = u1
    u2 = u2
    d1 = d1
    d2 = d2
    NoOne = none
    MAX_CALLS = 2
    Users <- MCUsers
    Destroyers <- MCDestroyers
    Handles <- MCHandles
INVARIANTS
    TypeOK
    OneLateOpen
    EarlyFilesClosed
    NoLostWakeup
PROPERTIES
    DestroyProceeds
CHECK_DEADLOCK FALSE
