\* operations.h on tfs_destroy_after_all_closed: no file is open then.
SPECIFICATION Spec
CONSTANTS
    u1 = u1
    u2 = u2
    d1 = d1
    d2 = d2
    NoOne = none
    MAX_CALLS = 2
    Users <- MCUsers
    Destroyers <- MCDestroyers
    Handles <- MCHandles
PROPERTIES
    NoFileOpenWhenDestroyed
CHECK_DEADLOCK FALSE
