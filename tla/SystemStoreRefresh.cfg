\* A copy may expire: more than an hour since it was loaded.
SPECIFICATION Spec
CONSTANTS
    p1 = p1
    p2 = p2
    d1 = d1
    d2 = d2
    Procs <- TheProcs
    Docs <- TheDocs
    Name <- SameName
    Skew <- Ahead
    MaxTime = 0
    MaxChanges = 2
    MaxEvents = 1
    MaxAge = "expired"
INVARIANT ReloadOutsideLock
CHECK_DEADLOCK FALSE
