SPECIFICATION Spec
CONSTANTS
    a = a
    b = b
    c = c
    SemProcs = {p1, p2, p3, p4}
    Initial = 3
    Args <- SomeArgs
    Timed = TRUE
    KeyProcs = {p1, p2, p3, p4}
    Keys = {k1, k2}
    Sems = {s1, s2, s3, s4}
    NoSem = NoSem
    KeyInitial = 1
    LockProcs = {p1, p2, p3, p4}
    LockKeys <- AllKeys
    Batches <- SomeBatches
    MaxChunkId = 3
    BuildBatch = 2
    MaxMirrorFaults = 3
    FirstBlocks = 1
    MaxBlock = 2
    RebuildBatch = 1
    Detentions = {TRUE}
    MaxNodeEvents = 2
    MaxNodeFaults = 1
INVARIANTS TypeOK Conserved InMapWhileInUse Exclusion NoLostWakeup FailedStayAhead EvacuatedWhenDone StoreInSync
PROPERTIES NoOvertaking EventuallyServed EventuallyRuns ServedOnceQuiet SeenGetMirrored DecommissionEnds DeletionEnds
CHECK_DEADLOCK FALSE
