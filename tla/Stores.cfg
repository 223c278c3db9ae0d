\* SystemStore: two processes, two changes, a fault anywhere.
\* BlockStore: three items for two blocks, so that one may load outside of the list.
\* MdAggregator: two buckets, a batch each, and one fault.
SPECIFICATION StoresSpec
CONSTANTS
    p1 = p1
    p2 = p2
    d1 = d1
    d2 = d2
    Procs <- TheProcs
    Docs <- TheDocs
    Name <- SameName
    Skew <- Ahead
    MaxTime = 1
    MaxChanges = 3
    MaxEvents = 1
    MaxAge = "old"
    CacheKeys = {"small", "large"}
    Items = {1, 2, 3}
    Length <- SomeLengths
    MaxUsage = 2
    StoreProcs = {q1, q2}
    UsageLimit = 6
    Spare = 1
    Unknown = Unknown
    MaxRequests = 2
    MaxStoreFaults = 1
    AggBuckets = {1, 2}
    AggObjects = {o1}
    Grace = 1
    MaxCycles = 2
    AggBatch = 1
    FirstTime = 2
    LastTime = 4
    MaxAggFaults = 1
INVARIANTS StoresTypeOK StaleIsDue BlockCacheAgrees CachedIsStored UsageCounted UsageSaved CountedOnce
PROPERTIES SuccessMeansSeen NeverOlder CopiesConverge RunsFollowStore
CHECK_DEADLOCK FALSE
