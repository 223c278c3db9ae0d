SPECIFICATION NodeSpec
CONSTANTS
    FirstBlocks = 1
    MaxBlock = 1
    RebuildBatch = 1
    Detentions = {TRUE}
    MaxNodeEvents = 2
    MaxNodeFaults = 1
INVARIANTS HiddenOnceSecured
CHECK_DEADLOCK FALSE
