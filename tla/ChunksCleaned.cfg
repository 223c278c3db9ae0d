SPECIFICATION Spec
CONSTANTS
    Objs = {a, b}
    Chunks = {1}
    Blocks = {1}
    MaxFaults = 0
    MaxBuilds = 0
    Enabled = {"object_reclaimer", "db_cleaner"}
INVARIANTS CleanedChunkUnused
CHECK_DEADLOCK FALSE
