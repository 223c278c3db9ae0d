\* One chunk id, as all that is shared is a chunk, and chunks do not interact.
SPECIFICATION Spec
CONSTANTS
    Objs = {a, b}
    Chunks = {1}
    Blocks = {1, 2}
    MaxFaults = 1
    MaxBuilds = 1
    Enabled = {"object_reclaimer", "scrubber"}
INVARIANTS TypeOK StoredReadable ReclaimedOffNode NoPartOfReclaimed NoOrphanBlocks
CHECK_DEADLOCK FALSE
