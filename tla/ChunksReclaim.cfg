SPECIFICATION FairSpec
CONSTANTS
    Objs = {a}
    Chunks = {1}
    Blocks = {1,2}
    MaxFaults = 1
    MaxBuilds = 1
    Enabled = {"object_reclaimer", "scrubber", "agent_blocks_reclaimer", "db_cleaner"}
PROPERTIES DeletedBlocksReclaimed UnusedChunksDeleted
CHECK_DEADLOCK FALSE
