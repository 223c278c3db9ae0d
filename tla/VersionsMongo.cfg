SPECIFICATION Spec
CONSTANTS
    Objs = {o1, o2, o3}
    Reqs = {r1, r2}
    Null = Null
    Backend = "mongodb"
    Ops = {"create", "create_complete", "complete", "recomplete", "abort", "delete_key", "delete_null", "delete_version", "fail"}
    InitModes = {"DISABLED", "ENABLED"}
    SwitchTo = {"SUSPENDED"}
    MaxInFlight = 2
    MaxSeq = 2
SYMMETRY Symmetry
INVARIANTS UniqueVersionSeq DeletedStaysDeleted
CHECK_DEADLOCK FALSE
