SPECIFICATION Spec
CONSTANTS
    Objs = {o1, o2, o3}
    Reqs = {r1}
    Null = Null
    Backend = "mongodb"
    Ops = {"create", "complete", "recomplete", "abort", "delete_key"}
    InitModes = {"SUSPENDED"}
    SwitchTo = {"ENABLED", "SUSPENDED"}
    MaxInFlight = 1
    MaxSeq = 4
INVARIANTS NeverWithoutLatest
CHECK_DEADLOCK FALSE
