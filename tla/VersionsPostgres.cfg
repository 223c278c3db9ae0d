SPECIFICATION Spec
CONSTANTS
    Objs = {o1, o2, o3}
    Reqs = {r1, r2}
    Null = Null
    Backend = "postgres"
    Ops = {"create", "complete", "delete_key", "fail", "expire"}
    InitModes = {"ENABLED", "SUSPENDED"}
    SwitchTo = {"ENABLED", "SUSPENDED"}
    MaxInFlight = 2
    MaxSeq = 4
SYMMETRY Symmetry
INVARIANTS LatestExists CompletionKeepsObject
CHECK_DEADLOCK FALSE
