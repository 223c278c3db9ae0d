SPECIFICATION Spec
CONSTANTS
    Objs = {o1, o2, o3}
    Reqs = {r1, r2}
    Null = Null
    Backend = "postgres"
    Ops = {"create", "complete"}
    InitModes = {"ENABLED"}
    SwitchTo = {}
    MaxInFlight = 2
    MaxSeq = 3
INVARIANTS UniqueLatest
CHECK_DEADLOCK FALSE
