SPECIFICATION Spec
CONSTANTS
    Objs = {o1, o2, o3}
    Reqs = {r1}
    Null = Null
    Backend = "mongodb"
    Ops = {"create", "complete", "delete_key", "delete_version"}
    InitModes = {"DISABLED"}
    SwitchTo = {"ENABLED", "SUSPENDED"}
    MaxInFlight = 1
    MaxSeq = 3
INVARIANTS NeverRefused
PROPERTIES ImplementsVersionedKey
CHECK_DEADLOCK FALSE
