SPECIFICATION Spec
CONSTANTS
    e1 = e1
    p = p
    Events = {e1}
    Unsendable = {}
    Publishers = {p}
    Limit = 1
    FaultKinds = {"crash"}
    MaxFaults = 1
INVARIANTS
    AtLeastOnce
CHECK_DEADLOCK FALSE
