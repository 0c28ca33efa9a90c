SPECIFICATION Spec
CONSTANTS
    e1 = e1
    w = w
    Events = {e1}
    Malformed = {}
    Unversioned = {}
    Foreign = {}
    Workers = {w}
    MaxAttempts = 2
    Prefetch = 1
    MaxMessages = 1
    FaultKinds = {"crash"}
    MaxFaults = 1
INVARIANTS
    ResolvedBeforeAck
CHECK_DEADLOCK FALSE
