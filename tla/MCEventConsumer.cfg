SPECIFICATION Spec
CONSTANTS
    e1 = e1
    e2 = e2
    e3 = e3
    e4 = e4
    e5 = e5
    v = v
    w = w
    Events = {e1, e2, e3, e4, e5}
    Malformed = {e2}
    Unversioned = {e3}
    Foreign = {e4}
    Workers = {v, w}
    MaxAttempts = 2
    Prefetch = 1
    MaxMessages = 2
    FaultKinds = {"ack", "crash", "db", "slow"}
    MaxFaults = 3
INVARIANTS
    OneHandler
    AppliedOnce
    FatalNotApplied
    LossesBounded
CHECK_DEADLOCK FALSE
