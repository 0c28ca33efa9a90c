SPECIFICATION Spec
CONSTANTS
    e1 = e1
    e2 = e2
    p = p
    q = q
    Events = {e1, e2}
    Unsendable = {}
    Publishers = {p, q}
    Limit = 2
    FaultKinds = {"bus", "db", "crash"}
    MaxFaults = 2
INVARIANTS
    MarkedWasSent
    CopiesBounded
PROPERTIES
    DeliverySpec
CHECK_DEADLOCK FALSE
