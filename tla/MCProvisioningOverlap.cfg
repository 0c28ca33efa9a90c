SPECIFICATION OverlapSpec
CONSTANTS
    Tenants = {t1}
    Consumers = {c1}
    Pollers = {p1}
    Callers = {r1, r2}
    LastStep = 3
    HookSteps = {}
    MaxAttempts = 2
    BatchLimit = 1
    FaultKinds = {"crash", "step", "db"}
    MaxFaults = 1
    MaxRetries = 2
CHECK_DEADLOCK FALSE
SYMMETRY CallersAlike
INVARIANTS
    NoStepSkipped
    ActiveOnlyWhenBuilt
    EventsTellTheTruth
    AnnouncedUnlessCut
PROPERTY
    LifecycleUnlessCrossed
