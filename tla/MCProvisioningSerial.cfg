SPECIFICATION FairSerialSpec
CONSTANTS
    Tenants = {t1}
    Consumers = {c1}
    Pollers = {p1}
    Callers = {r1}
    LastStep = 3
    HookSteps = {2}
    MaxAttempts = 2
    BatchLimit = 1
    FaultKinds = {"crash", "step", "db", "bus"}
    MaxFaults = 2
    MaxRetries = 1
CHECK_DEADLOCK FALSE
PROPERTIES
    CompletedStepsKept
    SettlesEventually
