SPECIFICATION FairSpec
CONSTANTS
    Tenants = {t1}
    Consumers = {c1}
    Pollers = {p1}
    Callers = {}
    LastStep = 3
    HookSteps = {2}
    MaxAttempts = 2
    BatchLimit = 1
    FaultKinds = {}
    MaxFaults = 0
    MaxRetries = 0
CHECK_DEADLOCK FALSE
PROPERTY
    SettlesEventually
