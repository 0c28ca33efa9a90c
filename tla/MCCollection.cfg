SPECIFICATION Spec
CONSTANTS
    i1 = i1
    r1 = r1
    Invoices = {i1}
    Requests = {r1}
    MaxAttempts = 2
    MaxAsked = 1
    MaxOutcomes = 1
    MaxIntents = 2
INVARIANTS
    ChargedOnce
CHECK_DEADLOCK FALSE
