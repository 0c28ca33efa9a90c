SPECIFICATION Spec
CONSTANTS
    invoice = invoice
    payment = payment
    accrual = accrual
    reversal = reversal
    past = past
    today = today
    None = None
    Postings = {invoice, payment}
    Reversals = {reversal}
    Direct = {accrual}
    Periods = {past, today}
    Workers = {w1, w2}
    Requests = {r1, r2}
    Accounts <- MCAccounts
    PeriodOf <- MCPeriodOf
    AccountsOf <- MCAccountsOf
    Target <- MCTarget
INVARIANTS
    PostedOnce
    BalancesAgree
    PendingRequestIsCurrent
    PostingsNeverDeadlock
PROPERTIES
    RowsSealedAtClose
    CloseIsFinal
CHECK_DEADLOCK FALSE
