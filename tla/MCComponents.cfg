CONSTANTS
    Entities = {"invoice"}
    Keys = {"k1", "k2", "k3"}
    Workers = {"w1", "w2"}
    StockKeys = {"k1", "k2", "k3", "k4"}
    MaxReceived = 2
    Invoices = {"i1"}
    PaymentRequests = {"r1"}
    MaxPaymentAttempts = 2
    MaxAsked = 1
    MaxOutcomes = 2
    MaxIntents = 2
    Overdue = {"i1", "i2"}
    MaxFailed = 1
    Users = {"u1"}
    SeatLimit = 1
    MaxTokens = 3
    Monthly = {"s1"}
    Weekly = {"s2"}
    BillRunIds = {"b1", "b2"}
    WeeksPerMonth = 2
    LastDate = 3
    Scheduled = {"n1"}
    Dispatchers = {"d1", "d2"}
    MaxSends = 2
    MaxReplays = 1
    Parties = {"q1", "q2"}
    Agreed = {"q2"}
    Charges = {"x1"}
    PartyOf <- Party
    Periods = {"p1"}
    Callers = {"c1", "c2"}
    MaxInvoices = 3
    Bills = {1, 2}
    VendorOf <- Vendor
    Total <- Totals
    PaymentRuns = {"b1"}
    Allocations = {"r1", "r2"}
    Events = {"e1", "e2", "e3"}
    Unsendable = {"e3"}
    Publishers = {"p1"}
    Limit = 2
    PublisherFaults = {"db"}
    MaxBroken = 1
    Subjects = {"e1", "e2", "e3", "e4"}
    Malformed = {"e2"}
    Unversioned = {"e3"}
    Foreign = {"e4"}
    Subscribers = {"w1"}
    MaxHandled = 2
    Prefetch = 2
    MaxMessages = 2
    ConsumerFaults = {"ack", "slow"}
    MaxFaults = 2
SPECIFICATION SystemSpec
INVARIANTS
    TypesOK
    NoGapNoDuplicate
    ReservedIsSumOfRows
    PaidMeansConfirmed
    HandledMeansAnnounced
    SeatsNotOversold
    InvoicedOncePerCycle
    NoPeriodSkipped
    AttemptsAgree
    CompletedIsInvoiced
    PaymentsAgree
    CauseFirst
PROPERTIES
    ConfirmedKept
    ReservationCovered
    EscalatedUnlessBlocked
    FinalIsFinal
    EventuallyDelivered
    EventuallyResolved
CHECK_DEADLOCK FALSE
