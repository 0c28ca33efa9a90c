----------------------------- MODULE Components -----------------------------
(***************************************************************************)
(* Components that are checked by themselves: nine of the business         *)
(* modules, and the two ends of the event pipeline.  None of them can see  *)
(* another one move here, so their states are explored side by side        *)
(* instead of being multiplied: part, chosen at the start, says whose they *)
(* are.  The numbering service is extended, the others are instances with  *)
(* variables of their own; where there are proofs about one, it is the     *)
(* module of its proofs that is instantiated, so that they can be cited.   *)
(***************************************************************************)
EXTENDS Sequences, FiniteSets, Numbering

CONSTANTS
    (* Inventory *)
    StockKeys, MaxReceived,
    (* Collection *)
    Invoices, PaymentRequests, MaxPaymentAttempts, MaxAsked, MaxOutcomes,
    MaxIntents,
    (* Dunning *)
    Overdue, MaxFailed,
    (* SessionLeases *)
    Users, SeatLimit, MaxTokens,
    (* BillRuns *)
    Monthly, Weekly, BillRunIds, WeeksPerMonth, LastDate,
    (* Notifications *)
    Scheduled, Dispatchers, MaxSends, MaxReplays,
    (* UsageBilling *)
    Parties, Agreed, Charges, PartyOf, Periods, Callers, MaxInvoices,
    (* Payables *)
    Bills, VendorOf, Total, PaymentRuns, Allocations,
    (* OutboxPublisher *)
    Events, Unsendable, Publishers, Limit, PublisherFaults, MaxBroken,
    (* EventConsumer *)
    Subjects, Malformed, Unversioned, Foreign, Subscribers, MaxHandled,
    Prefetch, MaxMessages, ConsumerFaults, MaxFaults

ASSUME SystemAssumption ==
    /\ IsFiniteSet(StockKeys) /\ MaxReceived \in Nat
    /\ MaxPaymentAttempts \in Nat \ {0}
    /\ MaxFailed \in Nat
    /\ SeatLimit \in Nat /\ MaxTokens \in Nat
    /\ Monthly \cap Weekly = {}
    /\ WeeksPerMonth \in Nat \ {0} /\ LastDate \in Nat
    /\ MaxSends \in Nat \ {0} /\ MaxReplays \in Nat
    /\ Agreed \subseteq Parties
    /\ Bills \subseteq Nat /\ Total \in [Bills -> Nat \ {0}]
    /\ PaymentRuns \cap Allocations = {}
    /\ IsFiniteSet(Events) /\ IsFiniteSet(Publishers)
    /\ Unsendable \subseteq Events
    /\ Limit \in Nat \ {0}
    /\ PublisherFaults \subseteq {"bus", "db", "crash"} /\ MaxBroken \in Nat
    /\ Malformed \subseteq Subjects
    /\ Unversioned \subseteq Subjects \ Malformed
    /\ Foreign \subseteq Subjects \ (Malformed \cup Unversioned)
    /\ MaxHandled \in Nat \ {0} /\ Prefetch \in Nat \ {0}
    /\ MaxMessages \in Nat /\ MaxFaults \in Nat
    /\ ConsumerFaults \subseteq {"ack", "crash", "db", "slow"}

VARIABLES
    part,
    layers, onHand, reserved, primary, compensated, returned, stored,
    received, clerk, job,
    status, byHand, announced, asked, intents, outcomes, handled, task,
    call, read,
    state, calendar, due, claim, failed,
    tokens, leases, lastToken, session, about,
    nextBill, cycle, invoiced, finalized, runAt, dueLeft, subscription,
    noteStatus, retryCount, generation, stale, attempts, taskAt, batch,
    note, result,
    run, item, charge, invoices, caller, period, work, current, invoice,
    row, createdAt, prior, publisher, todo, sent, buffer, sentStream, lost,
    broken,
    billStatus, allocated, runStatus, items, payer, payment, left, added,
    paid,
    stream, acked, waiting, queue, consumer, cur, attempt, claimed, dlq,
    applied, faults

stockVars ==
    <<layers, onHand, reserved, primary, compensated, returned, stored,
      received, clerk, job>>

collectingVars ==
    <<status, byHand, announced, asked, intents, outcomes, handled, task,
      call, read>>

remindersVars ==
    <<state, calendar, due, claim, failed>>

seatsVars ==
    <<tokens, leases, lastToken, session, about>>

subscriptionsVars ==
    <<nextBill, cycle, invoiced, finalized, runAt, dueLeft, subscription>>

notesVars ==
    <<noteStatus, retryCount, generation, stale, attempts, taskAt, batch,
      note, result>>

usageVars ==
    <<run, item, charge, invoices, caller, period, work, current, invoice>>

payingVars ==
    <<billStatus, allocated, runStatus, items, payer, payment, left, added,
      paid>>

relayVars ==
    <<row, createdAt, prior, publisher, todo, sent, buffer, sentStream,
      lost, broken>>

subscriberVars ==
    <<stream, acked, waiting, queue, consumer, cur, attempt, claimed, dlq,
      applied, faults>>

Stock ==
    INSTANCE Inventory
        WITH Keys <- StockKeys, pc <- clerk

Collecting ==
    INSTANCE CollectionProofs
        WITH Requests <- PaymentRequests, MaxAttempts <- MaxPaymentAttempts,
             pc <- call, seen <- read

Reminders ==
    INSTANCE Dunning
        WITH Invoices <- Overdue, MaxFaults <- MaxFailed,
             queue <- calendar, faults <- failed

Seats ==
    INSTANCE SessionLeases
        WITH issued <- lastToken, pc <- session, req <- about

Subscriptions ==
    INSTANCE BillRuns
        WITH Runs <- BillRunIds, attempt <- cycle,
             place <- runAt, todo <- dueLeft, current <- subscription

Notes ==
    INSTANCE NotificationsProofs
        WITH Notes <- Scheduled, MaxAttempts <- MaxSends,
             status <- noteStatus, place <- taskAt, current <- note

Usage ==
    INSTANCE UsageBilling
        WITH place <- caller

Paying ==
    INSTANCE Payables
        WITH Runs <- PaymentRuns, Requests <- Allocations,
             status <- billStatus, run <- runStatus, place <- payer,
             task <- payment

Relay ==
    INSTANCE OutboxPublisherProofs
        WITH FaultKinds <- PublisherFaults, MaxFaults <- MaxBroken,
             pc <- publisher, stream <- sentStream, faults <- broken

Subscriber ==
    INSTANCE EventConsumerProofs
        WITH Events <- Subjects, Workers <- Subscribers,
             MaxAttempts <- MaxHandled, FaultKinds <- ConsumerFaults,
             pc <- consumer

Parts ==
    {"numbers", "stock", "collecting", "reminders", "seats",
     "subscriptions", "notes", "usage", "paying",
     "relay", "subscriber"}

SystemInit ==
    /\ part \in Parts
    /\ Init
    /\ Stock!Init
    /\ Collecting!Init
    /\ Reminders!Init
    /\ Seats!Init
    /\ Subscriptions!Init
    /\ Notes!Init
    /\ Usage!Init
    /\ Paying!Init
    /\ Relay!Init
    /\ Subscriber!Init

(* A step of one component leaves the variables of the others alone. *)
Others ==
    /\ part # "numbers" => UNCHANGED vars
    /\ part # "stock" => UNCHANGED stockVars
    /\ part # "collecting" => UNCHANGED collectingVars
    /\ part # "reminders" => UNCHANGED remindersVars
    /\ part # "seats" => UNCHANGED seatsVars
    /\ part # "subscriptions" => UNCHANGED subscriptionsVars
    /\ part # "notes" => UNCHANGED notesVars
    /\ part # "usage" => UNCHANGED usageVars
    /\ part # "paying" => UNCHANGED payingVars
    /\ part # "relay" => UNCHANGED relayVars
    /\ part # "subscriber" => UNCHANGED subscriberVars

SystemNext ==
    /\ UNCHANGED part
    /\ Others
    /\ \/ part = "numbers" /\ Next
       \/ part = "stock" /\ Stock!Next
       \/ part = "collecting" /\ Collecting!Next
       \/ part = "reminders" /\ Reminders!Next
       \/ part = "seats" /\ Seats!Next
       \/ part = "subscriptions" /\ Subscriptions!Next
       \/ part = "notes" /\ Notes!Next
       \/ part = "usage" /\ Usage!Next
       \/ part = "paying" /\ Paying!Next
       \/ part = "relay" /\ Relay!Next
       \/ part = "subscriber" /\ Subscriber!Next

systemVars ==
    <<part, vars, stockVars, collectingVars, remindersVars, seatsVars,
      subscriptionsVars, notesVars, usageVars, payingVars, relayVars,
      subscriberVars>>

(* The fairness of the components that promise something in the end. *)
SystemSpec ==
    /\ SystemInit /\ [][SystemNext]_systemVars
    /\ Reminders!Fairness /\ Relay!Fairness /\ Subscriber!Fairness

-----------------------------------------------------------------------------
(* Properties, each stated in the module of its component; those of the    *)
(* numbering service, NoGapNoDuplicate and ConfirmedKept, are its own.     *)

(* Type correctness of every component, where it is the one that moves. *)
TypesOK ==
    /\ part \in Parts
    /\ part = "numbers" => TypeOK
    /\ part = "stock" => Stock!TypeOK
    /\ part = "collecting" => Collecting!TypeOK
    /\ part = "reminders" => Reminders!TypeOK
    /\ part = "seats" => Seats!TypeOK
    /\ part = "subscriptions" => Subscriptions!TypeOK
    /\ part = "notes" => Notes!TypeOK
    /\ part = "usage" => Usage!TypeOK
    /\ part = "paying" => Paying!TypeOK
    /\ part = "relay" => Relay!TypeOK
    /\ part = "subscriber" => Subscriber!TypeOK

(* A reservation is granted only against stock that is there. *)
ReservationCovered == Stock!ReservationCovered

(* quantity_reserved is the sum of the reservations' rows. *)
ReservedIsSumOfRows == Stock!ReservedIsSumOfRows

(* Nothing counts as paid that the provider did not confirm. *)
PaidMeansConfirmed == Collecting!PaidMeansConfirmed

(* A success recorded as processed has been announced. *)
HandledMeansAnnounced == Collecting!HandledMeansAnnounced

(* A due dunning row is escalated unless a suspended one is before it. *)
EscalatedUnlessBlocked == Reminders!EscalatedUnlessBlocked

(* Concurrent logins never take more seats than the tenant has. *)
SeatsNotOversold == Seats!SeatsNotOversold

(* At most one invoice per subscription and month. *)
InvoicedOncePerCycle == Subscriptions!InvoicedOncePerCycle

(* A subscription's date moves on only past dates it was billed for. *)
NoPeriodSkipped == Subscriptions!NoPeriodSkipped

(* A notification's row agrees with its recorded attempts. *)
AttemptsAgree == Notes!AttemptsAgree

(* Only a replay takes a notification out of its final status. *)
FinalIsFinal == Notes!FinalIsFinal

(* A completed billing run has invoiced every agreement. *)
CompletedIsInvoiced == Usage!CompletedIsInvoiced

(* Bills, allocations and payment runs agree. *)
PaymentsAgree == Paying!PaymentsAgree

(* With one publisher, a cause reaches the stream before its effect. *)
CauseFirst == Relay!CauseFirst

(* Every committed event the bus can take reaches the stream. *)
EventuallyDelivered == Relay!EventuallyDelivered

(* Every message ends applied, dead-lettered or skipped. *)
EventuallyResolved == Subscriber!EventuallyResolved
=============================================================================
