----------------------------- MODULE Collection -----------------------------
(***************************************************************************)
(* Collecting an invoice: accounts receivable (modules/ar) asks for a      *)
(* payment when an invoice is finalized, the payments service              *)
(* (modules/payments) charges it at the payment provider and reports the   *)
(* outcome, and accounts receivable marks the invoice paid.                *)
(*                                                                         *)
(* Both services consume with the platform SDK (wire_consumers): one task  *)
(* per subject, which runs its handler up to MaxAttempts times and then    *)
(* gives the event up.  A handler looks the event up among the processed   *)
(* ones, does its work and records the event, in three separate steps.     *)
(* The outbox publishers may deliver a committed event never, once or      *)
(* often, and in any order: a task takes any event there is.  Each service *)
(* runs as one process.                                                    *)
(*                                                                         *)
(* A status other than draft and paid is "open": no guard here tells them  *)
(* apart.  Amounts, the ledger posting that shares the finalizing          *)
(* transaction and the deterministic ar.invoice_opened row are left out.   *)
(***************************************************************************)
EXTENDS Integers, Sequences, FiniteSets

CONSTANTS
    Invoices,
    Requests,     \* HTTP requests in progress at a time
    MaxAttempts,  \* RetryConfig::max_attempts
    MaxAsked,     \* bound: collection requests
    MaxOutcomes,  \* bound: reported outcomes
    MaxIntents    \* bound: confirmed payment intents

VARIABLES
    status,     \* ar_invoices.status, "none" before the invoice exists
    byHand,     \* invoices whose status an HTTP request set to paid
    announced,  \* invoices with an ar.invoice_paid row in the outbox
    asked,      \* payment.collection.requested events: their invoices
    intents,    \* payment intents the provider has confirmed
    outcomes,   \* payment.succeeded (ok) and payment.failed events
    handled,    \* each service's processed_events
    task,       \* each service's consumer task
    pc, seen    \* each HTTP request's place and the status it read

invoiceVars == <<status, byHand, announced>>
eventVars == <<asked, intents, outcomes>>
requestVars == <<pc, seen>>
vars == <<invoiceVars, eventVars, handled, task, requestVars>>

Services == {"payments", "ar"}
Statuses == {"draft", "open", "paid"}

(* A confirmed intent belongs to a collection request.  It has the money or *)
(* is still being processed, which may yet fail.                            *)
IntentStatuses == {"succeeded", "processing", "failed"}

(* A task's place, event and attempt. *)
Resting == [place |-> "idle", event |-> 0, attempt |-> 0]

Task == [place : {"idle", "check", "succeeded", "failed", "mark"},
         event : Nat, attempt : 0 .. MaxAttempts]

TypeOK ==
    /\ status \in [Invoices -> Statuses \cup {"none"}]
    /\ byHand \in SUBSET Invoices
    /\ announced \in SUBSET Invoices
    /\ asked \in Seq(Invoices)
    /\ intents \in Seq([request : 1 .. Len(asked), status : IntentStatuses])
    /\ outcomes \in Seq([request : 1 .. Len(asked), ok : BOOLEAN])
    /\ handled \in [Services -> SUBSET (Nat \ {0})]
    /\ task \in [Services -> Task]
    /\ pc \in [Requests -> [place : {"idle", "finalize", "update"},
                            of : Invoices \cup {"none"}]]
    /\ seen \in [Requests -> Statuses \cup {"none"}]

Idle == [place |-> "idle", of |-> "none"]

Init ==
    /\ status = [i \in Invoices |-> "none"]
    /\ byHand = {}
    /\ announced = {}
    /\ asked = <<>> /\ intents = <<>> /\ outcomes = <<>>
    /\ handled = [s \in Services |-> {}]
    /\ task = [s \in Services |-> Resting]
    /\ pc = [r \in Requests |-> Idle]
    /\ seen = [r \in Requests |-> "none"]

-----------------------------------------------------------------------------
(* Accounts receivable, over HTTP.                                         *)

SetByHand(i, s) == byHand' = IF s = "paid" THEN byHand \cup {i} ELSE byHand

(* POST /invoices takes any status. *)
CreateInvoice(i, s) ==
    /\ status[i] = "none"
    /\ status' = [status EXCEPT ![i] = s]
    /\ SetByHand(i, s)
    /\ UNCHANGED <<announced, eventVars, handled, task, requestVars>>

(* Finalizing and updating read the invoice outside any transaction ...    *)
ReadInvoice(r, i, place) ==
    /\ pc[r] = Idle
    /\ status[i] # "none"
    /\ place = "finalize" => status[i] = "draft"
    /\ pc' = [pc EXCEPT ![r] = [place |-> place, of |-> i]]
    /\ seen' = [seen EXCEPT ![r] = status[i]]
    /\ UNCHANGED <<invoiceVars, eventVars, handled, task>>

Answer(r) ==
    /\ pc' = [pc EXCEPT ![r] = Idle]
    /\ seen' = [seen EXCEPT ![r] = "none"]

(* ... and write it whatever it has become.  A finalization asks for the   *)
(* payment in the same transaction, under a new event id.                  *)
FinalizeInvoice(r) ==
    /\ pc[r].place = "finalize"
    /\ Len(asked) < MaxAsked
    /\ status' = [status EXCEPT ![pc[r].of] = "open"]
    /\ asked' = Append(asked, pc[r].of)
    /\ Answer(r)
    /\ UNCHANGED <<byHand, announced, intents, outcomes, handled, task>>

(* An update without a status writes back the one it read. *)
UpdateInvoice(r, s) ==
    /\ pc[r].place = "update"
    /\ status' = [status EXCEPT ![pc[r].of] = s]
    /\ IF s = seen[r] THEN UNCHANGED byHand ELSE SetByHand(pc[r].of, s)
    /\ Answer(r)
    /\ UNCHANGED <<announced, eventVars, handled, task>>

-----------------------------------------------------------------------------
(* The SDK's consumer tasks.                                               *)

(* Payments consumes the requests, accounts receivable the successes. *)
Inbox(s) ==
    IF s = "payments" THEN DOMAIN asked
    ELSE {o \in DOMAIN outcomes : outcomes[o].ok}

Goto(s, place) == task' = [task EXCEPT ![s].place = place]
Rest(s) == task' = [task EXCEPT ![s] = Resting]

Take(s, e) ==
    /\ task[s] = Resting
    /\ e \in Inbox(s)
    /\ task' = [task EXCEPT ![s] =
                    [place |-> "check", event |-> e, attempt |-> 1]]
    /\ UNCHANGED <<invoiceVars, eventVars, handled, requestVars>>

(* is_processed finds a duplicate; otherwise the handler goes on. *)
Fresh(s) == task[s].place = "check" /\ task[s].event \notin handled[s]

Duplicate(s) ==
    /\ task[s].place = "check" /\ ~Fresh(s)
    /\ Rest(s)
    /\ UNCHANGED <<invoiceVars, eventVars, handled, requestVars>>

(* mark_processed, the handler's last statement. *)
Mark(s) ==
    /\ task[s].place = "mark"
    /\ handled' = [handled EXCEPT ![s] = @ \cup {task[s].event}]
    /\ Rest(s)
    /\ UNCHANGED <<invoiceVars, eventVars, requestVars>>

(* Mutant: an event that is given up is recorded as processed. *)
FailMutant(s) ==
    /\ task[s].place # "idle"
    /\ IF task[s].attempt < MaxAttempts
       THEN /\ task' = [task EXCEPT ![s].place = "check", ![s].attempt = @ + 1]
            /\ UNCHANGED handled
       ELSE /\ Rest(s)
            /\ handled' = [handled EXCEPT ![s] = @ \cup {task[s].event}]
    /\ UNCHANGED <<invoiceVars, eventVars, requestVars>>

(* A statement fails: the handler runs again from its start, or the event  *)
(* is given up, with a line in the log.                                    *)
Fail(s) ==
    /\ task[s].place # "idle"
    /\ IF task[s].attempt < MaxAttempts
       THEN task' = [task EXCEPT ![s].place = "check", ![s].attempt = @ + 1]
       ELSE Rest(s)
    /\ UNCHANGED <<invoiceVars, eventVars, handled, requestVars>>

(* The process ends with its task at any place. *)
Crash(s) ==
    /\ task[s].place # "idle"
    /\ Rest(s)
    /\ UNCHANGED <<invoiceVars, eventVars, handled, requestVars>>

-----------------------------------------------------------------------------
(* The handlers.                                                           *)

(* What the provider has confirmed, whether or not the answer arrives. *)
Confirmed(e, result) ==
    IF result = "none"
    THEN UNCHANGED intents
    ELSE /\ Len(intents) < MaxIntents
         /\ intents' = Append(intents, [request |-> e, status |-> result])

(* Mutant: a provider error is taken for a success. *)
ChargeMutant(result, ok) ==
    /\ Fresh("payments")
    /\ Confirmed(task["payments"].event, result)
    /\ Goto("payments", "succeeded")
    /\ UNCHANGED <<invoiceVars, asked, outcomes, handled, requestVars>>

(* process_payment creates and confirms a payment intent of its own, with  *)
(* no idempotency key.  It answers Ok only after a confirmation, which may *)
(* say succeeded or processing, and may answer an error after one, too.    *)
Charge(result, ok) ==
    /\ Fresh("payments")
    /\ ok => result # "none"
    /\ Confirmed(task["payments"].event, result)
    /\ Goto("payments", IF ok THEN "succeeded" ELSE "failed")
    /\ UNCHANGED <<invoiceVars, asked, outcomes, handled, requestVars>>

(* The provider ends the processing of an intent.  Nobody asks for what    *)
(* became of it.                                                           *)
Settle(n, result) ==
    /\ intents[n].status = "processing"
    /\ intents' = [intents EXCEPT ![n].status = result]
    /\ UNCHANGED <<invoiceVars, asked, outcomes, handled, task, requestVars>>

(* enqueue_event, a statement of its own. *)
Report ==
    /\ task["payments"].place \in {"succeeded", "failed"}
    /\ Len(outcomes) < MaxOutcomes
    /\ outcomes' = Append(outcomes,
           [request |-> task["payments"].event,
            ok |-> task["payments"].place = "succeeded"])
    /\ Goto("payments", "mark")
    /\ UNCHANGED <<invoiceVars, asked, intents, handled, requestVars>>

(* The invoice a success is about. *)
PaidInvoice == asked[outcomes[task["ar"].event].request]

(* handle_payment_succeeded: unless the invoice is paid already, its       *)
(* status and the outbox row, in one transaction.                          *)
ApplyPayment ==
    /\ Fresh("ar")
    /\ Goto("ar", "mark")
    /\ IF status[PaidInvoice] # "paid"
       THEN /\ status' = [status EXCEPT ![PaidInvoice] = "paid"]
            /\ announced' = announced \cup {PaidInvoice}
       ELSE UNCHANGED <<status, announced>>
    /\ UNCHANGED <<byHand, eventVars, handled, requestVars>>

-----------------------------------------------------------------------------
Http(r) ==
    \/ \E i \in Invoices, place \in {"finalize", "update"} :
         ReadInvoice(r, i, place)
    \/ FinalizeInvoice(r)
    \/ \E s \in Statuses : UpdateInvoice(r, s)

Consume(s) ==
    \/ \E e \in Inbox(s) : Take(s, e)
    \/ Duplicate(s) \/ Mark(s) \/ Fail(s) \/ Crash(s)

Next ==
    \/ \E i \in Invoices, s \in Statuses : CreateInvoice(i, s)
    \/ \E r \in Requests : Http(r)
    \/ \E s \in Services : Consume(s)
    \/ \E result \in {"none", "succeeded", "processing"}, ok \in BOOLEAN :
         Charge(result, ok)
    \/ \E n \in DOMAIN intents, result \in {"succeeded", "failed"} :
         Settle(n, result)
    \/ Report
    \/ ApplyPayment

Spec == Init /\ [][Next]_vars

-----------------------------------------------------------------------------
(* Properties.                                                             *)

IntentsOf(i) == {n \in DOMAIN intents : asked[intents[n].request] = i}

(* Announced as paid, or paid otherwise than by hand. *)
CountsAsPaid(i) == i \in announced \/ (status[i] = "paid" /\ i \notin byHand)

(* No invoice counts as paid unless the provider confirmed a payment of it *)
(* - money it has or is still processing -, across both services, failed   *)
(* and repeated handlers and concurrent edits of the invoice.              *)
PaidMeansConfirmed == \A i \in Invoices : CountsAsPaid(i) => IntentsOf(i) # {}

(* A success that accounts receivable has recorded as processed has been   *)
(* announced: neither a crash nor a failed statement between the handler's *)
(* steps loses it.  (An invoice set to paid by hand is never announced:    *)
(* the update finds nothing left to do.)                                   *)
HandledMeansAnnounced ==
    \A o \in handled["ar"] :
        LET i == asked[outcomes[o].request] IN i \in announced \/ i \in byHand

(* PAYMENTS-MODULE-SPEC.md:74: a payment cannot be charged twice for the   *)
(* same attempt; here, for one collection request.                         *)
ChargedOnce ==
    \A m, n \in DOMAIN intents :
        /\ intents[m].status = "succeeded" /\ intents[n].status = "succeeded"
        /\ intents[m].request = intents[n].request
        => m = n
=============================================================================
