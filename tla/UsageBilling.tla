---------------------------- MODULE UsageBilling ----------------------------
(***************************************************************************)
(* Billing runs of modules/ttp: one run per tenant and period, which       *)
(* invoices every party that has an agreement or pending one-time charges  *)
(* at accounts receivable, and marks the charges billed afterwards.        *)
(*                                                                         *)
(* Every statement commits by itself and the calls to accounts receivable  *)
(* come between them.  Two calls may drive one run at once, and a call may *)
(* end anywhere; the next one takes the run up from its items.  Accounts   *)
(* receivable creates an invoice whenever it is asked: it keeps the        *)
(* correlation id and does not look for it.                                *)
(*                                                                         *)
(* One tenant.  Amounts are positive and left out, metered usage is an     *)
(* agreement of one more party.                                            *)
(***************************************************************************)
EXTENDS Integers, Sequences

CONSTANTS
    Parties,
    Agreed,      \* the parties with an active agreement
    Charges,     \* one-time charges
    PartyOf,     \* the party of each
    Periods,
    Callers,     \* run_billing calls in progress at a time
    MaxInvoices  \* bound: invoices created

VARIABLES
    run,       \* ttp_billing_runs.status, "none" without a row
    item,      \* the parties with an invoiced item of each run
    charge,    \* ttp_one_time_charges.status, "none" without a row
    invoices,  \* what accounts receivable has, in order of creation
    place,     \* where each call is
    period,    \* the period it is for
    work,      \* the parties it has collected, with their charges
    current,   \* the party it is at
    invoice    \* the invoice it has created for it

callVars == <<place, period, work, current, invoice>>
vars == <<run, item, charge, invoices, callVars>>

Work == [party : Parties, charges : SUBSET Charges]
NoWork == [party |-> "none", charges |-> {}]

Invoice == [period : Periods, party : Parties, charges : SUBSET Charges,
            finalized : BOOLEAN]

Places == {"idle", "insert", "start", "collect", "loop", "create",
           "finalize", "item", "charges"}

TypeOK ==
    /\ run \in [Periods -> {"none", "pending", "processing", "completed"}]
    /\ item \in [Periods -> SUBSET Parties]
    /\ charge \in [Charges -> {"none", "pending", "billed"}]
    /\ invoices \in Seq(Invoice)
    /\ place \in [Callers -> Places]
    /\ period \in [Callers -> Periods \cup {"none"}]
    /\ \A c \in Callers : place[c] # "idle" => period[c] \in Periods
    /\ work \in [Callers -> SUBSET Work]
    /\ current \in [Callers -> Work \cup {NoWork}]
    /\ invoice \in [Callers -> 0 .. Len(invoices)]

Init ==
    /\ run = [p \in Periods |-> "none"]
    /\ item = [p \in Periods |-> {}]
    /\ charge = [x \in Charges |-> "none"]
    /\ invoices = <<>>
    /\ place = [c \in Callers |-> "idle"]
    /\ period = [c \in Callers |-> "none"]
    /\ work = [c \in Callers |-> {}]
    /\ current = [c \in Callers |-> NoWork]
    /\ invoice = [c \in Callers |-> 0]

Goto(c, p) == place' = [place EXCEPT ![c] = p]

Finish(c) ==
    /\ Goto(c, "idle")
    /\ period' = [period EXCEPT ![c] = "none"]
    /\ work' = [work EXCEPT ![c] = {}]
    /\ current' = [current EXCEPT ![c] = NoWork]
    /\ invoice' = [invoice EXCEPT ![c] = 0]

(* On to the next party. *)
Continue(c) ==
    /\ Goto(c, "loop")
    /\ current' = [current EXCEPT ![c] = NoWork]
    /\ invoice' = [invoice EXCEPT ![c] = 0]
    /\ UNCHANGED <<period, work>>

-----------------------------------------------------------------------------
(* A row of ttp_one_time_charges appears. *)
AddCharge(x) ==
    /\ charge[x] = "none"
    /\ charge' = [charge EXCEPT ![x] = "pending"]
    /\ UNCHANGED <<run, item, invoices, callVars>>

-----------------------------------------------------------------------------
(* run_billing *)

(* A completed run is answered from its items. *)
FetchExistingRun(c, p) ==
    /\ place[c] = "idle"
    /\ run[p] # "completed"
    /\ period' = [period EXCEPT ![c] = p]
    /\ Goto(c, IF run[p] = "processing" THEN "start" ELSE "insert")
    /\ UNCHANGED <<run, item, charge, invoices, work, current, invoice>>

(* ON CONFLICT DO NOTHING *)
InsertBillingRun(c) ==
    /\ place[c] = "insert"
    /\ run' = [run EXCEPT ![period[c]] = IF @ = "none" THEN "pending" ELSE @]
    /\ Goto(c, "start")
    /\ UNCHANGED <<item, charge, invoices, period, work, current, invoice>>

SetRunProcessing(c) ==
    /\ place[c] = "start"
    /\ run' = [run EXCEPT ![period[c]] =
                   IF @ = "completed" THEN @ ELSE "processing"]
    /\ Goto(c, "collect")
    /\ UNCHANGED <<item, charge, invoices, period, work, current, invoice>>

PendingOf(q) == {x \in Charges : charge[x] = "pending" /\ PartyOf[x] = q}

(* Three queries, one step here: what another call of the same run does    *)
(* between them only leaves more parties out.                              *)
CollectParties(c) ==
    /\ place[c] = "collect"
    /\ work' = [work EXCEPT ![c] =
           {[party |-> q, charges |-> PendingOf(q)] :
                q \in {r \in Parties \ item[period[c]] :
                           r \in Agreed \/ PendingOf(r) # {}}}]
    /\ Goto(c, "loop")
    /\ UNCHANGED <<run, item, charge, invoices, period, current, invoice>>

(* A party that has become invoiced meanwhile is passed over. *)
TakeParty(c, q) ==
    /\ place[c] = "loop" /\ q \in work[c]
    /\ work' = [work EXCEPT ![c] = @ \ {q}]
    /\ IF q.party \in item[period[c]]
       THEN UNCHANGED <<place, current>>
       ELSE /\ Goto(c, "create")
            /\ current' = [current EXCEPT ![c] = q]
    /\ UNCHANGED <<run, item, charge, invoices, period, invoice>>

(* The call creates a draft; without an answer it is an error here. *)
CreateInvoice(c, answered) ==
    /\ place[c] = "create"
    /\ Len(invoices) < MaxInvoices
    /\ invoices' = Append(invoices,
           [period |-> period[c], party |-> current[c].party,
            charges |-> current[c].charges, finalized |-> FALSE])
    /\ IF answered
       THEN /\ invoice' = [invoice EXCEPT ![c] = Len(invoices) + 1]
            /\ Goto(c, "finalize")
            /\ UNCHANGED <<period, work, current>>
       ELSE Finish(c)
    /\ UNCHANGED <<run, item, charge>>

FinalizeInvoice(c, answered) ==
    /\ place[c] = "finalize"
    /\ invoices' = [invoices EXCEPT ![invoice[c]].finalized = TRUE]
    /\ IF answered THEN Goto(c, "item") /\ UNCHANGED <<period, work, current, invoice>>
                   ELSE Finish(c)
    /\ UNCHANGED <<run, item, charge>>

UpsertBillingItem(c) ==
    /\ place[c] = "item"
    /\ item' = [item EXCEPT ![period[c]] = @ \cup {current[c].party}]
    /\ IF current[c].charges = {}
       THEN Continue(c)
       ELSE Goto(c, "charges") /\ UNCHANGED <<period, work, current, invoice>>
    /\ UNCHANGED <<run, charge, invoices>>

MarkChargesBilled(c) ==
    /\ place[c] = "charges"
    /\ charge' = [x \in Charges |->
                     IF x \in current[c].charges /\ charge[x] = "pending"
                     THEN "billed" ELSE charge[x]]
    /\ Continue(c)
    /\ UNCHANGED <<run, item, invoices>>

SetRunCompleted(c) ==
    /\ place[c] = "loop" /\ work[c] = {}
    /\ run' = [run EXCEPT ![period[c]] = "completed"]
    /\ Finish(c)
    /\ UNCHANGED <<item, charge, invoices>>

(* Mutant: the error of one party is passed over. *)
FailPartyMutant(c) ==
    /\ place[c] # "idle"
    /\ IF place[c] = "create" THEN Continue(c) ELSE Finish(c)
    /\ UNCHANGED <<run, item, charge, invoices>>

(* A statement or a call fails before it does anything, or the process     *)
(* ends: the call returns the error and leaves the run as it is.           *)
Fail(c) ==
    /\ place[c] # "idle"
    /\ Finish(c)
    /\ UNCHANGED <<run, item, charge, invoices>>

-----------------------------------------------------------------------------
Next ==
    \/ \E x \in Charges : AddCharge(x)
    \/ \E c \in Callers :
         \/ \E p \in Periods : FetchExistingRun(c, p)
         \/ InsertBillingRun(c) \/ SetRunProcessing(c) \/ CollectParties(c)
         \/ \E q \in work[c] : TakeParty(c, q)
         \/ \E answered \in BOOLEAN :
              CreateInvoice(c, answered) \/ FinalizeInvoice(c, answered)
         \/ UpsertBillingItem(c) \/ MarkChargesBilled(c)
         \/ SetRunCompleted(c) \/ Fail(c)

Spec == Init /\ [][Next]_vars

-----------------------------------------------------------------------------
(* Properties.                                                             *)

FinalizedFor(p, q) ==
    {i \in DOMAIN invoices :
        invoices[i].finalized /\ invoices[i].period = p /\ invoices[i].party = q}

(* A charge is marked billed only once it is on a finalized invoice of its *)
(* party (billing.rs, "One-time charges are marked billed only AFTER the   *)
(* AR invoice is finalized"), whichever of several calls marks it.         *)
BilledIsInvoiced ==
    \A x \in Charges :
        charge[x] = "billed" =>
            \E p \in Periods : \E i \in FinalizedFor(p, PartyOf[x]) :
                x \in invoices[i].charges

(* A completed run has invoiced every agreement: calls that fail or end    *)
(* midway, overlap or take each other's run up leave no party out.         *)
CompletedIsInvoiced ==
    \A p \in Periods, q \in Agreed :
        run[p] = "completed" => FinalizedFor(p, q) # {}
=============================================================================
