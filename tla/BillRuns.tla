------------------------------ MODULE BillRuns ------------------------------
(***************************************************************************)
(* Billing of subscriptions (modules/subscriptions): a bill run takes the  *)
(* subscriptions that are due and creates an invoice for each at accounts  *)
(* receivable, behind the gate of a row of subscription_invoice_attempts   *)
(* that is unique per subscription and month.                              *)
(*                                                                         *)
(* A run is executed at most once: its row is inserted first, under a      *)
(* unique id, and whoever asks for it again is answered from the row.  The *)
(* gate is one transaction; the calls to accounts receivable, the record   *)
(* of the outcome and the subscription's next date follow one by one.      *)
(*                                                                         *)
(* One tenant with active subscriptions.  A date is a number of weeks, a   *)
(* month has WeeksPerMonth of them.  Amounts, customers and the event of a *)
(* completed run are left out.                                             *)
(***************************************************************************)
EXTENDS Integers, Functions

CONSTANTS
    Monthly, Weekly,  \* the subscriptions, by schedule
    Runs,             \* bill_run_ids, each requested at some time or never
    WeeksPerMonth,
    LastDate          \* bound: the latest execution date

VARIABLES
    nextBill,   \* subscriptions.next_bill_date
    attempt,    \* status of the attempt of a subscription's month
    invoiced,   \* how many invoices accounts receivable has for a date
    finalized,  \* the dates with a finalized one
    place,      \* where each run is
    todo,       \* the due subscriptions it has not come to, with their dates
    current     \* the one it is at

runVars == <<place, todo, current>>
vars == <<nextBill, attempt, invoiced, finalized, runVars>>

Subscriptions == Monthly \cup Weekly
Dates == 0 .. LastDate

(* generate_cycle_key *)
CycleKey(d) == d \div WeeksPerMonth
Months == {CycleKey(d) : d \in Dates}

(* calculate_next_bill_date.  Left out: the four weeks of every other      *)
(* schedule, which like one week may end in the same month, and the first  *)
(* of the month for a day it does not have, which is the next month still. *)
NextDate(s, d) == IF s \in Monthly THEN d + WeeksPerMonth ELSE d + 1

Due == [of : Subscriptions, date : Dates]
NoOne == [of |-> "none", date |-> 0]

Statuses == {"none", "attempting", "succeeded", "failed_final"}
Places == {"new", "gate", "create", "finalize", "record", "fail", "advance",
           "over"}

TypeOK ==
    /\ nextBill \in [Subscriptions -> Nat]
    /\ attempt \in [Subscriptions -> [Months -> Statuses]]
    /\ invoiced \in [Subscriptions -> [Dates -> Nat]]
    /\ finalized \in [Subscriptions -> SUBSET Dates]
    /\ place \in [Runs -> Places]
    /\ todo \in [Runs -> SUBSET Due]
    /\ current \in [Runs -> Due \cup {NoOne}]

Init ==
    /\ nextBill = [s \in Subscriptions |-> 0]
    /\ attempt = [s \in Subscriptions |-> [m \in Months |-> "none"]]
    /\ invoiced = [s \in Subscriptions |-> [d \in Dates |-> 0]]
    /\ finalized = [s \in Subscriptions |-> {}]
    /\ place = [r \in Runs |-> "new"]
    /\ todo = [r \in Runs |-> {}]
    /\ current = [r \in Runs |-> NoOne]

Goto(r, p) == place' = [place EXCEPT ![r] = p] /\ UNCHANGED <<todo, current>>

(* On to the next subscription, whatever became of this one. *)
Continue(r) ==
    /\ place' = [place EXCEPT ![r] = "gate"]
    /\ current' = [current EXCEPT ![r] = NoOne]
    /\ UNCHANGED todo

SetAttempt(r, status) ==
    attempt' = [attempt EXCEPT ![current[r].of][CycleKey(current[r].date)] = status]

-----------------------------------------------------------------------------
(* execute_bill_run *)

(* insert_bill_run and fetch_subscriptions_due, with the dates as they are. *)
Start(r, date) ==
    /\ place[r] = "new"
    /\ place' = [place EXCEPT ![r] = "gate"]
    /\ todo' = [todo EXCEPT ![r] =
           {[of |-> s, date |-> nextBill[s]] :
                s \in {x \in Subscriptions : nextBill[x] <= date}}]
    /\ UNCHANGED <<nextBill, attempt, invoiced, finalized, current>>

(* create_gated_invoice: lock, check and record the attempt. *)
Gate(r, d) ==
    /\ place[r] = "gate" /\ d \in todo[r]
    /\ attempt[d.of][CycleKey(d.date)] = "none"
    /\ attempt' = [attempt EXCEPT ![d.of][CycleKey(d.date)] = "attempting"]
    /\ place' = [place EXCEPT ![r] = "create"]
    /\ todo' = [todo EXCEPT ![r] = @ \ {d}]
    /\ current' = [current EXCEPT ![r] = d]
    /\ UNCHANGED <<nextBill, invoiced, finalized>>

(* Mutant: the next date is set where the cycle turns out to be taken, too. *)
SkipMutant(r, d) ==
    /\ place[r] = "gate" /\ d \in todo[r]
    /\ todo' = [todo EXCEPT ![r] = @ \ {d}]
    /\ nextBill' = [nextBill EXCEPT ![d.of] = NextDate(d.of, d.date)]
    /\ UNCHANGED <<attempt, invoiced, finalized, place, current>>

(* DuplicateCycle, or the gate's transaction fails. *)
Skip(r, d) ==
    /\ place[r] = "gate" /\ d \in todo[r]
    /\ todo' = [todo EXCEPT ![r] = @ \ {d}]
    /\ UNCHANGED <<nextBill, attempt, invoiced, finalized, place, current>>

(* The call creates a draft or not, and is answered or not; without an     *)
(* answer the client gives an error.                                       *)
CreateInvoice(r, done, answered) ==
    /\ place[r] = "create"
    /\ LET d == current[r] IN
         invoiced' = [invoiced EXCEPT ![d.of][d.date] = IF done THEN @ + 1 ELSE @]
    /\ Goto(r, IF done /\ answered THEN "finalize" ELSE "fail")
    /\ UNCHANGED <<nextBill, attempt, finalized>>

FinalizeInvoice(r, done, answered) ==
    /\ place[r] = "finalize"
    /\ LET d == current[r] IN
         finalized' = [finalized EXCEPT ![d.of] = IF done THEN @ \cup {d.date} ELSE @]
    /\ Goto(r, IF done /\ answered THEN "record" ELSE "fail")
    /\ UNCHANGED <<nextBill, attempt, invoiced>>

MarkSucceeded(r) ==
    /\ place[r] = "record"
    /\ SetAttempt(r, "succeeded")
    /\ Goto(r, "advance")
    /\ UNCHANGED <<nextBill, invoiced, finalized>>

(* Mutant: a failed attempt is deleted, for the next run to try again. *)
MarkFailedMutant(r) ==
    /\ place[r] = "fail"
    /\ SetAttempt(r, "none")
    /\ Continue(r)
    /\ UNCHANGED <<nextBill, invoiced, finalized>>

(* mark_attempt_failed: for good, no later run tries again. *)
MarkFailed(r) ==
    /\ place[r] = "fail"
    /\ SetAttempt(r, "failed_final")
    /\ Continue(r)
    /\ UNCHANGED <<nextBill, invoiced, finalized>>

AdvanceNextBill(r) ==
    /\ place[r] = "advance"
    /\ LET d == current[r] IN
         nextBill' = [nextBill EXCEPT ![d.of] = NextDate(d.of, d.date)]
    /\ Continue(r)
    /\ UNCHANGED <<attempt, invoiced, finalized>>

(* A statement fails: it is logged or counted, and the run goes on. *)
StatementFails(r) ==
    /\ place[r] \in {"record", "fail", "advance"}
    /\ Continue(r)
    /\ UNCHANGED <<nextBill, attempt, invoiced, finalized>>

(* complete_bill_run, or the process ends with the run anywhere. *)
Over(r) ==
    /\ place[r] # "new"
    /\ place' = [place EXCEPT ![r] = "over"]
    /\ todo' = [todo EXCEPT ![r] = {}]
    /\ current' = [current EXCEPT ![r] = NoOne]
    /\ UNCHANGED <<nextBill, attempt, invoiced, finalized>>

-----------------------------------------------------------------------------
Next ==
    \E r \in Runs :
        \/ \E date \in Dates : Start(r, date)
        \/ \E d \in todo[r] : Gate(r, d) \/ Skip(r, d)
        \/ \E done, answered \in BOOLEAN :
             CreateInvoice(r, done, answered) \/ FinalizeInvoice(r, done, answered)
        \/ MarkSucceeded(r) \/ MarkFailed(r) \/ AdvanceNextBill(r)
        \/ StatementFails(r) \/ Over(r)

Spec == Init /\ [][Next]_vars

-----------------------------------------------------------------------------
(* Properties.                                                             *)

(* At most one invoice per subscription and month, whichever runs overlap, *)
(* whatever accounts receivable answers or leaves unanswered, and wherever *)
(* a run ends (cycle_gating.rs, "Exactly-once").                           *)
InvoicedOncePerCycle ==
    \A s \in Subscriptions, m \in Months :
        SumFunctionOnSet(invoiced[s], {d \in Dates : CycleKey(d) = m}) <= 1

(* A subscription's date moves on only past dates it was billed for: no    *)
(* run, however it fails or overlaps with another one, skips a period.     *)
(* (It may stop instead: after a failed attempt, or a crash, the gate is   *)
(* shut for the month and the date never moves again.)                     *)
NoPeriodSkipped ==
    \A s \in Subscriptions, d \in Dates :
        d < nextBill[s] /\ (s \in Monthly => d % WeeksPerMonth = 0) =>
            invoiced[s][d] = 1 /\ d \in finalized[s]
=============================================================================
