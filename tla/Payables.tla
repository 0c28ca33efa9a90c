------------------------------ MODULE Payables ------------------------------
(***************************************************************************)
(* Accounts payable (modules/ap): vendor bills, payments applied to them   *)
(* by hand, and payment runs, which pick the open bills at one time and    *)
(* pay what is left of them at another.                                    *)
(*                                                                         *)
(* The operations on a bill lock its row FOR UPDATE.  A run locks only     *)
(* itself: it reads what is open without a lock, and its inserts take no   *)
(* more of the bill than the key share of their foreign key.  A            *)
(* transaction's writes are kept with its worker until it commits.         *)
(*                                                                         *)
(* One tenant and currency, and no bill over nothing.  The disbursement    *)
(* call only derives an id.  Outbox rows, lines, tax and payment terms are *)
(* left out; so is the match policy, which may refuse an approval.         *)
(***************************************************************************)
EXTENDS Integers, FiniteSetsExt, Functions

CONSTANTS
    Bills,      \* numbered in the order in which a run pays them
    VendorOf,   \* the vendor of each bill
    Total,      \* vendor_bills.total_minor of each bill
    Runs,       \* ids of payment runs
    Requests,   \* allocation_ids of callers
    Workers     \* transactions open at a time

VARIABLES
    status,     \* vendor_bills.status
    allocated,  \* the rows of ap_allocations
    run,        \* payment_runs.status, "none" without a row
    items,      \* bill_ids of each run's payment_run_items
    place,      \* each worker's place
    task,       \* the allocation it is to make, or is making
    left,       \* the bills it has not come to
    added,      \* the allocations it has inserted
    paid        \* the bills it has set to paid

vars ==
    <<status, allocated, run, items, place, task, left, added, paid>>

Payable == {"approved", "partially_paid"}
Statuses == Payable \cup {"open", "matched", "paid", "voided"}

Amounts == UNION {1 .. Total[b] : b \in Bills}

Allocation == [by : Runs \cup Requests, bill : Bills, amount : Amounts]
Task ==
    [by : Runs \cup Requests, bill : Bills \cup {0}, amount : Amounts \cup {0}]
NoTask == [by |-> "none", bill |-> 0, amount |-> 0]

Places == {"idle", "lock", "apply", "create", "pay", "insert", "mark"}

TypeOK ==
    /\ status \in [Bills -> Statuses]
    /\ allocated \in SUBSET Allocation
    /\ run \in [Runs -> {"none", "pending", "completed"}]
    /\ items \in [Runs -> SUBSET Bills]
    /\ place \in [Workers -> Places]
    /\ task \in [Workers -> Task \cup {NoTask}]
    /\ left \in [Workers -> SUBSET Bills]
    /\ added \in [Workers -> SUBSET Allocation]
    /\ paid \in [Workers -> SUBSET Bills]

Init ==
    /\ status = [b \in Bills |-> "open"]
    /\ allocated = {}
    /\ run = [r \in Runs |-> "none"]
    /\ items = [r \in Runs |-> {}]
    /\ place = [w \in Workers |-> "idle"]
    /\ task = [w \in Workers |-> NoTask]
    /\ left = [w \in Workers |-> {}]
    /\ added = [w \in Workers |-> {}]
    /\ paid = [w \in Workers |-> {}]

Sum(rows) == SumFunctionOnSet([a \in rows |-> a.amount], rows)

(* What the rows leave of the bill. *)
OpenIn(rows, b) == Total[b] - Sum({a \in rows : a.bill = b})
Open(b) == OpenIn(allocated, b)

Goto(w, p) == place' = [place EXCEPT ![w] = p]

(* The transaction is over. *)
Finish(w) ==
    /\ Goto(w, "idle")
    /\ task' = [task EXCEPT ![w] = NoTask]
    /\ left' = [left EXCEPT ![w] = {}]
    /\ added' = [added EXCEPT ![w] = {}]
    /\ paid' = [paid EXCEPT ![w] = {}]

-----------------------------------------------------------------------------
(* Row locks of vendor_bills.                                              *)

(* FOR UPDATE, which an allocation holds to its end. *)
HeldForUpdate(b) == \E w \in Workers : place[w] = "apply" /\ task[w].bill = b

(* The key share of an allocation's foreign key. *)
Shared(b) == \E w \in Workers : \E a \in added[w] : a.bill = b

(* Mutant: the bill is read without FOR UPDATE. *)
FreeMutant(b) == TRUE

(* FOR UPDATE is granted. *)
Free(b) == ~HeldForUpdate(b) /\ ~Shared(b)

-----------------------------------------------------------------------------
(* Bills: run_match, approve_bill, void_bill                               *)

SetStatus(b, from, to) ==
    /\ Free(b)
    /\ status[b] \in from
    /\ status' = [status EXCEPT ![b] = to]
    /\ UNCHANGED <<allocated, run, items, place, task, left, added, paid>>

Match(b) == SetStatus(b, {"open"}, "matched")
Approve(b) == SetStatus(b, {"open", "matched"}, "approved")
Void(b) == SetStatus(b, {"open", "matched"} \cup Payable, "voided")

-----------------------------------------------------------------------------
(* apply_allocation                                                        *)

(* A repeated allocation_id is answered with the row that is there. *)
Ask(w, q, b, n) ==
    /\ place[w] = "idle"
    /\ ~\E a \in allocated : a.by = q
    /\ task' = [task EXCEPT ![w] = [by |-> q, bill |-> b, amount |-> n]]
    /\ Goto(w, "lock")
    /\ UNCHANGED <<status, allocated, run, items, left, added, paid>>

LockBill(w) ==
    /\ place[w] = "lock" /\ Free(task[w].bill)
    /\ IF /\ status[task[w].bill] \in Payable
          /\ task[w].amount <= Open(task[w].bill)
       THEN Goto(w, "apply") /\ UNCHANGED <<task, left, added, paid>>
       ELSE Finish(w)
    /\ UNCHANGED <<status, allocated, run, items>>

(* Insert, status and commit; the unique allocation_id may stop it. *)
Apply(w) ==
    /\ place[w] = "apply"
    /\ LET rows == allocated \cup {task[w]}
           b == task[w].bill IN
         IF \E a \in allocated : a.by = task[w].by
         THEN UNCHANGED <<status, allocated>>
         ELSE /\ allocated' = rows
              /\ status' = [status EXCEPT ![b] =
                    IF OpenIn(rows, b) <= 0 THEN "paid" ELSE "partially_paid"]
    /\ Finish(w)
    /\ UNCHANGED <<run, items>>

-----------------------------------------------------------------------------
(* create_payment_run                                                      *)

Eligible == {b \in Bills : status[b] \in Payable /\ Open(b) > 0}

(* The filters of the request leave some of the eligible bills. *)
SelectBills(w, r, bills) ==
    /\ place[w] = "idle" /\ run[r] = "none"
    /\ bills \subseteq Eligible /\ bills # {}
    /\ task' = [task EXCEPT ![w] = [by |-> r, bill |-> 0, amount |-> 0]]
    /\ left' = [left EXCEPT ![w] = bills]
    /\ Goto(w, "create")
    /\ UNCHANGED <<status, allocated, run, items, added, paid>>

(* The header and its items, unless the run_id is taken. *)
InsertRun(w) ==
    /\ place[w] = "create"
    /\ LET r == task[w].by IN
         IF run[r] = "none"
         THEN /\ run' = [run EXCEPT ![r] = "pending"]
              /\ items' = [items EXCEPT ![r] = left[w]]
         ELSE UNCHANGED <<run, items>>
    /\ Finish(w)
    /\ UNCHANGED <<status, allocated>>

-----------------------------------------------------------------------------
(* execute_payment_run: one transaction                                    *)

Executing(w) == place[w] \in {"pay", "insert", "mark"}

(* The run's row is locked; a completed run is only returned. *)
LockRun(w, r) ==
    /\ place[w] = "idle" /\ run[r] = "pending"
    /\ ~\E v \in Workers : Executing(v) /\ task[v].by = r
    /\ task' = [task EXCEPT ![w] = [by |-> r, bill |-> 0, amount |-> 0]]
    /\ left' = [left EXCEPT ![w] = items[r]]
    /\ Goto(w, "pay")
    /\ UNCHANGED <<status, allocated, run, items, added, paid>>

(* query_open_balance of the next bill, which is passed over if paid. *)
ReadBalance(w) ==
    /\ place[w] = "pay" /\ left[w] # {}
    /\ LET b == Min(left[w])
           n == OpenIn(allocated \cup added[w], b) IN
         /\ left' = [left EXCEPT ![w] = @ \ {b}]
         /\ IF n <= 0
            THEN UNCHANGED <<place, task>>
            ELSE /\ Goto(w, "insert")
                 /\ task' = [task EXCEPT ![w].bill = b, ![w].amount = n]
    /\ UNCHANGED <<status, allocated, run, items, added, paid>>

InsertAllocation(w) ==
    /\ place[w] = "insert" /\ ~HeldForUpdate(task[w].bill)
    /\ added' = [added EXCEPT ![w] = @ \cup {task[w]}]
    /\ Goto(w, "mark")
    /\ UNCHANGED <<status, allocated, run, items, task, left, paid>>

(* An update in progress is waited for, then the status looked at again. *)
MarkBillPaid(w) ==
    /\ place[w] = "mark"
    /\ LET b == task[w].bill IN
         IF status[b] \in Payable
         THEN /\ \A v \in Workers : b \notin paid[v]
              /\ paid' = [paid EXCEPT ![w] = @ \cup {b}]
         ELSE UNCHANGED paid
    /\ Goto(w, "pay")
    /\ UNCHANGED <<status, allocated, run, items, task, left, added>>

(* Every vendor's item is recorded with an amount, which must be positive. *)
CompleteRun(w) ==
    /\ place[w] = "pay" /\ left[w] = {}
    /\ \A b \in items[task[w].by] :
          \E a \in added[w] : VendorOf[a.bill] = VendorOf[b]
    /\ allocated' = allocated \cup added[w]
    /\ status' = [b \in Bills |-> IF b \in paid[w] THEN "paid" ELSE status[b]]
    /\ run' = [run EXCEPT ![task[w].by] = "completed"]
    /\ Finish(w)
    /\ UNCHANGED items

(* A statement fails or the process ends: the transaction is rolled back. *)
Abort(w) ==
    /\ place[w] # "idle"
    /\ Finish(w)
    /\ UNCHANGED <<status, allocated, run, items>>

-----------------------------------------------------------------------------
WorkerStep(w) ==
    \/ LockBill(w) \/ Apply(w)
    \/ InsertRun(w)
    \/ ReadBalance(w) \/ InsertAllocation(w) \/ MarkBillPaid(w)
    \/ CompleteRun(w)
    \/ Abort(w)

Next ==
    \/ \E b \in Bills : Match(b) \/ Approve(b) \/ Void(b)
    \/ \E w \in Workers :
          \/ \E q \in Requests, b \in Bills, n \in Amounts : Ask(w, q, b, n)
          \/ \E r \in Runs, bills \in SUBSET Bills : SelectBills(w, r, bills)
          \/ \E r \in Runs : LockRun(w, r)
          \/ WorkerStep(w)

Spec == Init /\ [][Next]_vars

-----------------------------------------------------------------------------
(* Properties                                                              *)

(* A bill is paid exactly when its allocations cover it, and partially     *)
(* paid exactly when there are some; before approval there are none.       *)
StatusFollows(b) ==
    /\ status[b] = "paid" <=> status[b] # "voided" /\ Open(b) <= 0
    /\ status[b] = "partially_paid" <=>
          status[b] # "voided" /\ Open(b) \in 1 .. Total[b] - 1

(* A completed run leaves nothing of its bills open. *)
NothingLeft(r) == run[r] = "completed" => \A b \in items[r] : Open(b) <= 0

(* What is applied by hand never exceeds the bill: only runs that meet     *)
(* each other, or an allocation, pay a bill beyond its total.              *)
ByHandWithin(b) == OpenIn({a \in allocated : a.by \in Requests}, b) >= 0

(* The bills' statuses, their allocations and the runs that paid them      *)
(* agree, in whatever order allocations, runs and voids meet.              *)
PaymentsAgree ==
    /\ \A b \in Bills : StatusFollows(b) /\ ByHandWithin(b)
    /\ \A r \in Runs : NothingLeft(r)
=============================================================================
