--------------------------- MODULE GeneralLedger ---------------------------
(***************************************************************************)
(* The general ledger of one tenant (modules/gl): journal entries, the     *)
(* balances rolled up from them, and the life of accounting periods.       *)
(*                                                                         *)
(* Posting and reversal requests arrive from consumers and HTTP handlers,  *)
(* each served in one READ COMMITTED transaction; a period is closed in    *)
(* one transaction that revalues foreign balances and seals what it sees;  *)
(* a closed period is reopened by an approved request.  Accruals, their    *)
(* reversals and revenue recognition write entries on a path of their own. *)
(*                                                                         *)
(* Row locks are PostgreSQL's: an upsert locks its balance row, FOR UPDATE *)
(* locks a period row, and inserting a balance row takes a key share of    *)
(* its period (a foreign key), which FOR UPDATE excludes.  Amounts do not  *)
(* matter here: a balance is the number of times it counts each entry, and *)
(* a close hash is what it was computed from: the entries one statement    *)
(* read and the balance rows a later one counted.                          *)
(***************************************************************************)
EXTENDS Integers, FiniteSets

CONSTANTS
    Postings,    \* source event ids of posting requests
    Reversals,   \* event ids of reversal requests
    Direct,      \* source ids of accruals, accrual reversals, recognitions
    Periods,     \* accounting periods, also the ids of their revaluations
    Accounts,    \* account codes, in the order the code sorts them
    Workers,     \* transactions that can be open at once
    Requests,    \* bound: reopen requests
    PeriodOf,    \* period of the date an entry is posted at
    AccountsOf,  \* accounts on the lines of an entry
    Target,      \* the entry a reversal request names
    None

Events == Postings \cup Reversals \cup Direct \cup Periods
Rows == Periods \X Accounts

ASSUME LedgerAssumption ==
    /\ Accounts \subseteq Nat
    /\ PeriodOf \in [Events -> Periods]
    /\ \A p \in Periods : PeriodOf[p] = p
    /\ AccountsOf \in [Events -> SUBSET Accounts]
    /\ Target \in [Reversals -> Events]
    /\ \A r \in Reversals : AccountsOf[r] = AccountsOf[Target[r]]
    /\ Postings \cap Reversals = {}
    /\ Direct \cap (Postings \cup Reversals) = {}
    /\ Periods \cap (Postings \cup Reversals \cup Direct) = {}
    /\ None \notin Workers \cup Events
    /\ IsFiniteSet(Workers)

VARIABLES
    posted,      \* journal_entries: how many entries have a source_event_id
    processed,   \* processed_events
    balance,     \* account_balances: how often a row counts each entry
    closed,      \* accounting_periods.closed_at IS NOT NULL
    closeHash,   \* accounting_periods.close_hash: what it was computed from
    summary,     \* period_summary_snapshots: the entries its totals cover
    request,     \* period_reopen_requests
    pc,          \* where each transaction is
    event,       \* what it is about
    todo,        \* accounts whose balance it has not updated yet
    staged,      \* last version of each balance row, committed or not
    holder,      \* transaction that has an uncommitted version of it
    periodLock,  \* transaction that holds FOR UPDATE on a period
    keyShare,    \* transactions that hold a key share of their period
    seen         \* what a close has read so far

tables == <<posted, processed, balance, closed, closeHash, summary, request>>
locks == <<staged, holder, periodLock, keyShare>>
vars == <<tables, pc, event, todo, locks, seen>>

(* What a close hash is computed from. *)
Hash == [entries : SUBSET Events, rows : SUBSET Accounts]
NoHash == [entries |-> {}, rows |-> {}]

Seen == [entries : SUBSET Events, rows : (SUBSET Accounts) \cup {None}]
NothingSeen == [entries |-> {}, rows |-> None]

NoRequest == [status |-> "absent", period |-> None, prior |-> NoHash]

TypeOK ==
    /\ posted \in [Events -> Nat]
    /\ processed \subseteq Events
    /\ balance \in [Rows -> [Events -> Nat]]
    /\ closed \in [Periods -> BOOLEAN]
    /\ closeHash \in [Periods -> Hash]
    /\ summary \in [Periods -> SUBSET Events]
    /\ request \in [Requests ->
          [status : {"absent", "requested", "approved", "rejected"},
           period : Periods \cup {None}, prior : Hash]]
    /\ pc \in [Workers ->
          {"idle", "checked", "open", "upserting", "closing", "sealing",
           "revalued"}]
    /\ event \in [Workers -> Events \cup {None}]
    /\ todo \in [Workers -> SUBSET Accounts]
    /\ staged \in [Rows -> [Events -> Nat]]
    /\ holder \in [Rows -> Workers \cup {None}]
    /\ periodLock \in [Periods -> Workers \cup {None}]
    /\ keyShare \subseteq Workers
    /\ seen \in [Workers -> Seen]

EmptyRow == [e \in Events |-> 0]

Init ==
    /\ posted = [e \in Events |-> 0]
    /\ processed = {}
    /\ balance = [r \in Rows |-> EmptyRow]
    /\ closed = [p \in Periods |-> FALSE]
    /\ closeHash = [p \in Periods |-> NoHash]
    /\ summary = [p \in Periods |-> {}]
    /\ request = [r \in Requests |-> NoRequest]
    /\ pc = [w \in Workers |-> "idle"]
    /\ event = [w \in Workers |-> None]
    /\ todo = [w \in Workers |-> {}]
    /\ staged = balance
    /\ holder = [r \in Rows |-> None]
    /\ periodLock = [p \in Periods |-> None]
    /\ keyShare = {}
    /\ seen = [w \in Workers |-> NothingSeen]

-----------------------------------------------------------------------------
(* Transactions.                                                           *)

(* A transaction's end lets its locks go. *)
Release(w) ==
    /\ pc' = [pc EXCEPT ![w] = "idle"]
    /\ event' = [event EXCEPT ![w] = None]
    /\ todo' = [todo EXCEPT ![w] = {}]
    /\ holder' = [r \in Rows |-> IF holder[r] = w THEN None ELSE holder[r]]
    /\ periodLock' =
          [p \in Periods |-> IF periodLock[p] = w THEN None ELSE periodLock[p]]
    /\ keyShare' = keyShare \ {w}
    /\ seen' = [seen EXCEPT ![w] = NothingSeen]

(* Its versions of balance rows become the committed ones. *)
Install(w) ==
    /\ balance' = [r \in Rows |-> IF holder[r] = w THEN staged[r] ELSE balance[r]]
    /\ UNCHANGED staged

(* An error anywhere, a refused validation, a crash, or the choice of the  *)
(* database to end a deadlock: nothing of the transaction remains.         *)
Abort(w) ==
    /\ pc[w] # "idle"
    /\ staged' = [r \in Rows |-> IF holder[r] = w THEN balance[r] ELSE staged[r]]
    /\ Release(w)
    /\ UNCHANGED tables

(* FOR UPDATE waits for whoever holds the period row in a mode it excludes. *)
PeriodFree(p) ==
    /\ periodLock[p] = None
    /\ \A v \in keyShare : PeriodOf[event[v]] # p

-----------------------------------------------------------------------------
(* Posting and reversal requests.                                          *)

(* The checks made before a transaction begins.  A request may come again  *)
(* at any time: a redelivery, another replica, a second HTTP call.  A      *)
(* reversal must find an entry that is no reversal, in an open period.     *)
Begin(w, e) ==
    /\ pc[w] = "idle"
    /\ e \in Postings \cup Reversals
    /\ e \notin processed
    /\ e \in Reversals =>
          /\ posted[Target[e]] > 0
          /\ Target[e] \notin Reversals
          /\ ~closed[PeriodOf[Target[e]]]
    /\ pc' = [pc EXCEPT ![w] = "checked"]
    /\ event' = [event EXCEPT ![w] = e]
    /\ UNCHANGED <<tables, todo, locks, seen>>

(* The transaction reads the period of the entry it will write, without    *)
(* locking it; a closed one ends the request.  PeriodOf fixes the period a *)
(* reversal falls into: the code asks the clock for its date here and once *)
(* more for its posting time, and the model takes both to fall into one.   *)
FindPeriod(w) ==
    /\ pc[w] = "checked"
    /\ ~closed[PeriodOf[event[w]]]
    /\ pc' = [pc EXCEPT ![w] = "open"]
    /\ UNCHANGED <<tables, event, todo, locks, seen>>

PeriodClosed(w) ==
    /\ pc[w] = "checked"
    /\ closed[PeriodOf[event[w]]]
    /\ Release(w)
    /\ UNCHANGED <<tables, staged>>

(* The unique index on source_event_id makes an INSERT wait for another    *)
(* transaction that wrote the same event, and refuse a committed one.      *)
SameEventMutant(v, w) ==   \* no unique index
    FALSE

SameEvent(v, w) ==
    v # w /\ pc[v] = "open" /\ pc[w] = "upserting" /\ event[v] = event[w]

InsertEntry(w) ==
    /\ pc[w] = "open"
    /\ \A v \in Workers : ~SameEvent(w, v)
    /\ posted[event[w]] = 0
    /\ pc' = [pc EXCEPT ![w] = "upserting"]
    /\ todo' = [todo EXCEPT ![w] = AccountsOf[event[w]]]
    /\ UNCHANGED <<tables, event, locks, seen>>

DuplicateEntry(w) ==
    /\ pc[w] = "open"
    /\ posted[event[w]] > 0
    /\ Release(w)
    /\ UNCHANGED <<tables, staged>>

(* compute_deltas sorts by account; a revaluation alternates between the   *)
(* accounts it revalues and the gain and loss account.                     *)
NextRowsMutant(w) ==   \* the deltas are not sorted
    todo[w]

NextRows(w) ==
    IF event[w] \in Periods
    THEN todo[w]
    ELSE {a \in todo[w] : \A b \in todo[w] : a <= b}

Row(w, a) == <<PeriodOf[event[w]], a>>

NewRow(r) == \A e \in Events : balance[r][e] = 0

UpsertUnlockedMutant(w, a) ==   \* no foreign key to the period
    /\ pc[w] = "upserting"
    /\ a \in NextRows(w)
    /\ holder[Row(w, a)] = None
    /\ staged' = [staged EXCEPT ![Row(w, a)] =
                     [balance[Row(w, a)] EXCEPT ![event[w]] = @ + 1]]
    /\ holder' = [holder EXCEPT ![Row(w, a)] = w]
    /\ todo' = [todo EXCEPT ![w] = @ \ {a}]
    /\ UNCHANGED <<tables, pc, event, periodLock, keyShare, seen>>

(* The upsert waits for another transaction's version of the row, then     *)
(* adds to the committed one.  A new row needs its key share as well.      *)
UpsertBalanceMutant(w, a) ==   \* read, add and write back without a lock
    /\ pc[w] = "upserting"
    /\ a \in NextRows(w)
    /\ staged' = [staged EXCEPT ![Row(w, a)] =
                     [balance[Row(w, a)] EXCEPT ![event[w]] = @ + 1]]
    /\ holder' = [holder EXCEPT ![Row(w, a)] = w]
    /\ todo' = [todo EXCEPT ![w] = @ \ {a}]
    /\ UNCHANGED <<tables, pc, event, periodLock, keyShare, seen>>

UpsertBalance(w, a) ==
    /\ pc[w] = "upserting"
    /\ a \in NextRows(w)
    /\ holder[Row(w, a)] = None
    /\ NewRow(Row(w, a)) => periodLock[PeriodOf[event[w]]] \in {None, w}
    /\ staged' = [staged EXCEPT ![Row(w, a)] =
                     [balance[Row(w, a)] EXCEPT ![event[w]] = @ + 1]]
    /\ holder' = [holder EXCEPT ![Row(w, a)] = w]
    /\ keyShare' = IF NewRow(Row(w, a)) THEN keyShare \cup {w} ELSE keyShare
    /\ todo' = [todo EXCEPT ![w] = @ \ {a}]
    /\ UNCHANGED <<tables, pc, event, periodLock, seen>>

(* Mark the event processed and commit.                                    *)
Commit(w) ==
    /\ pc[w] = "upserting"
    /\ todo[w] = {}
    /\ event[w] \notin Periods
    /\ posted' = [posted EXCEPT ![event[w]] = @ + 1]
    /\ processed' = processed \cup {event[w]}
    /\ Install(w)
    /\ Release(w)
    /\ UNCHANGED <<closed, closeHash, summary, request>>

(* Accruals, their reversals and recognized revenue: an entry inserted     *)
(* once, with neither a look at the period nor a balance update.           *)
PostDirect(e) ==
    /\ e \in Direct
    /\ posted[e] = 0
    /\ posted' = [posted EXCEPT ![e] = @ + 1]
    /\ UNCHANGED <<processed, balance, closed, closeHash, summary, request,
                   pc, event, todo, locks, seen>>

-----------------------------------------------------------------------------
(* Closing a period.                                                       *)

(* Lock the row first, then look whether the period is closed already.     *)
BeginCloseMutant(w, p) ==   \* not looked at again once locked
    /\ pc[w] = "idle"
    /\ PeriodFree(p)
    /\ pc' = [pc EXCEPT ![w] = "closing"]
    /\ event' = [event EXCEPT ![w] = p]
    /\ periodLock' = [periodLock EXCEPT ![p] = w]
    /\ UNCHANGED <<tables, todo, staged, holder, keyShare, seen>>

BeginClose(w, p) ==
    /\ pc[w] = "idle"
    /\ PeriodFree(p)
    /\ ~closed[p]
    /\ pc' = [pc EXCEPT ![w] = "closing"]
    /\ event' = [event EXCEPT ![w] = p]
    /\ periodLock' = [periodLock EXCEPT ![p] = w]
    /\ UNCHANGED <<tables, todo, staged, holder, keyShare, seen>>

(* Once per period, and only when there are balances to revalue.           *)
Revalue(w) ==
    /\ pc[w] = "closing"
    /\ posted[event[w]] = 0
    /\ \E a \in Accounts : ~NewRow(Row(w, a))
    /\ pc' = [pc EXCEPT ![w] = "upserting"]
    /\ todo' = [todo EXCEPT ![w] = AccountsOf[event[w]]]
    /\ UNCHANGED <<tables, event, locks, seen>>

(* The committed entries of a period. *)
EntriesOf(p) == {e \in Events : posted[e] > 0 /\ PeriodOf[e] = p}

(* A statement sees what is committed when it runs, and its own             *)
(* transaction's revaluation.  The first one reads the entries ...          *)
Snapshot(w) ==
    /\ \/ pc[w] = "closing" /\ pc' = [pc EXCEPT ![w] = "sealing"]
       \/ /\ pc[w] = "upserting" /\ event[w] \in Periods /\ todo[w] = {}
          /\ pc' = [pc EXCEPT ![w] = "revalued"]
    /\ seen' = [seen EXCEPT ![w].entries = EntriesOf(event[w])]
    /\ UNCHANGED <<tables, event, todo, locks>>

(* ... and the next one counts the balance rows. *)
CountRows(w) ==
    /\ pc[w] \in {"sealing", "revalued"}
    /\ seen[w].rows = None
    /\ seen' = [seen EXCEPT ![w].rows =
                   {a \in Accounts : \/ ~NewRow(Row(w, a))
                                     \/ holder[Row(w, a)] = w}]
    /\ UNCHANGED <<tables, pc, event, todo, locks>>

OwnEntry(w) == IF pc[w] = "revalued" THEN {event[w]} ELSE {}

(* Snapshot rows are inserted ON CONFLICT DO NOTHING. *)
CommitClose(w) ==
    LET p == event[w]
        covered == seen[w].entries \cup OwnEntry(w) IN
    /\ pc[w] \in {"sealing", "revalued"}
    /\ seen[w].rows # None
    /\ posted' = [e \in Events |-> IF e \in OwnEntry(w) THEN posted[e] + 1
                                                      ELSE posted[e]]
    /\ processed' = processed \cup OwnEntry(w)
    /\ closed' = [closed EXCEPT ![p] = TRUE]
    /\ closeHash' = [closeHash EXCEPT ![p] =
                        [entries |-> covered, rows |-> seen[w].rows]]
    /\ summary' = [summary EXCEPT ![p] = IF @ = {} THEN covered ELSE @]
    /\ Install(w)
    /\ Release(w)
    /\ UNCHANGED request

-----------------------------------------------------------------------------
(* Reopening a period.  Each handler holds the period row throughout, but  *)
(* for a rejection, which holds the request's.                             *)

Pending(p) ==
    {r \in Requests : request[r].status = "requested" /\ request[r].period = p}

RequestReopenMutant(r, p) ==   \* a pending request is not looked for
    /\ request[r].status = "absent"
    /\ PeriodFree(p)
    /\ closed[p]
    /\ request' = [request EXCEPT ![r] =
          [status |-> "requested", period |-> p, prior |-> closeHash[p]]]
    /\ UNCHANGED <<posted, processed, balance, closed, closeHash, summary,
                   pc, event, todo, locks, seen>>

RequestReopen(r, p) ==
    /\ request[r].status = "absent"
    /\ PeriodFree(p)
    /\ closed[p]
    /\ Pending(p) = {}
    /\ request' = [request EXCEPT ![r] =
          [status |-> "requested", period |-> p, prior |-> closeHash[p]]]
    /\ UNCHANGED <<posted, processed, balance, closed, closeHash, summary,
                   pc, event, todo, locks, seen>>

ApproveReopen(r) ==
    LET p == request[r].period IN
    /\ request[r].status = "requested"
    /\ PeriodFree(p)
    /\ closed[p]
    /\ request' = [request EXCEPT ![r].status = "approved"]
    /\ closed' = [closed EXCEPT ![p] = FALSE]
    /\ closeHash' = [closeHash EXCEPT ![p] = NoHash]
    /\ UNCHANGED <<posted, processed, balance, summary,
                   pc, event, todo, locks, seen>>

RejectReopen(r) ==
    /\ request[r].status = "requested"
    /\ request' = [request EXCEPT ![r].status = "rejected"]
    /\ UNCHANGED <<posted, processed, balance, closed, closeHash, summary,
                   pc, event, todo, locks, seen>>

-----------------------------------------------------------------------------
Step(w) ==
    \/ FindPeriod(w) \/ PeriodClosed(w)
    \/ InsertEntry(w) \/ DuplicateEntry(w)
    \/ \E a \in Accounts : UpsertBalance(w, a)
    \/ Commit(w)
    \/ Revalue(w) \/ Snapshot(w) \/ CountRows(w) \/ CommitClose(w)

Next ==
    \/ \E w \in Workers, e \in Postings \cup Reversals : Begin(w, e)
    \/ \E w \in Workers, p \in Periods : BeginClose(w, p)
    \/ \E w \in Workers : Step(w) \/ Abort(w)
    \/ \E e \in Direct : PostDirect(e)
    \/ \E r \in Requests, p \in Periods : RequestReopen(r, p)
    \/ \E r \in Requests : ApproveReopen(r) \/ RejectReopen(r)

Spec == Init /\ [][Next]_vars

-----------------------------------------------------------------------------
(* Properties.                                                             *)

(* An event has at most one journal entry, however often and by however    *)
(* many consumers and calls it is served at once, and a period is revalued *)
(* at most once however often it is closed.                                *)
PostedOnce == \A e \in Events : posted[e] <= 1

(* account_balances holds every entry posted through the balance updater   *)
(* exactly once in each of its rows and nowhere else: no update is lost to *)
(* a concurrent one, none is applied twice, none outlives a rollback.      *)
BalancesAgree ==
    \A r \in Rows, e \in Events \ Direct :
        balance[r][e] =
            IF PeriodOf[e] = r[1] /\ r[2] \in AccountsOf[e] THEN posted[e] ELSE 0

(* What a period's close hash covers has been posted in that period: the   *)
(* seal never counts an entry that was rolled back.                        *)
SealedEntriesExist ==
    \A p \in Periods : closed[p] => closeHash[p].entries \subseteq EntriesOf(p)

(* A pending reopen request is the only one of its period and names the    *)
(* close it would undo: none is left over from an earlier close.           *)
PendingRequestIsCurrent ==
    \A r \in Requests : request[r].status = "requested" =>
        /\ closed[request[r].period]
        /\ request[r].prior = closeHash[request[r].period]
        /\ Pending(request[r].period) = {r}

(* Who waits for whom.                                                     *)
WaitsFor(v, w) ==
    \/ SameEvent(v, w)
    \/ /\ v # w /\ pc[v] = "upserting"
       /\ \E a \in NextRows(v) :
             \/ holder[Row(v, a)] = w
             \/ NewRow(Row(v, a)) /\ periodLock[PeriodOf[event[v]]] = w

(* Postings and reversals never deadlock among themselves: whatever rows   *)
(* they share, some transaction of any group waits for none of the group.  *)
PostingsNeverDeadlock ==
    \A S \in SUBSET {w \in Workers : event[w] \in Postings \cup Reversals} :
        S # {} => \E v \in S : \A w \in S : ~WaitsFor(v, w)

(* A close is final until an approved request that names it: of two closes *)
(* at once only one takes effect, and the hash is never replaced.          *)
CloseIsFinal ==
    [][\A p \in Periods : closed[p] =>
          \/ closed'[p] /\ closeHash'[p] = closeHash[p]
          \/ /\ ~closed'[p]
             /\ \E r \in Requests :
                   /\ request[r].status = "requested" /\ request[r].period = p
                   /\ request[r].prior = closeHash[p]
                   /\ request'[r].status = "approved"]_vars

(* The balance rows a close hash counts are those its period has when the  *)
(* close commits, although postings that read the period open go on while  *)
(* the closer holds it and the count is a statement of its own: a new row  *)
(* needs a key share of the period, which waits for the closer.            *)
RowsOf(p) == {a \in Accounts : ~NewRow(<<p, a>>)}

RowsSealedAtClose ==
    [][\A p \in Periods : ~closed[p] /\ closed'[p] =>
          closeHash'[p].rows = RowsOf(p)']_vars

(* A closed period is immutable: it has exactly the entries its close hash *)
(* covers.  modules/gl/docs/GL-MODULE-SPEC.md:93 and :337 promise it; the  *)
(* code does not keep it.                                                  *)
ClosedIsSealed ==
    \A p \in Periods : closed[p] => closeHash[p].entries = EntriesOf(p)
=============================================================================
