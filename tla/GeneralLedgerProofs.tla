------------------------ MODULE GeneralLedgerProofs ------------------------
(***************************************************************************)
(* Proofs about GeneralLedger, for any events, periods, accounts, workers  *)
(* and reopen requests.                                                    *)
(*                                                                         *)
(* The argument: a balance row has at most one uncommitted version, and it *)
(* is the committed one with its holder's event added; a transaction that  *)
(* updates balances is the only one to write its event, which nobody has   *)
(* committed; and a close holds its period's lock from before it looks     *)
(* whether the period is closed until it commits.  Postings do not         *)
(* deadlock because a transaction asks for its balance rows in the order   *)
(* of the accounts: of those that wait, one waits for a row behind all     *)
(* others, and its holder does not wait.                                   *)
(***************************************************************************)
EXTENDS GeneralLedger, FiniteSetTheorems, WellFoundedInduction, TLAPS

Requested == Postings \cup Reversals

(* What each phase of a transaction is about. *)
Phases ==
    \A w \in Workers :
        /\ pc[w] = "idle" => event[w] = None
        /\ pc[w] \in {"checked", "open"} => event[w] \in Requested
        /\ pc[w] = "upserting" => event[w] \in Requested \cup Periods
        /\ pc[w] \in {"closing", "sealing", "revalued"} => event[w] \in Periods
        /\ event[w] \in Periods => periodLock[event[w]] = w /\ ~closed[event[w]]
        /\ pc[w] = "revalued" => todo[w] = {}

Writing(w) == pc[w] \in {"upserting", "revalued"}

(* A transaction that writes is the first and only one to write its event. *)
Exclusive ==
    /\ \A w \in Workers : Writing(w) => posted[event[w]] = 0
    /\ \A v, w \in Workers :
          Writing(v) /\ Writing(w) /\ event[v] = event[w] => v = w

(* An uncommitted version is the committed one and its holder's event. *)
Versions ==
    \A r \in Rows :
        /\ holder[r] = None => staged[r] = balance[r]
        /\ \A w \in Workers : holder[r] = w =>
              /\ Writing(w)
              /\ r[1] = PeriodOf[event[w]]
              /\ r[2] \in AccountsOf[event[w]] \ todo[w]
              /\ staged[r] = [balance[r] EXCEPT ![event[w]] = @ + 1]

(* A transaction holds the rows it has updated. *)
Updated ==
    \A w \in Workers : Writing(w) =>
        /\ todo[w] \subseteq AccountsOf[event[w]]
        /\ \A a \in AccountsOf[event[w]] \ todo[w] : holder[Row(w, a)] = w

(* What a close has counted was committed in its period. *)
SeenExists ==
    \A w \in Workers : pc[w] \in {"sealing", "revalued"} =>
        seen[w].entries \subseteq EntriesOf(event[w])

Balances == Exclusive /\ Versions /\ Updated /\ PostedOnce /\ BalancesAgree

(* A reopen request names a period. *)
Named ==
    \A r \in Requests :
        request[r].status # "absent" => request[r].period \in Periods

Sealing ==
    /\ Phases
    /\ Named
    /\ SeenExists
    /\ SealedEntriesExist
    /\ PendingRequestIsCurrent

Inv == TypeOK /\ Balances /\ Sealing

-----------------------------------------------------------------------------
(* Type correctness.                                                       *)

LEMMA EventFacts ==
    /\ Requested \subseteq Events /\ Periods \subseteq Events
    /\ Requested \cap Periods = {} /\ Requested \cap Direct = {}
    /\ Periods \cap Direct = {}
    /\ None \notin Events /\ None \notin Workers
    /\ \A e \in Events : PeriodOf[e] \in Periods /\ AccountsOf[e] \subseteq Accounts
    /\ \A p \in Periods : PeriodOf[p] = p
  BY LedgerAssumption DEF Requested, Events, LedgerAssumption

LEMMA ReleaseType ==
    ASSUME TypeOK, NEW w \in Workers, Release(w)
    PROVE  /\ pc' \in [Workers -> {"idle", "checked", "open", "upserting",
                                   "closing", "sealing", "revalued"}]
           /\ event' \in [Workers -> Events \cup {None}]
           /\ todo' \in [Workers -> SUBSET Accounts]
           /\ holder' \in [Rows -> Workers \cup {None}]
           /\ periodLock' \in [Periods -> Workers \cup {None}]
           /\ keyShare' \subseteq Workers
           /\ seen' \in [Workers -> Seen]
  <1>1. pc' \in [Workers -> {"idle", "checked", "open", "upserting",
                             "closing", "sealing", "revalued"}]
    BY DEF TypeOK, Release
  <1>2. event' \in [Workers -> Events \cup {None}]
    BY DEF TypeOK, Release
  <1>3. todo' \in [Workers -> SUBSET Accounts] /\ seen' \in [Workers -> Seen]
    BY DEF TypeOK, Release, Seen, NothingSeen
  <1>4. holder' \in [Rows -> Workers \cup {None}]
    BY DEF TypeOK, Release
  <1>5. periodLock' \in [Periods -> Workers \cup {None}] /\ keyShare' \subseteq Workers
    BY DEF TypeOK, Release
  <1> QED BY <1>1, <1>2, <1>3, <1>4, <1>5

ReopenRequest == [status : {"absent", "requested", "approved", "rejected"},
                  period : Periods \cup {None}, prior : Hash]

LEMMA RequestType ==
    ASSUME TypeOK, NEW r \in Requests,
           NEW s \in {"approved", "rejected"},
           request' = [request EXCEPT ![r].status = s]
    PROVE  request' \in [Requests -> ReopenRequest]
  <1>1. request[r] \in ReopenRequest
    BY DEF TypeOK, ReopenRequest
  <1>2. [request[r] EXCEPT !.status = s] \in ReopenRequest
    BY <1>1 DEF ReopenRequest
  <1>3. request \in [Requests -> ReopenRequest]
    BY DEF TypeOK, ReopenRequest
  <1> QED BY <1>2, <1>3

LEMMA TypeInit == Init => TypeOK
  BY DEF Init, TypeOK, EmptyRow, NoRequest, NoHash, Hash, NothingSeen, Seen

LEMMA TypeStep ==
    ASSUME TypeOK, Phases, [Next]_vars
    PROVE  TypeOK'
  <1> USE EventFacts
  <1>1. ASSUME NEW w \in Workers, NEW e \in Postings \cup Reversals, Begin(w, e)
        PROVE  TypeOK'
    BY <1>1 DEF Begin, TypeOK, tables, locks, Requested
  <1>2. ASSUME NEW w \in Workers, NEW p \in Periods, BeginClose(w, p)
        PROVE  TypeOK'
    BY <1>2 DEF BeginClose, TypeOK, tables
  <1>3. ASSUME NEW w \in Workers, FindPeriod(w)
        PROVE  TypeOK'
    BY <1>3 DEF FindPeriod, TypeOK, tables, locks
  <1>4. ASSUME NEW w \in Workers, PeriodClosed(w) \/ DuplicateEntry(w)
        PROVE  TypeOK'
    <2>1. Release(w) /\ UNCHANGED <<tables, staged>>
      BY <1>4 DEF PeriodClosed, DuplicateEntry
    <2> QED BY <2>1, ReleaseType DEF TypeOK, tables
  <1>5. ASSUME NEW w \in Workers, InsertEntry(w)
        PROVE  TypeOK'
    <2>1. event[w] \in Events
      BY <1>5 DEF InsertEntry, TypeOK, Phases, Requested
    <2>2. todo' \in [Workers -> SUBSET Accounts]
      BY <1>5, <2>1 DEF InsertEntry, TypeOK
    <2> QED BY <1>5, <2>2 DEF InsertEntry, TypeOK, tables, locks
  <1>6. ASSUME NEW w \in Workers, NEW a \in Accounts, UpsertBalance(w, a)
        PROVE  TypeOK'
    <2>1. event[w] \in Events
      BY <1>6 DEF UpsertBalance, TypeOK, Phases, Requested
    <2>2. Row(w, a) \in Rows
      BY <2>1 DEF Row, Rows
    <2>3. balance[Row(w, a)] \in [Events -> Nat]
      BY <2>2 DEF TypeOK
    <2>4. [balance[Row(w, a)] EXCEPT ![event[w]] = @ + 1] \in [Events -> Nat]
      BY <2>1, <2>3
    <2>5. staged' \in [Rows -> [Events -> Nat]]
      BY <1>6, <2>4 DEF UpsertBalance, TypeOK
    <2>6. holder' \in [Rows -> Workers \cup {None}] /\ keyShare' \subseteq Workers
      BY <1>6 DEF UpsertBalance, TypeOK
    <2>7. todo' \in [Workers -> SUBSET Accounts]
      BY <1>6 DEF UpsertBalance, TypeOK
    <2> QED BY <1>6, <2>5, <2>6, <2>7 DEF UpsertBalance, TypeOK, tables
  <1>7. ASSUME NEW w \in Workers, Commit(w)
        PROVE  TypeOK'
    <2>1. event[w] \in Events
      BY <1>7 DEF Commit, TypeOK, Phases, Requested
    <2>2. balance' \in [Rows -> [Events -> Nat]] /\ staged' = staged
      BY <1>7 DEF Commit, Install, TypeOK
    <2>3. posted' \in [Events -> Nat] /\ processed' \subseteq Events
      BY <1>7, <2>1 DEF Commit, TypeOK
    <2>4. Release(w)
      BY <1>7 DEF Commit
    <2> QED BY <1>7, <2>2, <2>3, <2>4, ReleaseType DEF Commit, TypeOK
  <1>8. ASSUME NEW w \in Workers, Revalue(w)
        PROVE  TypeOK'
    <2>1. event[w] \in Events
      BY <1>8 DEF Revalue, TypeOK, Phases
    <2>2. todo' \in [Workers -> SUBSET Accounts]
      BY <1>8, <2>1 DEF Revalue, TypeOK
    <2> QED BY <1>8, <2>2 DEF Revalue, TypeOK, tables, locks
  <1>9. ASSUME NEW w \in Workers, Snapshot(w)
        PROVE  TypeOK'
    <2>1. EntriesOf(event[w]) \subseteq Events
      BY DEF EntriesOf
    <2>2. [seen[w] EXCEPT !.entries = EntriesOf(event[w])] \in Seen
      BY <2>1 DEF TypeOK, Seen
    <2>3. seen' \in [Workers -> Seen]
      BY <1>9, <2>2 DEF Snapshot, TypeOK
    <2> QED BY <1>9, <2>3 DEF Snapshot, TypeOK, tables, locks
  <1>17. ASSUME NEW w \in Workers, CountRows(w)
         PROVE  TypeOK'
    <2> DEFINE rows == {a \in Accounts : \/ ~NewRow(Row(w, a))
                                         \/ holder[Row(w, a)] = w}
    <2>1. rows \in (SUBSET Accounts) \cup {None}
      OBVIOUS
    <2>2. [seen[w] EXCEPT !.rows = rows] \in Seen
      <3>1. seen[w] \in Seen
        BY DEF TypeOK
      <3> HIDE DEF rows
      <3> QED BY <2>1, <3>1 DEF Seen
    <2>3. seen' \in [Workers -> Seen]
      BY <1>17, <2>2 DEF CountRows, TypeOK
    <2> QED BY <1>17, <2>3 DEF CountRows, TypeOK, tables, locks
  <1>10. ASSUME NEW w \in Workers, CommitClose(w)
         PROVE  TypeOK'
    <2>1. event[w] \in Periods
      BY <1>10 DEF CommitClose, TypeOK, Phases
    <2> DEFINE covered == seen[w].entries \cup OwnEntry(w)
    <2>2. OwnEntry(w) \subseteq Events /\ covered \subseteq Events
      BY <2>1 DEF OwnEntry, TypeOK, Seen
    <2>8. [entries |-> covered, rows |-> seen[w].rows] \in Hash
      BY <1>10, <2>2 DEF CommitClose, TypeOK, Seen, Hash
    <2>3. balance' \in [Rows -> [Events -> Nat]] /\ staged' = staged
      BY <1>10 DEF CommitClose, Install, TypeOK
    <2>4. posted' \in [Events -> Nat] /\ processed' \subseteq Events
      BY <1>10, <2>2 DEF CommitClose, TypeOK
    <2>5. closed' \in [Periods -> BOOLEAN] /\ closeHash' \in [Periods -> Hash]
      BY <1>10, <2>8 DEF CommitClose, TypeOK
    <2>6. summary' \in [Periods -> SUBSET Events]
      BY <1>10, <2>1, <2>2 DEF CommitClose, TypeOK
    <2>7. Release(w) /\ request' = request
      BY <1>10 DEF CommitClose
    <2> QED BY <2>3, <2>4, <2>5, <2>6, <2>7, ReleaseType DEF TypeOK
  <1>11. ASSUME NEW w \in Workers, Abort(w)
         PROVE  TypeOK'
    <2>1. staged' \in [Rows -> [Events -> Nat]]
      BY <1>11 DEF Abort, TypeOK
    <2>2. Release(w) /\ UNCHANGED tables
      BY <1>11 DEF Abort
    <2> QED BY <2>1, <2>2, ReleaseType DEF TypeOK, tables
  <1>12. ASSUME NEW e \in Direct, PostDirect(e)
         PROVE  TypeOK'
    <2>1. e \in Events /\ posted[e] \in Nat
      BY DEF TypeOK, Events
    <2>2. posted' \in [Events -> Nat]
      BY <1>12, <2>1 DEF PostDirect, TypeOK
    <2> QED BY <1>12, <2>2 DEF PostDirect, TypeOK, locks
  <1>13. ASSUME NEW r \in Requests, NEW p \in Periods, RequestReopen(r, p)
         PROVE  TypeOK'
    <2>1. closeHash[p] \in Hash
      BY DEF TypeOK
    <2>2. [status |-> "requested", period |-> p, prior |-> closeHash[p]]
              \in ReopenRequest
      BY <2>1 DEF ReopenRequest
    <2>3. request \in [Requests -> ReopenRequest]
      BY DEF TypeOK, ReopenRequest
    <2>4. request' \in [Requests -> ReopenRequest]
      BY <1>13, <2>2, <2>3 DEF RequestReopen
    <2>5. UNCHANGED <<posted, processed, balance, closed, closeHash, summary,
                      pc, event, todo, locks, seen>>
      BY <1>13 DEF RequestReopen
    <2> QED BY <2>4, <2>5 DEF TypeOK, locks, ReopenRequest
  <1>14. ASSUME NEW r \in Requests, ApproveReopen(r)
         PROVE  TypeOK'
    <2>1. request' \in [Requests -> ReopenRequest]
      BY <1>14, RequestType DEF ApproveReopen
    <2>2. /\ closed' \in [Periods -> BOOLEAN]
          /\ closeHash' \in [Periods -> Hash]
      BY <1>14 DEF ApproveReopen, TypeOK, NoHash, Hash
    <2>3. UNCHANGED <<posted, processed, balance, summary, pc, event, todo,
                      locks, seen>>
      BY <1>14 DEF ApproveReopen
    <2> QED BY <2>1, <2>2, <2>3 DEF TypeOK, locks, ReopenRequest
  <1>15. ASSUME NEW r \in Requests, RejectReopen(r)
         PROVE  TypeOK'
    <2>1. request' \in [Requests -> ReopenRequest]
      BY <1>15, RequestType DEF RejectReopen
    <2> QED BY <1>15, <2>1 DEF RejectReopen, TypeOK, locks, ReopenRequest
  <1>16. CASE UNCHANGED vars
    BY <1>16 DEF vars, tables, locks, TypeOK
  <1> QED BY <1>1, <1>2, <1>3, <1>4, <1>5, <1>6, <1>7, <1>8, <1>9, <1>10, <1>11,
             <1>12, <1>13, <1>14, <1>15, <1>16, <1>17 DEF Next, Step

-----------------------------------------------------------------------------
(* Balances.                                                               *)

LEMMA BalancesInit == Init => Balances
  <1> SUFFICES ASSUME Init PROVE Balances
    OBVIOUS
  <1> USE EventFacts
  <1>1. Exclusive
    BY DEF Init, Exclusive, Writing
  <1>2. Versions /\ Updated
    BY DEF Init, Versions, Updated, Writing
  <1>3. PostedOnce
    BY DEF Init, PostedOnce
  <1>4. BalancesAgree
    BY DEF Init, BalancesAgree, EmptyRow
  <1> QED BY <1>1, <1>2, <1>3, <1>4 DEF Balances

(* Letting go of the locks, with the uncommitted versions put back. *)
LEMMA RollbackKeepsBalances ==
    ASSUME TypeOK, Phases, Balances, NEW w \in Workers, Release(w),
           UNCHANGED <<posted, balance>>,
           staged' = [r \in Rows |-> IF holder[r] = w THEN balance[r] ELSE staged[r]]
    PROVE  Balances'
  <1> USE EventFacts
  <1>1. \A v \in Workers : Writing(v)' => v # w /\ Writing(v) /\ event'[v] = event[v]
                                         /\ todo'[v] = todo[v]
    BY DEF Release, Writing, TypeOK
  <1>2. Exclusive'
    BY <1>1 DEF Exclusive, Balances
  <1>3. \A r \in Rows : holder'[r] = IF holder[r] = w THEN None ELSE holder[r]
    BY DEF Release
  <1>4. Versions'
    <2> SUFFICES ASSUME NEW r \in Rows
                 PROVE  /\ holder'[r] = None => staged'[r] = balance'[r]
                        /\ \A v \in Workers : holder'[r] = v =>
                              /\ Writing(v)'
                              /\ r[1] = PeriodOf[event'[v]]
                              /\ r[2] \in AccountsOf[event'[v]] \ todo'[v]
                              /\ staged'[r] = [balance'[r] EXCEPT ![event'[v]] = @ + 1]
      BY DEF Versions
    <2>1. holder'[r] = None => staged'[r] = balance'[r]
      BY <1>3 DEF Versions, Balances
    <2>2. ASSUME NEW v \in Workers, holder'[r] = v
          PROVE  /\ Writing(v)'
                 /\ r[1] = PeriodOf[event'[v]]
                 /\ r[2] \in AccountsOf[event'[v]] \ todo'[v]
                 /\ staged'[r] = [balance'[r] EXCEPT ![event'[v]] = @ + 1]
      <3>1. v # w /\ holder[r] = v
        BY <1>3, <2>2
      <3>2. /\ pc'[v] = pc[v] /\ event'[v] = event[v] /\ todo'[v] = todo[v]
            /\ staged'[r] = staged[r] /\ balance'[r] = balance[r]
        BY <3>1 DEF Release, TypeOK
      <3>3. /\ Writing(v)
            /\ r[1] = PeriodOf[event[v]]
            /\ r[2] \in AccountsOf[event[v]] \ todo[v]
            /\ staged[r] = [balance[r] EXCEPT ![event[v]] = @ + 1]
        BY <3>1 DEF Versions, Balances
      <3> QED BY <3>2, <3>3 DEF Writing
    <2> QED BY <2>1, <2>2
  <1>5. Updated'
    <2>0. \A v \in Workers : Writing(v)' => todo'[v] \subseteq AccountsOf[event'[v]]
      BY <1>1 DEF Updated, Balances
    <2> SUFFICES ASSUME NEW v \in Workers, Writing(v)',
                        NEW a \in AccountsOf[event'[v]] \ todo'[v]
                 PROVE  holder'[<<PeriodOf[event'[v]], a>>] = v
      BY <2>0 DEF Updated, Row
    <2>1. v # w /\ holder[Row(v, a)] = v
      BY <1>1 DEF Updated, Balances
    <2>2. Row(v, a) \in Rows
      <3>1. event[v] \in Events
        BY <1>1 DEF Phases, Writing
      <3> QED BY <1>1, <3>1 DEF Row, Rows
    <2> QED BY <1>1, <1>3, <2>1, <2>2 DEF Row
  <1>6. PostedOnce' /\ BalancesAgree'
    BY DEF PostedOnce, BalancesAgree, Balances
  <1> QED BY <1>2, <1>4, <1>5, <1>6 DEF Balances

(* Committing: the versions are installed and the entry written counts. *)
LEMMA InstallKeepsBalances ==
    ASSUME TypeOK, Phases, Balances, NEW w \in Workers, Release(w), Install(w),
           NEW own, own = IF Writing(w) THEN {event[w]} ELSE {},
           Writing(w) => todo[w] = {},
           posted' = [e \in Events |-> IF e \in own THEN posted[e] + 1 ELSE posted[e]]
    PROVE  Balances'
  <1> USE EventFacts
  <1>1. \A v \in Workers : Writing(v)' => /\ v # w /\ Writing(v)
                                         /\ event'[v] = event[v] /\ todo'[v] = todo[v]
    BY DEF Release, Writing, TypeOK
  <1>2. \A v \in Workers : Writing(v) => event[v] \in Events \ Direct
    BY DEF Phases, Writing
  <1>3. \A v \in Workers : Writing(v)' => event[v] \notin own
    BY <1>1 DEF Exclusive, Balances
  <1>4. Exclusive'
    BY <1>1, <1>2, <1>3 DEF Exclusive, Balances
  <1>5. /\ \A r \in Rows : holder'[r] = IF holder[r] = w THEN None ELSE holder[r]
        /\ \A r \in Rows : balance'[r] = IF holder[r] = w THEN staged[r] ELSE balance[r]
        /\ staged' = staged
    BY DEF Release, Install
  <1>6. Versions'
    <2> SUFFICES ASSUME NEW r \in Rows
                 PROVE  /\ holder'[r] = None => staged'[r] = balance'[r]
                        /\ \A v \in Workers : holder'[r] = v =>
                              /\ Writing(v)'
                              /\ r[1] = PeriodOf[event'[v]]
                              /\ r[2] \in AccountsOf[event'[v]] \ todo'[v]
                              /\ staged'[r] = [balance'[r] EXCEPT ![event'[v]] = @ + 1]
      BY DEF Versions
    <2>1. holder'[r] = None => staged'[r] = balance'[r]
      BY <1>5 DEF Versions, Balances
    <2>2. ASSUME NEW v \in Workers, holder'[r] = v
          PROVE  /\ Writing(v)'
                 /\ r[1] = PeriodOf[event'[v]]
                 /\ r[2] \in AccountsOf[event'[v]] \ todo'[v]
                 /\ staged'[r] = [balance'[r] EXCEPT ![event'[v]] = @ + 1]
      <3>1. v # w /\ holder[r] = v
        BY <1>5, <2>2
      <3>2. /\ pc'[v] = pc[v] /\ event'[v] = event[v] /\ todo'[v] = todo[v]
            /\ staged'[r] = staged[r] /\ balance'[r] = balance[r]
        BY <1>5, <3>1 DEF Release, TypeOK
      <3>3. /\ Writing(v)
            /\ r[1] = PeriodOf[event[v]]
            /\ r[2] \in AccountsOf[event[v]] \ todo[v]
            /\ staged[r] = [balance[r] EXCEPT ![event[v]] = @ + 1]
        BY <3>1 DEF Versions, Balances
      <3> QED BY <3>2, <3>3 DEF Writing
    <2> QED BY <2>1, <2>2
  <1>7. Updated'
    <2>0. \A v \in Workers : Writing(v)' => todo'[v] \subseteq AccountsOf[event'[v]]
      BY <1>1 DEF Updated, Balances
    <2> SUFFICES ASSUME NEW v \in Workers, Writing(v)',
                        NEW a \in AccountsOf[event'[v]] \ todo'[v]
                 PROVE  holder'[<<PeriodOf[event'[v]], a>>] = v
      BY <2>0 DEF Updated, Row
    <2>1. v # w /\ holder[Row(v, a)] = v
      BY <1>1 DEF Updated, Balances
    <2>2. Row(v, a) \in Rows
      BY <1>1, <1>2 DEF Row, Rows
    <2> QED BY <1>1, <1>5, <2>1, <2>2 DEF Row
  <1>8. PostedOnce'
    <2>1. \A e \in own : posted[e] = 0
      BY DEF Exclusive, Balances
    <2> QED BY <2>1 DEF PostedOnce, Balances, TypeOK
  <1>9. BalancesAgree'
    <2> SUFFICES ASSUME NEW r \in Rows, NEW e \in Events \ Direct
                 PROVE  balance'[r][e] =
                            IF PeriodOf[e] = r[1] /\ r[2] \in AccountsOf[e]
                            THEN posted'[e] ELSE 0
      BY DEF BalancesAgree
    <2>1. balance[r][e] = IF PeriodOf[e] = r[1] /\ r[2] \in AccountsOf[e]
                          THEN posted[e] ELSE 0
      BY DEF BalancesAgree, Balances
    <2>2. CASE holder[r] # w
      <3>1. balance'[r][e] = balance[r][e]
        BY <1>5, <2>2
      <3>2. e \in own => ~(PeriodOf[e] = r[1] /\ r[2] \in AccountsOf[e])
        <4> SUFFICES ASSUME e \in own, PeriodOf[e] = r[1], r[2] \in AccountsOf[e]
                     PROVE  FALSE
          OBVIOUS
        <4>1. Writing(w) /\ e = event[w] /\ todo[w] = {}
          OBVIOUS
        <4>2. holder[Row(w, r[2])] = w
          BY <4>1 DEF Updated, Balances
        <4>3. Row(w, r[2]) = r
          BY <4>1 DEF Row, Rows
        <4> QED BY <2>2, <4>2, <4>3
      <3> QED BY <2>1, <3>1, <3>2
    <2>3. CASE holder[r] = w
      <3>1. /\ Writing(w)
            /\ r[1] = PeriodOf[event[w]]
            /\ r[2] \in AccountsOf[event[w]]
            /\ staged[r] = [balance[r] EXCEPT ![event[w]] = @ + 1]
        BY <2>3 DEF Versions, Balances
      <3>2. own = {event[w]} /\ event[w] \in Events
        BY <1>2, <3>1
      <3>3. balance[r] \in [Events -> Nat]
        BY DEF TypeOK
      <3>4. balance'[r] = staged[r]
        BY <1>5, <2>3
      <3>5. CASE e = event[w]
        BY <2>1, <3>1, <3>2, <3>3, <3>4, <3>5
      <3>6. CASE e # event[w]
        BY <2>1, <3>1, <3>2, <3>3, <3>4, <3>6
      <3> QED BY <3>5, <3>6
    <2> QED BY <2>2, <2>3
  <1> QED BY <1>4, <1>6, <1>7, <1>8, <1>9 DEF Balances

LEMMA BalancesStep ==
    ASSUME TypeOK, Phases, Balances, [Next]_vars
    PROVE  Balances'
  <1> USE EventFacts
  <1>1. ASSUME NEW w \in Workers,
               \/ \E e \in Postings \cup Reversals : Begin(w, e)
               \/ \E p \in Periods : BeginClose(w, p)
               \/ FindPeriod(w) \/ Snapshot(w) \/ CountRows(w)
        PROVE  Balances'
    <2>1. UNCHANGED <<posted, balance, todo, staged, holder>>
      BY <1>1 DEF Begin, BeginClose, FindPeriod, Snapshot, CountRows, tables,
                  locks
    <2>2. \A v \in Workers : /\ Writing(v)' <=> Writing(v)
                             /\ Writing(v) => event'[v] = event[v]
      <3>1. CASE \E e \in Postings \cup Reversals : Begin(w, e)
        BY <3>1 DEF Begin, TypeOK, Writing
      <3>2. CASE \E p \in Periods : BeginClose(w, p)
        BY <3>2 DEF BeginClose, TypeOK, Writing
      <3>3. CASE FindPeriod(w)
        BY <3>3 DEF FindPeriod, TypeOK, Writing
      <3>4. CASE Snapshot(w)
        BY <3>4 DEF Snapshot, TypeOK, Writing
      <3>5. CASE CountRows(w)
        BY <3>5 DEF CountRows, TypeOK, Writing
      <3> QED BY <1>1, <3>1, <3>2, <3>3, <3>4, <3>5
    <2>3. Exclusive'
      BY <2>1, <2>2 DEF Exclusive, Balances
    <2>4. Versions'
      <3> SUFFICES ASSUME NEW r \in Rows
                   PROVE  /\ holder[r] = None => staged[r] = balance[r]
                          /\ \A v \in Workers : holder[r] = v =>
                                /\ Writing(v)'
                                /\ r[1] = PeriodOf[event'[v]]
                                /\ r[2] \in AccountsOf[event'[v]] \ todo[v]
                                /\ staged[r] = [balance[r] EXCEPT ![event'[v]] = @ + 1]
        BY <2>1 DEF Versions
      <3>1. holder[r] = None => staged[r] = balance[r]
        BY DEF Versions, Balances
      <3>2. ASSUME NEW v \in Workers, holder[r] = v
            PROVE  /\ Writing(v)'
                   /\ r[1] = PeriodOf[event'[v]]
                   /\ r[2] \in AccountsOf[event'[v]] \ todo[v]
                   /\ staged[r] = [balance[r] EXCEPT ![event'[v]] = @ + 1]
        <4>1. /\ Writing(v)
              /\ r[1] = PeriodOf[event[v]]
              /\ r[2] \in AccountsOf[event[v]] \ todo[v]
              /\ staged[r] = [balance[r] EXCEPT ![event[v]] = @ + 1]
          BY <3>2 DEF Versions, Balances
        <4>2. Writing(v)' /\ event'[v] = event[v]
          BY <2>2, <4>1
        <4> QED BY <4>1, <4>2
      <3> QED BY <3>1, <3>2
    <2>5. Updated'
      BY <2>1, <2>2 DEF Updated, Row, Balances
    <2> QED BY <2>1, <2>3, <2>4, <2>5 DEF Balances, PostedOnce, BalancesAgree
  <1>2. ASSUME NEW w \in Workers, InsertEntry(w) \/ Revalue(w)
        PROVE  Balances'
    <2>1. /\ UNCHANGED <<posted, balance, event, staged, holder>>
          /\ posted[event[w]] = 0 /\ ~Writing(w)
          /\ pc' = [pc EXCEPT ![w] = "upserting"]
          /\ todo' = [todo EXCEPT ![w] = AccountsOf[event[w]]]
      BY <1>2 DEF InsertEntry, Revalue, Writing, tables, locks
    <2>2. \A v \in Workers : /\ Writing(v)' <=> (v = w \/ Writing(v))
                             /\ v # w => todo'[v] = todo[v]
      BY <2>1 DEF Writing, TypeOK
    <2>3. todo'[w] = AccountsOf[event[w]]
      BY <2>1 DEF TypeOK
    <2>4. \A v \in Workers : Writing(v) /\ event[v] = event[w] => FALSE
      <3>1. CASE InsertEntry(w)
        <4>1. event[w] \notin Periods
          BY <3>1 DEF InsertEntry, Phases
        <4> QED BY <2>1, <3>1, <4>1 DEF InsertEntry, SameEvent, Phases, Writing
      <3>2. CASE Revalue(w)
        BY <2>1, <3>2 DEF Revalue, Phases
      <3> QED BY <1>2, <3>1, <3>2
    <2>5. Exclusive'
      BY <2>1, <2>2, <2>4 DEF Exclusive, Balances
    <2>6. Versions'
      <3>1. \A r \in Rows : holder[r] # w
        BY <2>1 DEF Versions, Balances
      <3> QED BY <2>1, <2>2, <3>1 DEF Versions, Balances
    <2>7. Updated'
      BY <2>1, <2>2, <2>3 DEF Updated, Row, Balances
    <2> QED BY <2>1, <2>5, <2>6, <2>7 DEF Balances, PostedOnce, BalancesAgree
  <1>3. ASSUME NEW w \in Workers, NEW a \in Accounts, UpsertBalance(w, a)
        PROVE  Balances'
    <2> DEFINE row == Row(w, a)
    <2>1. /\ UNCHANGED <<posted, balance, event, pc>>
          /\ pc[w] = "upserting" /\ a \in todo[w] /\ holder[row] = None
          /\ staged' = [staged EXCEPT ![row] =
                            [balance[row] EXCEPT ![event[w]] = @ + 1]]
          /\ holder' = [holder EXCEPT ![row] = w]
          /\ todo' = [todo EXCEPT ![w] = @ \ {a}]
      BY <1>3 DEF UpsertBalance, NextRows, tables
    <2>2. event[w] \in Events /\ row \in Rows
      BY <2>1 DEF Phases, Row, Rows
    <2>3. PostedOnce' /\ BalancesAgree' /\ Exclusive'
      BY <2>1 DEF PostedOnce, BalancesAgree, Exclusive, Writing, Balances
    <2>4. a \in AccountsOf[event[w]]
      BY <2>1 DEF Updated, Balances, Writing
    <2>5. todo'[w] = todo[w] \ {a} /\ \A v \in Workers : v # w => todo'[v] = todo[v]
      BY <2>1 DEF TypeOK
    <2>6. Versions'
      <3> SUFFICES ASSUME NEW r \in Rows
                   PROVE  /\ holder'[r] = None => staged'[r] = balance[r]
                          /\ \A v \in Workers : holder'[r] = v =>
                                /\ Writing(v)
                                /\ r[1] = PeriodOf[event[v]]
                                /\ r[2] \in AccountsOf[event[v]] \ todo'[v]
                                /\ staged'[r] = [balance[r] EXCEPT ![event[v]] = @ + 1]
        BY <2>1 DEF Versions, Writing
      <3>1. CASE r = row
        <4>1. holder'[r] = w /\ w # None
          BY <2>1, <2>2, <3>1 DEF TypeOK
        <4>2. staged'[r] = [balance[r] EXCEPT ![event[w]] = @ + 1]
          BY <2>1, <2>2, <3>1 DEF TypeOK
        <4>3. r[1] = PeriodOf[event[w]] /\ r[2] = a
          BY <3>1 DEF Row
        <4> QED BY <2>1, <2>4, <2>5, <4>1, <4>2, <4>3 DEF Writing
      <3>2. CASE r # row
        <4>1. holder'[r] = holder[r] /\ staged'[r] = staged[r]
          BY <2>1, <2>2, <3>2 DEF TypeOK
        <4>2. todo'[w] \subseteq todo[w]
          BY <2>5
        <4> QED BY <2>5, <4>1, <4>2 DEF Versions, Balances
      <3> QED BY <3>1, <3>2
    <2>7. Updated'
      <3> SUFFICES ASSUME NEW v \in Workers, Writing(v)
                   PROVE  /\ todo'[v] \subseteq AccountsOf[event[v]]
                          /\ \A b \in AccountsOf[event[v]] \ todo'[v] :
                                holder'[<<PeriodOf[event[v]], b>>] = v
        BY <2>1 DEF Updated, Writing, Row
      <3>1. todo'[v] \subseteq AccountsOf[event[v]]
        BY <2>5 DEF Updated, Balances
      <3>2. ASSUME NEW b \in AccountsOf[event[v]] \ todo'[v]
            PROVE  holder'[<<PeriodOf[event[v]], b>>] = v
        <4>1. CASE v = w /\ b = a
          <5>1. holder'[row] = w
            BY <2>1, <2>2 DEF TypeOK
          <5> QED BY <4>1, <5>1 DEF Row
        <4>2. CASE v # w \/ b # a
          <5>1. holder[Row(v, b)] = v
            BY <2>5, <3>2, <4>2 DEF Updated, Balances
          <5>2. event[v] \in Events /\ Row(v, b) \in Rows
            BY <3>2 DEF Phases, Writing, Row, Rows
          <5>3. Row(v, b) # row
            BY <2>1, <5>1
          <5> QED BY <2>1, <2>2, <5>1, <5>2, <5>3 DEF Row, TypeOK
        <4> QED BY <4>1, <4>2
      <3> QED BY <3>1, <3>2
    <2> QED BY <2>3, <2>6, <2>7 DEF Balances
  <1>4. ASSUME NEW w \in Workers, PeriodClosed(w) \/ DuplicateEntry(w)
        PROVE  Balances'
    <2>1. Release(w) /\ UNCHANGED <<posted, balance, staged>> /\ ~Writing(w)
      BY <1>4 DEF PeriodClosed, DuplicateEntry, Writing, tables
    <2>2. \A r \in Rows : holder[r] # w
      BY <2>1 DEF Versions, Balances
    <2>3. staged = [r \in Rows |-> IF holder[r] = w THEN balance[r] ELSE staged[r]]
      BY <2>2 DEF TypeOK
    <2> QED BY <2>1, <2>3, RollbackKeepsBalances
  <1>5. ASSUME NEW w \in Workers, Abort(w)
        PROVE  Balances'
    BY <1>5, RollbackKeepsBalances DEF Abort, tables
  <1>6. ASSUME NEW w \in Workers, Commit(w)
        PROVE  Balances'
    <2>1. /\ Release(w) /\ Install(w) /\ Writing(w) /\ todo[w] = {}
          /\ posted' = [posted EXCEPT ![event[w]] = @ + 1]
      BY <1>6 DEF Commit, Writing
    <2>2. posted' = [e \in Events |-> IF e \in {event[w]} THEN posted[e] + 1
                                                          ELSE posted[e]]
      BY <2>1 DEF TypeOK
    <2> QED BY <2>1, <2>2, InstallKeepsBalances
  <1>7. ASSUME NEW w \in Workers, CommitClose(w)
        PROVE  Balances'
    <2>1. /\ Release(w) /\ Install(w)
          /\ Writing(w) => todo[w] = {}
          /\ OwnEntry(w) = IF Writing(w) THEN {event[w]} ELSE {}
          /\ posted' = [e \in Events |-> IF e \in OwnEntry(w) THEN posted[e] + 1
                                                              ELSE posted[e]]
      BY <1>7 DEF CommitClose, Writing, OwnEntry, Phases
    <2> QED BY <2>1, InstallKeepsBalances
  <1>8. ASSUME NEW e \in Direct, PostDirect(e)
        PROVE  Balances'
    <2>1. /\ UNCHANGED <<balance, pc, event, todo, staged, holder>>
          /\ posted[e] = 0 /\ posted' = [posted EXCEPT ![e] = @ + 1]
      BY <1>8 DEF PostDirect, locks
    <2>2. e \in Events /\ \A f \in Events : f # e => posted'[f] = posted[f]
      BY <2>1 DEF TypeOK, Events
    <2>3. \A w \in Workers : Writing(w) => event[w] \in Events \ Direct
      BY DEF Phases, Writing
    <2>4. Exclusive'
      BY <2>1, <2>2, <2>3 DEF Exclusive, Writing, Balances
    <2>5. PostedOnce'
      BY <2>1, <2>2 DEF PostedOnce, Balances, TypeOK
    <2>6. BalancesAgree'
      BY <2>1, <2>2 DEF BalancesAgree, Balances
    <2>7. Versions' /\ Updated'
      BY <2>1 DEF Versions, Updated, Writing, Row, Balances
    <2> QED BY <2>4, <2>5, <2>6, <2>7 DEF Balances
  <1>9. ASSUME \/ UNCHANGED vars
               \/ \E r \in Requests, p \in Periods : RequestReopen(r, p)
               \/ \E r \in Requests : ApproveReopen(r) \/ RejectReopen(r)
        PROVE  Balances'
    <2>1. UNCHANGED <<posted, balance, pc, event, todo, staged, holder>>
      BY <1>9 DEF vars, tables, locks, RequestReopen, ApproveReopen, RejectReopen
    <2> QED BY <2>1 DEF Balances, Exclusive, Versions, Updated, PostedOnce,
                        BalancesAgree, Writing, Row
  <1> QED BY <1>1, <1>2, <1>3, <1>4, <1>5, <1>6, <1>7, <1>8, <1>9 DEF Next, Step

-----------------------------------------------------------------------------
(* Sealing and reopening.                                                  *)

LEMMA SealingInit == Init => Sealing
  <1> SUFFICES ASSUME Init PROVE Sealing
    OBVIOUS
  <1> USE EventFacts
  <1>1. Phases
    BY DEF Init, Phases
  <1>2. SeenExists /\ SealedEntriesExist
    BY DEF Init, SeenExists, SealedEntriesExist
  <1>3. Named /\ PendingRequestIsCurrent
    BY DEF Init, NoRequest, Named, PendingRequestIsCurrent
  <1> QED BY <1>1, <1>2, <1>3 DEF Sealing

(* No entry ever goes. *)
LEMMA EntriesStay ==
    ASSUME TypeOK, Phases, [Next]_vars, NEW p \in Periods
    PROVE  EntriesOf(p) \subseteq EntriesOf(p)'
  <1> USE EventFacts
  <1>1. SUFFICES \A e \in Events : posted[e] > 0 => posted'[e] > 0
    BY DEF EntriesOf
  <1>2. CASE UNCHANGED posted
    BY <1>2
  <1>3. ASSUME NEW w \in Workers, Commit(w)
        PROVE  \A e \in Events : posted[e] > 0 => posted'[e] > 0
    BY <1>3 DEF Commit, TypeOK
  <1>4. ASSUME NEW w \in Workers, CommitClose(w)
        PROVE  \A e \in Events : posted[e] > 0 => posted'[e] > 0
    BY <1>4 DEF CommitClose, TypeOK
  <1>5. ASSUME NEW e \in Direct, PostDirect(e)
        PROVE  \A f \in Events : posted[f] > 0 => posted'[f] > 0
    BY <1>5 DEF PostDirect, TypeOK
  <1>6. UNCHANGED posted \/ (\E w \in Workers : Commit(w) \/ CommitClose(w))
                         \/ \E e \in Direct : PostDirect(e)
    BY DEF Next, Step, vars, tables, Begin, BeginClose, FindPeriod, PeriodClosed,
           InsertEntry, DuplicateEntry, UpsertBalance, Revalue, Snapshot, CountRows,
           Abort,            RequestReopen, ApproveReopen, RejectReopen
  <1> QED BY <1>2, <1>3, <1>4, <1>5, <1>6

(* Where a step leaves closed, closeHash, summary and request alone, only  *)
(* the phases are left to look at.                                         *)
LEMMA UnchangedPeriods ==
    ASSUME TypeOK, Sealing, [Next]_vars, 
           UNCHANGED <<closed, closeHash, summary, request>>
    PROVE  Named' /\ SealedEntriesExist' /\ PendingRequestIsCurrent'
  <1>1. SealedEntriesExist'
    BY EntriesStay DEF Sealing, SealedEntriesExist
  <1>2. Named' /\ PendingRequestIsCurrent'
    BY DEF Sealing, Named, PendingRequestIsCurrent, Pending
  <1> QED BY <1>1, <1>2

(* The phases once a transaction has ended. *)
LEMMA ReleaseKeepsPhases ==
    ASSUME TypeOK, Sealing, [Next]_vars, NEW w \in Workers, Release(w),
           \A p \in Periods : closed'[p] => closed[p] \/ p = event[w]
    PROVE  Phases' /\ SeenExists'
  <1> USE EventFacts
  <1>1. /\ pc'[w] = "idle" /\ event'[w] = None
        /\ \A v \in Workers : v # w => /\ pc'[v] = pc[v] /\ event'[v] = event[v]
                                       /\ todo'[v] = todo[v] /\ seen'[v] = seen[v]
    BY DEF Release, TypeOK
  <1>2. \A v \in Workers : v # w /\ event[v] \in Periods => event[v] # event[w]
    BY DEF Sealing, Phases
  <1>3. ASSUME NEW v \in Workers, v # w, event[v] \in Periods
        PROVE  periodLock'[event[v]] = v /\ ~closed'[event[v]]
    <2>1. periodLock[event[v]] = v /\ ~closed[event[v]]
      BY <1>3 DEF Sealing, Phases
    <2> QED BY <1>2, <1>3, <2>1 DEF Release
  <1>4. Phases'
    BY <1>1, <1>3 DEF Sealing, Phases
  <1>5. SeenExists'
    BY <1>1, EntriesStay DEF Sealing, SeenExists, Phases
  <1> QED BY <1>4, <1>5

LEMMA SealingStep ==
    ASSUME TypeOK, Sealing, [Next]_vars
    PROVE  Sealing'
  <1> USE EventFacts
  <1>1. ASSUME NEW w \in Workers,
               PeriodClosed(w) \/ DuplicateEntry(w) \/ Abort(w) \/ Commit(w)
        PROVE  Sealing'
    <2>1. Release(w) /\ UNCHANGED <<closed, closeHash, summary, request>>
      BY <1>1 DEF PeriodClosed, DuplicateEntry, Abort, Commit, tables
    <2> QED BY <2>1, ReleaseKeepsPhases, UnchangedPeriods DEF Sealing
  <1>2. ASSUME NEW w \in Workers, NEW e \in Postings \cup Reversals, Begin(w, e)
        PROVE  Sealing'
    <2>1. UNCHANGED <<posted, closed, closeHash, summary, request, todo, periodLock, seen>>
      BY <1>2 DEF Begin, tables, locks
    <2>2. Phases'
      BY <1>2, <2>1 DEF Begin, Phases, Sealing, TypeOK, Requested
    <2>3. SeenExists'
      BY <1>2, <2>1 DEF Begin, SeenExists, EntriesOf, Sealing, TypeOK
    <2> QED BY <2>1, <2>2, <2>3, UnchangedPeriods DEF Sealing
  <1>3. ASSUME NEW w \in Workers, NEW p \in Periods, BeginClose(w, p)
        PROVE  Sealing'
    <2>1. /\ UNCHANGED <<posted, closed, closeHash, summary, request, todo, seen>>
          /\ ~closed[p] /\ periodLock[p] = None
      BY <1>3 DEF BeginClose, PeriodFree, tables
    <2>2. \A v \in Workers : event[v] # p
      BY <2>1 DEF Phases, Sealing
    <2>3. Phases'
      BY <1>3, <2>1, <2>2 DEF BeginClose, Phases, Sealing, TypeOK
    <2>4. SeenExists'
      BY <1>3, <2>1 DEF BeginClose, SeenExists, EntriesOf, Sealing, TypeOK
    <2> QED BY <2>1, <2>3, <2>4, UnchangedPeriods DEF Sealing
  <1>4. ASSUME NEW w \in Workers, FindPeriod(w) \/ InsertEntry(w) \/ Revalue(w)
        PROVE  Sealing'
    <2>1. /\ UNCHANGED <<posted, closed, closeHash, summary, request, event,
                         periodLock, seen>>
          /\ \/ pc[w] = "checked" /\ pc' = [pc EXCEPT ![w] = "open"]
             \/ pc[w] \in {"open", "closing"} /\ pc' = [pc EXCEPT ![w] = "upserting"]
          /\ \A v \in Workers : v # w => todo'[v] = todo[v]
      BY <1>4 DEF FindPeriod, InsertEntry, Revalue, tables, locks, TypeOK
    <2>2. Phases'
      BY <2>1 DEF Phases, Sealing, TypeOK
    <2>3. SeenExists'
      BY <2>1 DEF SeenExists, EntriesOf, Sealing, TypeOK
    <2> QED BY <2>1, <2>2, <2>3, UnchangedPeriods DEF Sealing
  <1>5. ASSUME NEW w \in Workers, NEW a \in Accounts, UpsertBalance(w, a)
        PROVE  Sealing'
    <2>1. /\ UNCHANGED <<posted, closed, closeHash, summary, request, pc, event,
                         periodLock, seen>>
          /\ \A v \in Workers : todo'[v] \subseteq todo[v]
      BY <1>5 DEF UpsertBalance, tables, TypeOK
    <2>2. Phases' /\ SeenExists'
      BY <2>1 DEF Phases, SeenExists, EntriesOf, Sealing
    <2> QED BY <2>1, <2>2, UnchangedPeriods DEF Sealing
  <1>6. ASSUME NEW w \in Workers, Snapshot(w)
        PROVE  Sealing'
    <2>1. /\ UNCHANGED <<posted, closed, closeHash, summary, request, event,
                         todo, periodLock>>
          /\ \/ pc[w] = "closing" /\ pc' = [pc EXCEPT ![w] = "sealing"]
             \/ /\ pc[w] = "upserting" /\ event[w] \in Periods /\ todo[w] = {}
                /\ pc' = [pc EXCEPT ![w] = "revalued"]
          /\ seen' = [seen EXCEPT ![w].entries = EntriesOf(event[w])]
      BY <1>6 DEF Snapshot, tables, locks
    <2>2. Phases'
      BY <2>1 DEF Phases, Sealing, TypeOK
    <2>3. SeenExists'
      <3>1. \A q \in Events : EntriesOf(q)' = EntriesOf(q)
        BY <2>1 DEF EntriesOf
      <3>2. \A v \in Workers : v # w => pc'[v] = pc[v] /\ seen'[v] = seen[v]
        BY <2>1 DEF TypeOK
      <3>3. seen'[w].entries = EntriesOf(event[w]) /\ event[w] \in Events
        BY <2>1 DEF TypeOK, Seen, Phases, Sealing
      <3>4. \A v \in Workers : pc'[v] \in {"sealing", "revalued"} => event[v] \in Events
        BY <2>1, <2>2 DEF Phases
      <3> QED BY <2>1, <3>1, <3>2, <3>3, <3>4 DEF SeenExists, Sealing
    <2> QED BY <2>1, <2>2, <2>3, UnchangedPeriods DEF Sealing
  <1>13. ASSUME NEW w \in Workers, CountRows(w)
         PROVE  Sealing'
    <2>1. /\ UNCHANGED <<posted, closed, closeHash, summary, request, pc, event,
                         todo, periodLock>>
          /\ \A v \in Workers : seen'[v].entries = seen[v].entries
      BY <1>13 DEF CountRows, tables, locks, TypeOK, Seen
    <2>2. Phases' /\ SeenExists'
      BY <2>1 DEF Phases, SeenExists, EntriesOf, Sealing
    <2> QED BY <2>1, <2>2, UnchangedPeriods DEF Sealing
  <1>7. ASSUME NEW w \in Workers, CommitClose(w)
        PROVE  Sealing'
    <2> DEFINE covered == seen[w].entries \cup OwnEntry(w)
    <2>0. PICK p \in Periods : p = event[w]
      BY <1>7 DEF CommitClose, Phases, Sealing
    <2>1. ~closed[p] /\ PeriodOf[p] = p /\ OwnEntry(w) \subseteq {p}
      BY <1>7, <2>0 DEF CommitClose, Phases, Sealing, OwnEntry
    <2>2. /\ \A q \in Periods : q # p => /\ closed'[q] = closed[q]
                                         /\ closeHash'[q] = closeHash[q]
          /\ closed'[p] /\ closeHash'[p].entries = covered
          /\ request' = request
      BY <1>7, <2>0, <2>1 DEF CommitClose, TypeOK
    <2>3. Phases' /\ SeenExists'
      BY <1>7, <2>0, <2>2, ReleaseKeepsPhases DEF CommitClose
    <2>4. covered \subseteq EntriesOf(p)'
      <3>1. seen[w].entries \subseteq EntriesOf(p)'
        BY <1>7, <2>0, EntriesStay DEF CommitClose, SeenExists, Sealing
      <3>2. \A e \in OwnEntry(w) : e \in Events /\ posted'[e] = posted[e] + 1
                                                /\ posted[e] \in Nat
        BY <1>7, <2>1 DEF CommitClose, TypeOK
      <3> QED BY <2>1, <3>1, <3>2 DEF EntriesOf
    <2>5. SealedEntriesExist'
      BY <2>2, <2>4, EntriesStay DEF SealedEntriesExist, Sealing
    <2>7. Named' /\ PendingRequestIsCurrent'
      <3>1. \A r \in Requests : request[r].status = "requested" =>
                request[r].period # p /\ request[r].period \in Periods
        BY <2>1 DEF PendingRequestIsCurrent, Named, Sealing
      <3> QED BY <2>2, <3>1 DEF Named, PendingRequestIsCurrent, Pending, Sealing
    <2> QED BY <2>3, <2>5, <2>7 DEF Sealing
  <1>8. ASSUME NEW e \in Direct, PostDirect(e)
        PROVE  Sealing'
    <2>1. UNCHANGED <<closed, closeHash, summary, request, pc, event, todo,
                      periodLock, seen>>
      BY <1>8 DEF PostDirect, locks
    <2>2. Phases'
      BY <2>1 DEF Phases, Sealing
    <2>3. SeenExists'
      BY <2>1, EntriesStay DEF SeenExists, Phases, Sealing
    <2> QED BY <2>1, <2>2, <2>3, UnchangedPeriods DEF Sealing
  <1>9. CASE UNCHANGED vars
    <2>1. UNCHANGED <<posted, closed, closeHash, summary, request, pc, event, todo,
                      periodLock, seen>>
      BY <1>9 DEF vars, tables, locks
    <2>2. Phases' /\ SeenExists'
      BY <2>1 DEF Phases, SeenExists, EntriesOf, Sealing
    <2> QED BY <2>1, <2>2, UnchangedPeriods DEF Sealing
  <1>10. ASSUME NEW r \in Requests, NEW p \in Periods, RequestReopen(r, p)
         PROVE  Sealing'
    <2>1. /\ UNCHANGED <<posted, closed, closeHash, summary, pc, event, todo,
                         periodLock, seen>>
          /\ closed[p] /\ Pending(p) = {} /\ request[r].status = "absent"
      BY <1>10 DEF RequestReopen, locks
    <2>2. /\ request'[r].status = "requested" /\ request'[r].period = p
          /\ request'[r].prior = closeHash[p]
          /\ \A s \in Requests : s # r => request'[s] = request[s]
      BY <1>10 DEF RequestReopen, TypeOK
    <2>3. Phases' /\ SeenExists' /\ SealedEntriesExist'
      BY <2>1 DEF Phases, SeenExists, SealedEntriesExist, EntriesOf, Sealing
    <2>4. Named'
      BY <2>2 DEF Named, Sealing
    <2>6. PendingRequestIsCurrent'
      <3>1. \A s \in Requests : request[s].status = "requested" => request[s].period # p
        BY <2>1 DEF Pending
      <3>2. \A s \in Requests : s # r /\ request[s].status = "requested" =>
                Pending(request[s].period)' = Pending(request[s].period)
        BY <2>1, <2>2, <3>1 DEF Pending
      <3>3. Pending(p)' = {r}
        BY <2>2, <3>1 DEF Pending
      <3> QED BY <2>1, <2>2, <3>2, <3>3 DEF PendingRequestIsCurrent, Sealing, Pending
    <2> QED BY <2>3, <2>4, <2>6 DEF Sealing
  <1>11. ASSUME NEW r \in Requests, ApproveReopen(r)
         PROVE  Sealing'
    <2>0. PICK p \in Periods : p = request[r].period
      BY <1>11 DEF ApproveReopen, Named, Sealing
    <2>1. /\ UNCHANGED <<posted, summary, pc, event, todo, periodLock, seen>>
          /\ request[r].status = "requested" /\ Pending(p) = {r}
      BY <1>11, <2>0 DEF ApproveReopen, locks, PendingRequestIsCurrent, Sealing
    <2>2. /\ ~closed'[p]
          /\ \A q \in Periods : q # p => /\ closed'[q] = closed[q]
                                         /\ closeHash'[q] = closeHash[q]
      BY <1>11, <2>0 DEF ApproveReopen, TypeOK
    <2>3. /\ request'[r].status = "approved" /\ request'[r].period = p
          /\ \A s \in Requests : s # r => request'[s] = request[s]
      <3>1. request[r] \in ReopenRequest
        BY DEF TypeOK, ReopenRequest
      <3>2. request'[r] = [request[r] EXCEPT !.status = "approved"]
        BY <1>11 DEF ApproveReopen, TypeOK
      <3>3. \A s \in Requests : s # r => request'[s] = request[s]
        BY <1>11 DEF ApproveReopen, TypeOK
      <3> QED BY <2>0, <3>1, <3>2, <3>3 DEF ReopenRequest
    <2>4. Phases' /\ SeenExists'
      BY <2>1, <2>2 DEF Phases, SeenExists, EntriesOf, Sealing
    <2>5. SealedEntriesExist' /\ Named'
      BY <2>1, <2>2, <2>3 DEF SealedEntriesExist, Named, EntriesOf, Sealing
    <2>6. PendingRequestIsCurrent'
      <3>1. \A s \in Requests : request'[s].status = "requested" =>
                /\ s # r /\ request'[s] = request[s]
                /\ request[s].period # p /\ request[s].period \in Periods
        BY <2>1, <2>3 DEF Pending, Named, Sealing
      <3>2. \A q \in Periods : q # p => Pending(q)' = Pending(q)
        BY <2>0, <2>3 DEF Pending
      <3> QED BY <2>2, <3>1, <3>2 DEF PendingRequestIsCurrent, Pending, Sealing
    <2> QED BY <2>4, <2>5, <2>6 DEF Sealing
  <1>12. ASSUME NEW r \in Requests, RejectReopen(r)
         PROVE  Sealing'
    <2>1. /\ UNCHANGED <<posted, closed, closeHash, summary, pc, event, todo,
                         periodLock, seen>>
          /\ request[r].status = "requested"
      BY <1>12 DEF RejectReopen, locks
    <2>2. /\ request'[r].status = "rejected" /\ request'[r].period = request[r].period
          /\ \A s \in Requests : s # r => request'[s] = request[s]
      <3>1. request[r] \in ReopenRequest
        BY DEF TypeOK, ReopenRequest
      <3>2. request'[r] = [request[r] EXCEPT !.status = "rejected"]
        BY <1>12 DEF RejectReopen, TypeOK
      <3>3. \A s \in Requests : s # r => request'[s] = request[s]
        BY <1>12 DEF RejectReopen, TypeOK
      <3> QED BY <3>1, <3>2, <3>3 DEF ReopenRequest
    <2>3. Phases' /\ SeenExists' /\ SealedEntriesExist'
      BY <2>1 DEF Phases, SeenExists, SealedEntriesExist, EntriesOf, Sealing
    <2>4. Named'
      BY <2>1, <2>2 DEF Named, Sealing
    <2>5. PendingRequestIsCurrent'
      <3>1. \A s \in Requests : s # r /\ request[s].status = "requested" =>
                Pending(request[s].period)' = Pending(request[s].period)
        <4> SUFFICES ASSUME NEW s \in Requests, s # r, request[s].status = "requested"
                     PROVE  Pending(request[s].period)' = Pending(request[s].period)
          OBVIOUS
        <4>1. r \notin Pending(request[s].period)
          BY DEF PendingRequestIsCurrent, Sealing
        <4> QED BY <2>1, <2>2, <4>1 DEF Pending
      <3> QED BY <2>1, <2>2, <3>1 DEF PendingRequestIsCurrent, Pending, Sealing
    <2> QED BY <2>3, <2>4, <2>5 DEF Sealing
  <1> QED BY <1>1, <1>2, <1>3, <1>4, <1>5, <1>6, <1>7, <1>8, <1>9, <1>10, <1>11, <1>12,
             <1>13 DEF Next, Step

-----------------------------------------------------------------------------
(* Deadlock.                                                               *)

(* A transaction has the rows it updated before those still to be updated, *)
(* and only a close locks a period.                                        *)
Ordered ==
    /\ \A p \in Periods, w \in Workers : periodLock[p] = w => event[w] = p
    /\ \A w \in Workers : pc[w] = "upserting" /\ event[w] \in Requested =>
          \A a \in AccountsOf[event[w]] \ todo[w], b \in todo[w] : a < b

LEMMA OrderedInit == Init => Ordered
  BY EventFacts DEF Init, Ordered

(* A transaction's end leaves the others as they are. *)
LEMMA ReleaseKeepsOrder ==
    ASSUME TypeOK, Ordered, NEW w \in Workers, Release(w)
    PROVE  Ordered'
  <1> USE EventFacts
  <1>1. \A v \in Workers : v # w =>
            pc'[v] = pc[v] /\ event'[v] = event[v] /\ todo'[v] = todo[v]
    BY DEF Release, TypeOK
  <1>2. pc'[w] = "idle"
    BY DEF Release, TypeOK
  <1>3. \A p \in Periods, v \in Workers :
            periodLock'[p] = v => periodLock[p] = v /\ v # w
    BY DEF Release, TypeOK
  <1> QED BY <1>1, <1>2, <1>3 DEF Ordered

LEMMA OrderedStep ==
    ASSUME TypeOK, Phases, Ordered, [Next]_vars
    PROVE  Ordered'
  <1> USE EventFacts
  <1>1. ASSUME NEW w \in Workers,
               \/ PeriodClosed(w) \/ DuplicateEntry(w) \/ Abort(w)
               \/ Commit(w) \/ CommitClose(w)
        PROVE  Ordered'
    <2>1. Release(w)
      BY <1>1 DEF PeriodClosed, DuplicateEntry, Abort, Commit, CommitClose
    <2> QED BY <2>1, ReleaseKeepsOrder
  <1>2. ASSUME NEW w \in Workers, NEW e \in Postings \cup Reversals, Begin(w, e)
        PROVE  Ordered'
    <2>1. \A p \in Periods : periodLock[p] # w
      BY <1>2 DEF Begin, Ordered, Phases
    <2> QED BY <1>2, <2>1 DEF Begin, Ordered, TypeOK, locks
  <1>3. ASSUME NEW w \in Workers, NEW p \in Periods, BeginClose(w, p)
        PROVE  Ordered'
    <2>1. \A q \in Periods : periodLock[q] # w
      BY <1>3 DEF BeginClose, Ordered, Phases
    <2> QED BY <1>3, <2>1 DEF BeginClose, Ordered, TypeOK
  <1>4. ASSUME NEW w \in Workers,
               FindPeriod(w) \/ Snapshot(w) \/ CountRows(w)
        PROVE  Ordered'
    <2>1. UNCHANGED <<event, todo, periodLock>>
      BY <1>4 DEF FindPeriod, Snapshot, CountRows, locks
    <2>2. \A v \in Workers : pc'[v] = "upserting" => pc[v] = "upserting"
      BY <1>4 DEF FindPeriod, Snapshot, CountRows, TypeOK
    <2> QED BY <2>1, <2>2 DEF Ordered
  <1>5. ASSUME NEW w \in Workers, InsertEntry(w) \/ Revalue(w)
        PROVE  Ordered'
    <2>1. UNCHANGED <<event, periodLock>> /\ todo'[w] = AccountsOf[event[w]]
      BY <1>5 DEF InsertEntry, Revalue, locks, TypeOK
    <2>2. \A v \in Workers : v # w => pc'[v] = pc[v] /\ todo'[v] = todo[v]
      BY <1>5 DEF InsertEntry, Revalue, TypeOK
    <2> QED BY <2>1, <2>2 DEF Ordered
  <1>6. ASSUME NEW w \in Workers, NEW a \in Accounts, UpsertBalance(w, a)
        PROVE  Ordered'
    <2>1. /\ UNCHANGED <<pc, event, periodLock>>
          /\ a \in NextRows(w)
          /\ todo'[w] = todo[w] \ {a}
          /\ \A v \in Workers : v # w => todo'[v] = todo[v]
      BY <1>6 DEF UpsertBalance, TypeOK
    <2>2. ASSUME event[w] \in Requested,
                 NEW c \in AccountsOf[event[w]] \ todo'[w], NEW b \in todo'[w],
                 pc[w] = "upserting"
          PROVE  c < b
      <3>1. \A d \in todo[w] : a <= d
        BY <2>1, <2>2 DEF NextRows
      <3>2. a \in Nat /\ b \in Nat
        BY LedgerAssumption, <2>1 DEF TypeOK, LedgerAssumption
      <3>3. CASE c = a
        BY <2>1, <3>1, <3>2, <3>3
      <3>4. CASE c # a
        BY <2>1, <2>2, <3>4 DEF Ordered
      <3> QED BY <3>3, <3>4
    <2> QED BY <2>1, <2>2 DEF Ordered
  <1>7. CASE UNCHANGED <<pc, event, todo, periodLock>>
    BY <1>7 DEF Ordered
  <1> QED
    BY <1>1, <1>2, <1>3, <1>4, <1>5, <1>6, <1>7
       DEF Next, Step, vars, tables, locks, PostDirect, RequestReopen,
           ApproveReopen, RejectReopen

(* Of the members of a finite set one has the highest rank.                *)
LEMMA Highest ==
    ASSUME NEW S, IsFiniteSet(S), S # {}, NEW rank \in [S -> Nat]
    PROVE  \E x \in S : \A y \in S : rank[y] <= rank[x]
  <1> DEFINE Above(x) == {y \in S : rank[y] > rank[x]}
             R == StrictSubsetOrdering(S)
             T == {Above(x) : x \in S}
  <1>1. PICK x \in S : \A y \in S : <<Above(y), Above(x)>> \notin R
    <2>1. IsWellFoundedOn(R, SUBSET S)
      BY FS_StrictSubsetOrderingWellFounded, FS_FiniteSubsetsOfFinite
    <2>2. T \subseteq SUBSET S /\ T # {}
      <3>1. \A x \in S : Above(x) \in SUBSET S /\ Above(x) \in T
        OBVIOUS
      <3>2. \A t \in T : t \in SUBSET S
        OBVIOUS
      <3> QED BY <3>1, <3>2
    <2>3. \E t \in T : \A u \in T : <<u, t>> \notin R
      <3> HIDE DEF R, T
      <3> QED BY <2>1, <2>2, WFMin
    <2> QED BY <2>3
  <1>2. ASSUME NEW y \in S, rank[y] > rank[x] PROVE FALSE
    <2>1. Above(y) \subseteq Above(x)
      BY <1>2
    <2>2. y \in Above(x) /\ y \notin Above(y)
      BY <1>2
    <2>3. Above(y) \in SUBSET S /\ Above(x) \in SUBSET S
      OBVIOUS
    <2>4. <<Above(y), Above(x)>> \in R
      <3> HIDE DEF Above
      <3> QED BY <2>1, <2>2, <2>3 DEF StrictSubsetOrdering
    <2> QED BY <1>1, <2>4
  <1> QED BY <1>1, <1>2

(* In a group in which each waits for another, the updaters wait for a row *)
(* that one of them holds: the one who waits for the highest is stuck with *)
(* a holder that has passed that row and waits for a higher one.           *)
LEMMA NoCycle ==
    ASSUME TypeOK, Phases, Versions, Ordered
    PROVE  PostingsNeverDeadlock
  <1> USE EventFacts
  <1> SUFFICES ASSUME NEW S \in SUBSET {w \in Workers : event[w] \in Requested},
                      S # {}, \A v \in S : \E w \in S : WaitsFor(v, w)
               PROVE  FALSE
    BY DEF PostingsNeverDeadlock, Requested
  <1> DEFINE U == {v \in S : pc[v] = "upserting"}
             Held(v, w) == \E a \in NextRows(v) : holder[Row(v, a)] = w
  <1>1. \A v \in S : v \in Workers /\ event[v] \in Requested
    OBVIOUS
  <1>2. \A v \in U : \E w \in S : Held(v, w)
    <2> SUFFICES ASSUME NEW v \in U, NEW w \in S, WaitsFor(v, w)
                 PROVE  Held(v, w)
      OBVIOUS
    <2>1. PeriodOf[event[v]] \in Periods
      BY <1>1
    <2>2. periodLock[PeriodOf[event[v]]] # w
      BY <1>1, <2>1 DEF Ordered
    <2> QED BY <2>2 DEF WaitsFor, SameEvent
  <1>3. ASSUME NEW v \in U, NEW a \in NextRows(v), NEW w \in S, holder[Row(v, a)] = w
        PROVE  w \in U /\ a \in AccountsOf[event[w]] \ todo[w]
    <2>1. a \in Accounts
      BY <1>1, <1>3 DEF NextRows, TypeOK
    <2>2. Row(v, a) \in Rows /\ Row(v, a)[2] = a
      BY <1>1, <2>1 DEF Row, Rows
    <2>3. Writing(w) /\ a \in AccountsOf[event[w]] \ todo[w]
      <3>1. w \in Workers
        BY <1>1
      <3>2. PICK r \in Rows : r = Row(v, a)
        BY <2>2
      <3>3. Writing(w) /\ r[2] \in AccountsOf[event[w]] \ todo[w]
        BY <1>3, <3>1, <3>2 DEF Versions
      <3> QED BY <2>2, <3>2, <3>3
    <2> QED BY <1>1, <2>3 DEF Writing, Phases
  <1>4. U # {}
    <2>1. PICK v \in S : TRUE
      OBVIOUS
    <2>2. PICK w \in S : WaitsFor(v, w)
      BY <2>1
    <2> QED BY <2>2 DEF WaitsFor, SameEvent
  <1>5. \A v \in U :
            /\ NextRows(v) \subseteq todo[v] /\ todo[v] \subseteq Nat
            /\ NextRows(v) # {}
            /\ \A a \in NextRows(v), b \in todo[v] : a <= b
    BY <1>1, <1>2, LedgerAssumption DEF NextRows, TypeOK, LedgerAssumption
  <1> DEFINE first == [v \in U |-> CHOOSE a \in NextRows(v) : TRUE]
  <1>6. \A v \in U : first[v] \in NextRows(v)
    <2> SUFFICES ASSUME NEW v \in U PROVE first[v] \in NextRows(v)
      OBVIOUS
    <2>1. \E a \in NextRows(v) : TRUE
      BY <1>5
    <2>2. first[v] = CHOOSE a \in NextRows(v) : TRUE
      OBVIOUS
    <2> QED BY <2>1, <2>2
  <1>7. first \in [U -> Nat]
    BY <1>5, <1>6
  <1>8. IsFiniteSet(U)
    BY FS_Subset, LedgerAssumption DEF LedgerAssumption
  <1>9. PICK v \in U : \A u \in U : first[u] <= first[v]
    <2> HIDE DEF U, first
    <2> QED BY <1>4, <1>7, <1>8, Highest
  <1>10. PICK w \in S, a \in NextRows(v) : holder[Row(v, a)] = w
    BY <1>2
  <1>11. w \in U /\ a \in AccountsOf[event[w]] \ todo[w]
    BY <1>3, <1>10
  <1>12. a = first[v]
    <2>1. a \in Nat /\ first[v] \in Nat /\ a <= first[v] /\ first[v] <= a
      <3> HIDE DEF U, first
      <3> QED BY <1>5, <1>6
    <2> QED BY <2>1
  <1>13. a < first[w]
    <2>1. first[w] \in todo[w]
      <3> HIDE DEF U, first
      <3> QED BY <1>5, <1>6, <1>11
    <2> QED BY <1>1, <1>11, <2>1 DEF Ordered
  <1>14. first[w] \in Nat /\ first[w] <= first[v] /\ first[v] \in Nat
    <2> HIDE DEF U, first
    <2> QED BY <1>7, <1>9, <1>11
  <1> QED BY <1>12, <1>13, <1>14

-----------------------------------------------------------------------------
(* The balance rows a close counts.                                        *)

(* Nobody but the holder of a key share locks its period ...               *)
Shares ==
    \A w \in keyShare :
        Writing(w) /\ periodLock[PeriodOf[event[w]]] \in {None, w}

(* ... and a row that is not committed yet has such a holder. *)
NewRowsShare ==
    \A w \in Workers, r \in Rows : holder[r] = w /\ NewRow(r) => w \in keyShare

(* The rows a close finds in its period, its own included. *)
RowsFound(w) ==
    {a \in Accounts : ~NewRow(Row(w, a)) \/ holder[Row(w, a)] = w}

(* What it has counted is what is there. *)
Counted ==
    \A w \in Workers :
        /\ pc[w] \notin {"sealing", "revalued"} => seen[w].rows = None
        /\ seen[w].rows # None => seen[w].rows = RowsFound(w)

Counting == Shares /\ NewRowsShare /\ Counted

LEMMA CountingInit == Init => Counting
  BY EventFacts
  DEF Init, Counting, Shares, NewRowsShare, Counted, NothingSeen, Rows

(* A version that is installed is a row. *)
LEMMA Installed ==
    ASSUME TypeOK, Phases, Versions, NEW w \in Workers, Install(w),
           NEW r \in Rows
    PROVE  /\ holder[r] = w => ~NewRow(r)'
           /\ holder[r] # w => (NewRow(r)' <=> NewRow(r))
  <1>1. CASE holder[r] # w
    BY <1>1 DEF Install, NewRow
  <1>2. CASE holder[r] = w
    <2>1. event[w] \in Events /\ balance[r][event[w]] \in Nat
      BY <1>2, EventFacts DEF Versions, Writing, Phases, TypeOK
    <2>2. balance'[r] = [balance[r] EXCEPT ![event[w]] = @ + 1]
      <3>1. balance'[r] = staged[r]
        BY <1>2 DEF Install
      <3> QED BY <1>2, <3>1 DEF Versions
    <2>3. balance'[r][event[w]] = balance[r][event[w]] + 1
      BY <2>1, <2>2 DEF TypeOK
    <2> QED BY <2>1, <2>3, <1>2 DEF NewRow
  <1> QED BY <1>1, <1>2

(* While a transaction is in the middle of closing a period, no other one  *)
(* has a new row of it to install.                                         *)
LEMMA CloserExcludes ==
    ASSUME TypeOK, Phases, Versions, Counting,
           NEW w \in Workers, pc[w] \in {"sealing", "revalued"},
           NEW v \in Workers, v # w, NEW a \in Accounts,
           holder[Row(w, a)] = v
    PROVE  ~NewRow(Row(w, a))
  <1>1. event[w] \in Periods /\ periodLock[event[w]] = w
        /\ Row(w, a) = <<event[w], a>> /\ Row(w, a) \in Rows
    BY EventFacts DEF Phases, Row, Rows
  <1>2. event[w] = PeriodOf[event[v]]
    <2>1. PICK r \in Rows : r = Row(w, a)
      BY <1>1
    <2>2. v \in Workers /\ r \in Rows /\ holder[r] = v
      BY <2>1
    <2>3. \A u \in Workers : holder[r] = u => r[1] = PeriodOf[event[u]]
      BY <2>2 DEF Versions
    <2>4. r[1] = PeriodOf[event[v]]
      BY <2>2, <2>3
    <2> QED BY <1>1, <2>1, <2>4
  <1> QED BY <1>1, <1>2, EventFacts DEF Counting, NewRowsShare, Shares

(* The end of a transaction that installs its versions, or drops them. *)
LEMMA ReleaseKeepsCounting ==
    ASSUME TypeOK, Phases, Versions, Counting, NEW w \in Workers, Release(w),
           Install(w) \/ UNCHANGED balance
    PROVE  Counting'
  <1> USE EventFacts
  <1>1. /\ pc'[w] = "idle" /\ seen'[w].rows = None
        /\ \A v \in Workers : v # w => /\ pc'[v] = pc[v] /\ event'[v] = event[v]
                                       /\ seen'[v] = seen[v]
        /\ keyShare' = keyShare \ {w}
        /\ \A r \in Rows : holder'[r] = IF holder[r] = w THEN None ELSE holder[r]
    BY DEF Release, TypeOK, NothingSeen
  <1>2. \A r \in Rows : holder[r] # w => (NewRow(r)' <=> NewRow(r))
    BY Installed DEF NewRow
  <1>3. Shares'
    <2>1. ASSUME NEW v \in keyShare'
          PROVE  (Writing(v) /\ periodLock[PeriodOf[event[v]]] \in {None, v})'
      <3>1. v # w /\ v \in Workers /\ Writing(v)
            /\ periodLock[PeriodOf[event[v]]] \in {None, v}
        BY <1>1, <2>1 DEF Counting, Shares, TypeOK
      <3>2. PeriodOf[event[v]] \in Periods
        BY <3>1 DEF Writing, Phases
      <3> QED BY <1>1, <3>1, <3>2 DEF Writing, Release
    <2> QED BY <2>1 DEF Shares
  <1>4. NewRowsShare'
    BY <1>1, <1>2 DEF NewRowsShare, Counting
  <1>5. Counted'
    <2>1. ASSUME NEW v \in Workers, v # w, seen[v].rows # None
          PROVE  RowsFound(v)' = RowsFound(v)
      <3>1. pc[v] \in {"sealing", "revalued"} /\ event'[v] = event[v]
        BY <1>1, <2>1 DEF Counting, Counted
      <3>2. event[v] \in Periods /\ \A a \in Accounts : Row(v, a) \in Rows
        BY <3>1 DEF Phases, Row, Rows
      <3>3. ASSUME NEW a \in Accounts, holder[Row(v, a)] = w
            PROVE  ~NewRow(Row(v, a)) /\ ~NewRow(Row(v, a))'
        <4>1. ~NewRow(Row(v, a))
          BY <2>1, <3>1, <3>3, CloserExcludes
        <4> QED BY <3>1, <3>2, <3>3, <4>1, Installed DEF Row, NewRow
      <3>4. \A a \in Accounts : /\ Row(v, a)' = Row(v, a)
                                /\ holder'[Row(v, a)] = v <=> holder[Row(v, a)] = v
        BY <1>1, <2>1, <3>1, <3>2 DEF Row
      <3>5. \A a \in Accounts : NewRow(Row(v, a))' <=> NewRow(Row(v, a))
        BY <1>2, <3>1, <3>2, <3>3 DEF Row, NewRow
      <3> QED BY <3>4, <3>5 DEF RowsFound
    <2> QED BY <1>1, <2>1 DEF Counted, Counting
  <1> QED BY <1>3, <1>4, <1>5 DEF Counting

(* A transaction that goes on leaves the rows as they are. *)
LEMMA GoingOnKeepsCounting ==
    ASSUME TypeOK, Counting, NEW w \in Workers,
           UNCHANGED <<balance, holder, keyShare>>,
           \A v \in Workers : v # w =>
               /\ pc'[v] = pc[v] /\ event'[v] = event[v] /\ seen'[v] = seen[v]
               /\ v \in keyShare =>
                     periodLock'[PeriodOf[event[v]]] = periodLock[PeriodOf[event[v]]],
           w \in keyShare =>
               /\ Writing(w)' /\ event'[w] = event[w]
               /\ periodLock'[PeriodOf[event[w]]] = periodLock[PeriodOf[event[w]]],
           pc'[w] \notin {"sealing", "revalued"} => seen'[w].rows = None,
           seen'[w].rows # None =>
               /\ event'[w] = event[w]
               /\ seen'[w].rows = RowsFound(w)
    PROVE  Counting'
  <1>1. Shares'
    <2>1. ASSUME NEW v \in keyShare'
          PROVE  Writing(v)' /\ periodLock'[PeriodOf[event'[v]]] \in {None, v}
      <3>1. v \in keyShare /\ v \in Workers
        BY <2>1 DEF TypeOK
      <3>2. Writing(v) /\ periodLock[PeriodOf[event[v]]] \in {None, v}
        BY <3>1 DEF Counting, Shares
      <3> QED BY <3>1, <3>2 DEF Writing
    <2> QED BY <2>1 DEF Shares
  <1>2. NewRowsShare'
    BY DEF NewRowsShare, NewRow, Counting
  <1>3. \A v \in Workers : event'[v] = event[v] => RowsFound(v)' = RowsFound(v)
    BY DEF RowsFound, Row, NewRow
  <1>4. Counted'
    BY <1>3 DEF Counted, Counting
  <1> QED BY <1>1, <1>2, <1>4 DEF Counting

LEMMA CountingStep ==
    ASSUME TypeOK, Phases, Versions, Ordered, Counting, [Next]_vars
    PROVE  Counting'
  <1> USE EventFacts
  <1>1. ASSUME NEW w \in Workers,
               \/ PeriodClosed(w) \/ DuplicateEntry(w) \/ Abort(w)
               \/ Commit(w) \/ CommitClose(w)
        PROVE  Counting'
    <2>1. Release(w) /\ (Install(w) \/ UNCHANGED balance)
      BY <1>1 DEF PeriodClosed, DuplicateEntry, Abort, Commit, CommitClose, tables
    <2> QED BY <2>1, ReleaseKeepsCounting
  <1>2. ASSUME NEW w \in Workers, NEW e \in Postings \cup Reversals, Begin(w, e)
        PROVE  Counting'
    <2>1. w \notin keyShare /\ seen[w].rows = None
      BY <1>2 DEF Begin, Counting, Shares, Counted, Writing
    <2> QED BY <1>2, <2>1, GoingOnKeepsCounting DEF Begin, tables, locks, TypeOK
  <1>3. ASSUME NEW w \in Workers, NEW p \in Periods, BeginClose(w, p)
        PROVE  Counting'
    <2>1. w \notin keyShare /\ seen[w].rows = None
      BY <1>3 DEF BeginClose, Counting, Shares, Counted, Writing
    <2>2. \A v \in keyShare :
              periodLock'[PeriodOf[event[v]]] = periodLock[PeriodOf[event[v]]]
      BY <1>3 DEF BeginClose, PeriodFree, TypeOK
    <2>3. UNCHANGED <<balance, holder, keyShare, seen>>
      BY <1>3 DEF BeginClose, tables
    <2>4. \A v \in Workers : v # w => pc'[v] = pc[v] /\ event'[v] = event[v]
      BY <1>3 DEF BeginClose, TypeOK
    <2> QED BY <2>1, <2>2, <2>3, <2>4, GoingOnKeepsCounting
  <1>4. ASSUME NEW w \in Workers,
               FindPeriod(w) \/ InsertEntry(w) \/ Revalue(w) \/ Snapshot(w)
        PROVE  Counting'
    <2>1. /\ UNCHANGED <<balance, event, holder, periodLock, keyShare>>
          /\ \A v \in Workers : v # w => pc'[v] = pc[v] /\ seen'[v] = seen[v]
      BY <1>4 DEF FindPeriod, InsertEntry, Revalue, Snapshot, tables, locks, TypeOK
    <2>2. seen'[w].rows = seen[w].rows /\ seen[w].rows = None
      <3>1. seen[w].rows = None
        BY <1>4 DEF FindPeriod, InsertEntry, Revalue, Snapshot, Counting, Counted
      <3>2. seen[w] \in Seen
        BY DEF TypeOK
      <3>3. CASE Snapshot(w)
        <4>1. seen'[w] = [seen[w] EXCEPT !.entries = EntriesOf(event[w])]
          BY <3>3 DEF Snapshot, TypeOK
        <4> QED BY <3>1, <3>2, <4>1 DEF Seen
      <3>4. CASE UNCHANGED seen
        BY <3>1, <3>4
      <3> QED BY <1>4, <3>3, <3>4 DEF FindPeriod, InsertEntry, Revalue
    <2>3. w \in keyShare => Writing(w)'
      BY <1>4 DEF FindPeriod, InsertEntry, Revalue, Snapshot, Counting, Shares,
                  Writing, TypeOK
    <2> QED BY <2>1, <2>2, <2>3, GoingOnKeepsCounting
  <1>5. ASSUME NEW w \in Workers, CountRows(w)
        PROVE  Counting'
    <2>1. /\ UNCHANGED <<balance, pc, event, holder, periodLock, keyShare>>
          /\ \A v \in Workers : v # w => seen'[v] = seen[v]
          /\ pc[w] \in {"sealing", "revalued"}
      BY <1>5 DEF CountRows, tables, locks, TypeOK
    <2>2. seen'[w].rows = RowsFound(w)
      <3>1. seen[w] \in Seen /\ seen'[w] = [seen[w] EXCEPT !.rows = RowsFound(w)]
        BY <1>5 DEF CountRows, RowsFound, TypeOK
      <3> QED BY <3>1 DEF Seen
    <2>3. w \in keyShare => Writing(w)'
      BY <2>1 DEF Counting, Shares, Writing
    <2> QED BY <2>1, <2>2, <2>3, GoingOnKeepsCounting
  <1>6. ASSUME NEW w \in Workers, NEW a \in Accounts, UpsertBalance(w, a)
        PROVE  Counting'
    <2> DEFINE row == Row(w, a)
    <2>1. /\ UNCHANGED <<balance, pc, event, periodLock, seen>>
          /\ pc[w] = "upserting" /\ holder[row] = None
          /\ NewRow(row) => periodLock[PeriodOf[event[w]]] \in {None, w}
          /\ keyShare' = IF NewRow(row) THEN keyShare \cup {w} ELSE keyShare
      BY <1>6 DEF UpsertBalance, tables
    <2>2. \A r \in Rows : holder'[r] = IF r = row THEN w ELSE holder[r]
      BY <1>6 DEF UpsertBalance, TypeOK
    <2>3. \A r : NewRow(r)' <=> NewRow(r)
      BY <2>1 DEF NewRow
    <2>4. Shares'
      BY <2>1 DEF Shares, Counting, Writing
    <2>5. NewRowsShare'
      <3> SUFFICES ASSUME NEW v \in Workers, NEW r \in Rows, holder'[r] = v,
                          NewRow(r)
                   PROVE  v \in keyShare'
        BY <2>3 DEF NewRowsShare
      <3> HIDE DEF row
      <3> QED BY <2>1, <2>2 DEF NewRowsShare, Counting
    <2>6. Counted'
      <3> SUFFICES ASSUME NEW v \in Workers, seen[v].rows # None
                   PROVE  RowsFound(v)' = RowsFound(v)
        BY <2>1 DEF Counted, Counting
      <3>1. v # w /\ pc[v] \in {"sealing", "revalued"}
        BY <2>1 DEF Counted, Counting
      <3>2. \A c \in Accounts : Row(v, c)' = Row(v, c) /\ Row(v, c) \in Rows
        BY <2>1, <3>1 DEF Row, Rows, Phases
      <3>3. \A c \in Accounts : holder'[Row(v, c)] = v <=> holder[Row(v, c)] = v
        <4> HIDE DEF row
        <4> QED BY <2>1, <2>2, <3>1, <3>2
      <3>4. \A c \in Accounts : NewRow(Row(v, c))' <=> NewRow(Row(v, c))
        BY <2>1 DEF Row, NewRow
      <3> QED BY <3>2, <3>3, <3>4 DEF RowsFound
    <2> QED BY <2>4, <2>5, <2>6 DEF Counting
  <1>7. CASE UNCHANGED <<balance, pc, event, holder, periodLock, keyShare, seen>>
    BY <1>7 DEF Counting, Shares, NewRowsShare, Counted, RowsFound, Writing, Row,
                NewRow
  <1> QED
    BY <1>1, <1>2, <1>3, <1>4, <1>5, <1>6, <1>7
       DEF Next, Step, vars, tables, locks, PostDirect, RequestReopen,
           ApproveReopen, RejectReopen

-----------------------------------------------------------------------------
(* The theorems.                                                           *)

LEMMA Invariance == Spec => []Inv
  <1>1. Init => Inv
    BY TypeInit, BalancesInit, SealingInit DEF Inv
  <1>2. Inv /\ [Next]_vars => Inv'
    BY TypeStep, BalancesStep, SealingStep DEF Inv, Sealing
  <1> QED BY <1>1, <1>2, PTL DEF Spec

(* A step from a state of the invariant keeps a close or undoes the one an *)
(* approved request names.                                                 *)
LEMMA CloseStep ==
    ASSUME Inv, [Next]_vars, NEW p \in Periods, closed[p]
    PROVE  \/ closed'[p] /\ closeHash'[p] = closeHash[p]
           \/ /\ ~closed'[p]
              /\ \E r \in Requests :
                    /\ request[r].status = "requested" /\ request[r].period = p
                    /\ request[r].prior = closeHash[p]
                    /\ request'[r].status = "approved"
  <1> USE EventFacts DEF Inv
  <1>1. CASE UNCHANGED <<closed, closeHash>>
    BY <1>1
  <1>2. ASSUME NEW w \in Workers, CommitClose(w)
        PROVE  closed'[p] /\ closeHash'[p] = closeHash[p]
    <2>1. event[w] # p
      BY <1>2 DEF CommitClose, Phases, Sealing
    <2> QED BY <1>2, <2>1 DEF CommitClose, TypeOK
  <1>3. ASSUME NEW r \in Requests, ApproveReopen(r), request[r].period # p
        PROVE  closed'[p] /\ closeHash'[p] = closeHash[p]
    BY <1>3 DEF ApproveReopen, TypeOK
  <1>4. ASSUME NEW r \in Requests, ApproveReopen(r), request[r].period = p
        PROVE  /\ ~closed'[p]
               /\ request[r].status = "requested" /\ request[r].prior = closeHash[p]
               /\ request'[r].status = "approved"
    <2>1. /\ request[r].status = "requested"
          /\ request' = [request EXCEPT ![r].status = "approved"]
          /\ closed' = [closed EXCEPT ![p] = FALSE]
      BY <1>4 DEF ApproveReopen
    <2>2. ~closed'[p]
      BY <2>1 DEF TypeOK
    <2>3. request[r].prior = closeHash[p]
      BY <1>4, <2>1 DEF PendingRequestIsCurrent, Sealing
    <2>4. request[r] \in ReopenRequest
      BY DEF TypeOK, ReopenRequest
    <2>5. request'[r] = [request[r] EXCEPT !.status = "approved"]
      BY <2>1 DEF TypeOK
    <2> QED BY <2>1, <2>2, <2>3, <2>4, <2>5 DEF ReopenRequest
  <1>5. \/ UNCHANGED <<closed, closeHash>>
        \/ \E w \in Workers : CommitClose(w)
        \/ \E r \in Requests : ApproveReopen(r)
    BY DEF Next, Step, vars, tables, Begin, BeginClose, FindPeriod, PeriodClosed,
           InsertEntry, DuplicateEntry, UpsertBalance, Revalue, Snapshot, CountRows,
           Abort, Commit, PostDirect, RequestReopen, RejectReopen
  <1> QED BY <1>1, <1>2, <1>3, <1>4, <1>5

(* A close commits what it has counted, its own versions among them. *)
LEMMA SealStep ==
    ASSUME Inv, Counting, [Next]_vars, NEW p \in Periods, ~closed[p], closed'[p]
    PROVE  closeHash'[p].rows = RowsOf(p)'
  <1> USE EventFacts DEF Inv
  <1>1. PICK w \in Workers : CommitClose(w)
    BY DEF Next, Step, vars, tables, Begin, BeginClose, FindPeriod, PeriodClosed,
           InsertEntry, DuplicateEntry, UpsertBalance, Revalue, Snapshot, CountRows,
           Abort, Commit, PostDirect, RequestReopen, ApproveReopen, RejectReopen,
           TypeOK
  <1>2. event[w] = p
    BY <1>1 DEF CommitClose, TypeOK
  <1>3. closeHash'[p].rows = seen[w].rows
    BY <1>1, <1>2 DEF CommitClose, TypeOK
  <1>4. seen[w].rows = RowsFound(w)
    BY <1>1 DEF CommitClose, Counting, Counted
  <1>5. pc[w] \in {"sealing", "revalued"} /\ Install(w)
    BY <1>1 DEF CommitClose
  <1>6. ASSUME NEW a \in Accounts
        PROVE  ~NewRow(<<p, a>>)' <=> (~NewRow(<<p, a>>) \/ holder[<<p, a>>] = w)
    <2>1. PICK r \in Rows : r = <<p, a>>
      BY DEF Rows
    <2>2. ~NewRow(r)' <=> (~NewRow(r) \/ holder[r] = w)
      BY <1>5, Installed DEF Sealing, Balances
    <2> QED BY <2>1, <2>2
  <1>7. \A a \in Accounts : Row(w, a) = <<p, a>>
    BY <1>2 DEF Row
  <1>8. RowsFound(w) = RowsOf(p)'
    BY <1>6, <1>7 DEF RowsFound, RowsOf
  <1> QED BY <1>3, <1>4, <1>8

(* Type correctness. *)
THEOREM TypeCorrect == Spec => []TypeOK
  BY Invariance, PTL DEF Inv

(* No event is ever posted twice. *)
THEOREM NeverPostedTwice == Spec => []PostedOnce
  BY Invariance, PTL DEF Inv, Balances

(* Balances are exactly the sums of the entries posted with them. *)
THEOREM BalancesNeverDrift == Spec => []BalancesAgree
  BY Invariance, PTL DEF Inv, Balances

(* A seal covers posted entries of its period only. *)
THEOREM SealsAreSound == Spec => []SealedEntriesExist
  BY Invariance, PTL DEF Inv, Sealing

(* A pending reopen request is alone and about the current close. *)
THEOREM RequestsAreCurrent == Spec => []PendingRequestIsCurrent
  BY Invariance, PTL DEF Inv, Sealing

(* However the rows of their entries overlap, postings and reversals never *)
(* wait for one another in a circle: each takes its rows in the order of   *)
(* the accounts.                                                           *)
THEOREM NoDeadlock == Spec => []PostingsNeverDeadlock
  <1>1. Init => Ordered
    BY OrderedInit
  <1>2. Inv /\ Ordered /\ [Next]_vars => Ordered'
    BY OrderedStep DEF Inv, Sealing
  <1>3. Inv /\ Ordered => PostingsNeverDeadlock
    BY NoCycle DEF Inv, Balances, Sealing
  <1> QED BY <1>1, <1>2, <1>3, Invariance, PTL DEF Spec

(* A close is undone by the approval of a request that names it, never by  *)
(* another close.                                                          *)
THEOREM ClosesAreFinal == Spec => CloseIsFinal
  <1>1. Inv /\ [Next]_vars =>
            [\A p \in Periods : closed[p] =>
                \/ closed'[p] /\ closeHash'[p] = closeHash[p]
                \/ /\ ~closed'[p]
                   /\ \E r \in Requests :
                         /\ request[r].status = "requested" /\ request[r].period = p
                         /\ request[r].prior = closeHash[p]
                         /\ request'[r].status = "approved"]_vars
    BY CloseStep
  <1> QED BY <1>1, Invariance, PTL DEF Spec, CloseIsFinal

(* A close commits what it has counted: no posting that read the period    *)
(* open adds a balance row between the count and the close's commit.       *)
THEOREM RowsAreSealed == Spec => RowsSealedAtClose
  <1>1. Init => Ordered /\ Counting
    BY OrderedInit, CountingInit
  <1>2. Inv /\ Ordered /\ Counting /\ [Next]_vars => Ordered' /\ Counting'
    BY OrderedStep, CountingStep DEF Inv, Sealing, Balances
  <1>3. Inv /\ Counting /\ [Next]_vars =>
            [\A p \in Periods : ~closed[p] /\ closed'[p] =>
                closeHash'[p].rows = RowsOf(p)']_vars
    BY SealStep
  <1> QED BY <1>1, <1>2, <1>3, Invariance, PTL DEF Spec, RowsSealedAtClose
=============================================================================
