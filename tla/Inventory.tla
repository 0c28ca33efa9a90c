----------------------------- MODULE Inventory -----------------------------
(***************************************************************************)
(* Stock of one item in one warehouse (modules/inventory): receipts,       *)
(* reservations with their release or fulfilment, and issues.              *)
(*                                                                         *)
(* Three things describe the stock: the FIFO layers (inventory_layers),    *)
(* the warehouse's row of item_on_hand, a projection of quantities on hand *)
(* and reserved, and the rows of inventory_reservations, a primary one per *)
(* reservation and compensating ones.  A reservation locks the projection  *)
(* and checks it; an issue locks the layers and checks against the         *)
(* projection without locking it; a release or a fulfilment checks outside *)
(* its transaction that no compensating row is there.                      *)
(*                                                                         *)
(* A reservation is named by the idempotency key of its request.  The      *)
(* quantities of the null-location row are modelled, where on hand and     *)
(* available agree; units, costs, lots, serials, locations and the outbox  *)
(* events of the same transactions are left out.                           *)
(***************************************************************************)
EXTENDS Integers, Functions

CONSTANTS
    Keys,        \* idempotency keys
    Workers,     \* requests in progress at a time
    MaxReceived  \* bound: units received

VARIABLES
    layers,       \* sum of quantity_remaining over the FIFO layers
    onHand,       \* item_on_hand.quantity_on_hand
    reserved,     \* item_on_hand.quantity_reserved
    primary,      \* quantity of each reservation's primary row, 0 without one
    compensated,  \* how many compensating rows refer to it
    returned,     \* the sum of their quantities
    stored,       \* inv_idempotency_keys
    received,     \* counter of the bound
    pc, job       \* each worker's place and request

stockVars == <<layers, onHand, reserved>>
rowVars == <<primary, compensated, returned>>
vars == <<stockVars, rowVars, stored, received, pc, job>>

Places == {"idle", "reserve", "release", "fulfill", "issue"}

(* A request: its key, the reservation it is about, its quantity and, for  *)
(* an issue, the sum of the layers it has locked.                          *)
NoJob == [key |-> "none", of |-> "none", quantity |-> 0, seen |-> 0]
Job == [key : Keys, of : Keys, quantity : Nat, seen : Nat]

TypeOK ==
    /\ layers \in Nat /\ onHand \in Nat /\ reserved \in Nat
    /\ primary \in [Keys -> Nat]
    /\ compensated \in [Keys -> Nat]
    /\ returned \in [Keys -> Nat]
    /\ stored \in SUBSET Keys
    /\ received \in Nat
    /\ pc \in [Workers -> Places]
    /\ job \in [Workers -> Job \cup {NoJob}]
    /\ \A w \in Workers : pc[w] # "idle" => job[w] \in Job

Init ==
    /\ layers = 0 /\ onHand = 0 /\ reserved = 0
    /\ primary = [k \in Keys |-> 0]
    /\ compensated = [k \in Keys |-> 0]
    /\ returned = [k \in Keys |-> 0]
    /\ stored = {}
    /\ received = 0
    /\ pc = [w \in Workers |-> "idle"]
    /\ job = [w \in Workers |-> NoJob]

Begin(w, place, j) ==
    /\ pc[w] = "idle"
    /\ pc' = [pc EXCEPT ![w] = place]
    /\ job' = [job EXCEPT ![w] = j]

Finish(w) ==
    /\ pc' = [pc EXCEPT ![w] = "idle"]
    /\ job' = [job EXCEPT ![w] = NoJob]

(* The commit stores the key; the primary key of the table lets one do so. *)
StoreKey(w) ==
    /\ job[w].key \notin stored
    /\ stored' = stored \cup {job[w].key}

(* Mutant: quantity_available is read without FOR UPDATE. *)
RowLockedMutant == FALSE

(* A reservation holds the projection's row from its check to its commit,  *)
(* an issue the layers.                                                    *)
RowLocked == \E w \in Workers : pc[w] = "reserve"
LayersLocked == \E w \in Workers : pc[w] = "issue"

(* Mutant: the projection is decremented without GREATEST(..., 0). *)
FloorMutant(n) == n

Floor(n) == IF n < 0 THEN 0 ELSE n

-----------------------------------------------------------------------------
(* process_receipt: a layer and the projection in one transaction. *)
Receive(n) ==
    /\ received + n <= MaxReceived
    /\ ~RowLocked
    /\ layers' = layers + n
    /\ onHand' = onHand + n
    /\ received' = received + n
    /\ UNCHANGED <<reserved, rowVars, stored, pc, job>>

(* process_reserve: lock and check, then insert and increment. *)
CheckAvailable(w, k, n) ==
    /\ k \notin stored
    /\ ~RowLocked
    /\ n <= onHand - reserved
    /\ Begin(w, "reserve", [key |-> k, of |-> k, quantity |-> n, seen |-> 0])
    /\ UNCHANGED <<stockVars, rowVars, stored, received>>

Reserve(w) ==
    /\ pc[w] = "reserve"
    /\ StoreKey(w)
    /\ primary' = [primary EXCEPT ![job[w].of] = job[w].quantity]
    /\ reserved' = reserved + job[w].quantity
    /\ Finish(w)
    /\ UNCHANGED <<layers, onHand, compensated, returned, received>>

(* process_release and process_fulfill read, on the pool, the primary row  *)
(* and whether a compensating one refers to it.  A fulfilment may be for   *)
(* less than what is reserved.                                             *)
Open(r) == primary[r] > 0 /\ compensated[r] = 0

CheckOpen(w, k, r, place, n) ==
    /\ k \notin stored
    /\ Open(r)
    /\ n \in 1 .. primary[r]
    /\ place = "release" => n = primary[r]
    /\ Begin(w, place, [key |-> k, of |-> r, quantity |-> n, seen |-> 0])
    /\ UNCHANGED <<stockVars, rowVars, stored, received>>

(* Mutant: a fulfilment takes the whole hold while its row gives back a part. *)
CompensateMutant(w) ==
    /\ StoreKey(w)
    /\ compensated' = [compensated EXCEPT ![job[w].of] = @ + 1]
    /\ returned' = [returned EXCEPT ![job[w].of] = @ + job[w].quantity]
    /\ ~RowLocked
    /\ reserved' = Floor(reserved - primary[job[w].of])
    /\ Finish(w)

Compensate(w) ==
    /\ StoreKey(w)
    /\ compensated' = [compensated EXCEPT ![job[w].of] = @ + 1]
    /\ returned' = [returned EXCEPT ![job[w].of] = @ + job[w].quantity]
    /\ ~RowLocked
    /\ reserved' = Floor(reserved - job[w].quantity)
    /\ Finish(w)

Release(w) ==
    /\ pc[w] = "release"
    /\ Compensate(w)
    /\ UNCHANGED <<layers, onHand, primary, received>>

(* Physical stock leaves: the projection says so, the layers do not. *)
Fulfill(w) ==
    /\ pc[w] = "fulfill"
    /\ Compensate(w)
    /\ onHand' = Floor(onHand - job[w].quantity)
    /\ UNCHANGED <<layers, primary, received>>

(* process_issue: lock and sum the layers, check against the projection's  *)
(* quantity_reserved, consume, and overwrite the projection's on-hand.     *)
(* quantity_reserved is read after the layers are locked, without a lock   *)
(* of its own: what moves it between the two is as if it came before them. *)
CheckLayers(w, k, n) ==
    /\ k \notin stored
    /\ ~LayersLocked
    /\ n <= layers - reserved
    /\ Begin(w, "issue", [key |-> k, of |-> k, quantity |-> n, seen |-> layers])
    /\ UNCHANGED <<stockVars, rowVars, stored, received>>

Issue(w) ==
    /\ pc[w] = "issue"
    /\ StoreKey(w)
    /\ ~RowLocked
    /\ layers' = layers - job[w].quantity
    /\ onHand' = job[w].seen - job[w].quantity
    /\ Finish(w)
    /\ UNCHANGED <<reserved, rowVars, received>>

(* A statement fails, or the process ends: nothing is committed. *)
Abort(w) ==
    /\ pc[w] # "idle"
    /\ Finish(w)
    /\ UNCHANGED <<stockVars, rowVars, stored, received>>

-----------------------------------------------------------------------------
Quantities == 1 .. MaxReceived

Request(w) ==
    \E k \in Keys, n \in Quantities :
        \/ CheckAvailable(w, k, n)
        \/ CheckLayers(w, k, n)
        \/ \E r \in Keys, place \in {"release", "fulfill"} :
             CheckOpen(w, k, r, place, n)

Next ==
    \/ \E n \in Quantities : Receive(n)
    \/ \E w \in Workers :
         \/ Request(w) \/ Abort(w)
         \/ Reserve(w) \/ Release(w) \/ Fulfill(w) \/ Issue(w)

Spec == Init /\ [][Next]_vars

-----------------------------------------------------------------------------
(* Properties.                                                             *)

(* A reservation is granted only against stock that is there: at its       *)
(* commit, and not only at its check, what is reserved is on hand.         *)
(* (process_reserve's Step 0.)                                             *)
ReservationCovered ==
    [][\A k \in Keys :
         primary[k] = 0 /\ primary'[k] > 0 => reserved' <= onHand']_vars

(* The projection is the sum of the rows: as long as no reservation is     *)
(* compensated twice, quantity_reserved is what the primary rows reserve   *)
(* less what the compensating rows give back, across concurrent requests,  *)
(* partial fulfilments, retries and failures.                              *)
ReservedIsSumOfRows ==
    (\A k \in Keys : compensated[k] <= 1) =>
        reserved = SumFunctionOnSet([k \in Keys |-> primary[k] - returned[k]], Keys)
=============================================================================
