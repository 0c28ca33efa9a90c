----------------------------- MODULE Numbering -----------------------------
(***************************************************************************)
(* The numbering service (modules/numbering): document numbers out of one  *)
(* counter per tenant and entity.  A gap-free sequence hands out           *)
(* reservations, which a second request confirms; a reservation that       *)
(* expires unconfirmed is recycled for a later request.                    *)
(*                                                                         *)
(* An allocation looks its idempotency key up outside its transaction,     *)
(* locks the sequence's row - or inserts it - and writes the number; a     *)
(* confirmation locks the number's row.  Nothing in the schema makes a     *)
(* number unique: only the locks do.  A transaction's writes are applied   *)
(* by its commit, its locks held from the statement that takes them.       *)
(*                                                                         *)
(* One tenant.  Formatting policies and the two outbox events, which share *)
(* the transactions, are left out.                                         *)
(***************************************************************************)
EXTENDS Integers

CONSTANTS
    Entities,  \* the sequences
    Keys,      \* idempotency keys
    Workers    \* requests in progress at a time

VARIABLES
    counter,   \* sequences.current_value, 0 while the row does not exist
    gapFree,   \* sequences.gap_free
    issued,    \* the rows of issued_numbers
    pc,        \* each worker's place
    req,       \* each worker's request
    number,    \* the number each worker's transaction writes
    recycled   \* whether that number is taken from an expired reservation

vars == <<counter, gapFree, issued, pc, req, number, recycled>>

(* "expired" is a reserved row whose expires_at has passed. *)
Statuses == {"reserved", "expired", "confirmed"}

Row == [entity : Entities, number : Nat \ {0}, key : Keys, status : Statuses]

Request == [entity : Entities, key : Keys, gapFree : BOOLEAN]

(* What an idle worker has. *)
NoRequest == [entity |-> "none", key |-> "none", gapFree |-> FALSE]

Places == {"idle", "lock", "upsert", "record", "confirm"}

TypeOK ==
    /\ counter \in [Entities -> Nat]
    /\ gapFree \in [Entities -> BOOLEAN]
    /\ issued \in SUBSET Row
    /\ pc \in [Workers -> Places]
    /\ req \in [Workers -> Request \cup {NoRequest}]
    /\ \A w \in Workers : pc[w] # "idle" => req[w] \in Request
    /\ number \in [Workers -> Nat]
    /\ recycled \in [Workers -> BOOLEAN]

Init ==
    /\ counter = [e \in Entities |-> 0]
    /\ gapFree = [e \in Entities |-> FALSE]
    /\ issued = {}
    /\ pc = [w \in Workers |-> "idle"]
    /\ req = [w \in Workers |-> NoRequest]
    /\ number = [w \in Workers |-> 0]
    /\ recycled = [w \in Workers |-> FALSE]

Goto(w, place) == pc' = [pc EXCEPT ![w] = place]

(* The request is answered; what its worker had in hand is gone. *)
Finish(w) ==
    /\ Goto(w, "idle")
    /\ req' = [req EXCEPT ![w] = NoRequest]
    /\ number' = [number EXCEPT ![w] = 0]
    /\ recycled' = [recycled EXCEPT ![w] = FALSE]

-----------------------------------------------------------------------------
(* Locks, as the places that hold them.                                    *)

(* Mutant: the sequence is read without FOR UPDATE. *)
SequenceLockedMutant(e) == FALSE

SequenceLocked(e) == \E w \in Workers : pc[w] = "record" /\ req[w].entity = e

(* Mutant: the recycler's query does not lock or skip the rows it chooses. *)
RowLockedMutant(r) == FALSE

RowLocked(r) ==
    \E w \in Workers :
        \/ pc[w] = "confirm" /\ req[w].key = r.key
        \/ /\ pc[w] = "record" /\ recycled[w]
           /\ req[w].entity = r.entity /\ number[w] = r.number

(* Mutant: the recycler's query forgets the status. *)
RecyclableMutant(e) == {r \in issued : r.entity = e /\ ~RowLocked(r)}

(* Expired reservations another transaction does not hold (SKIP LOCKED). *)
Recyclable(e) ==
    {r \in issued : r.entity = e /\ r.status = "expired" /\ ~RowLocked(r)}

-----------------------------------------------------------------------------
(* POST /allocate.                                                         *)

(* No row has the key yet; a request that finds one is answered from it. *)
Ask(w, q) ==
    /\ pc[w] = "idle"
    /\ \A r \in issued : r.key # q.key
    /\ req' = [req EXCEPT ![w] = q]
    /\ Goto(w, "lock")
    /\ UNCHANGED <<counter, gapFree, issued, number, recycled>>

(* SELECT ... FOR UPDATE finds no sequence. *)
NoSequence(w) ==
    /\ pc[w] = "lock"
    /\ counter[req[w].entity] = 0
    /\ Goto(w, "upsert")
    /\ UNCHANGED <<counter, gapFree, issued, req, number, recycled>>

(* The locked sequence is gap-free and its smallest expired reservation is *)
(* taken over.                                                             *)
Recycle(w) ==
    LET e == req[w].entity IN
    /\ pc[w] = "lock"
    /\ counter[e] > 0
    /\ ~SequenceLocked(e)
    /\ gapFree[e]
    /\ \E r \in Recyclable(e) :
         /\ \A s \in Recyclable(e) : r.number <= s.number
         /\ number' = [number EXCEPT ![w] = r.number]
    /\ recycled' = [recycled EXCEPT ![w] = TRUE]
    /\ Goto(w, "record")
    /\ UNCHANGED <<counter, gapFree, issued, req>>

(* The locked sequence, or the one the INSERT ... ON CONFLICT creates or   *)
(* advances, gives its next value.                                         *)
Advance(w) ==
    LET e == req[w].entity IN
    /\ \/ pc[w] = "upsert"
       \/ pc[w] = "lock" /\ counter[e] > 0 /\ (gapFree[e] => Recyclable(e) = {})
    /\ ~SequenceLocked(e)
    /\ number' = [number EXCEPT ![w] = counter[e] + 1]
    /\ recycled' = [recycled EXCEPT ![w] = FALSE]
    /\ Goto(w, "record")
    /\ UNCHANGED <<counter, gapFree, issued, req>>

(* The flag of the sequence, the request's own only where it creates it. *)
IsGapFree(w) ==
    IF counter[req[w].entity] = 0 THEN req[w].gapFree
                                  ELSE gapFree[req[w].entity]

(* The row is inserted or, for a recycled number, given the new key; the   *)
(* index on keys lets no second row have it.                               *)
Record(w) ==
    LET e == req[w].entity
        others == IF recycled[w]
                  THEN {r \in issued : ~(r.entity = e /\ r.number = number[w])}
                  ELSE issued
    IN
    /\ pc[w] = "record"
    /\ \A r \in issued : r.key # req[w].key
    /\ issued' = others \cup
           {[entity |-> e, number |-> number[w], key |-> req[w].key,
             status |-> IF IsGapFree(w) THEN "reserved" ELSE "confirmed"]}
    /\ counter' = [counter EXCEPT ![e] = IF recycled[w] THEN @ ELSE number[w]]
    /\ gapFree' = [gapFree EXCEPT ![e] = IsGapFree(w)]
    /\ Finish(w)

(* A statement fails - the key was taken meanwhile, or for any reason - or *)
(* the process ends.  Each statement's error returns from the handler, and *)
(* the transaction dropped by it leaves nothing.                           *)
Abort(w) ==
    /\ pc[w] # "idle"
    /\ Finish(w)
    /\ UNCHANGED <<counter, gapFree, issued>>

-----------------------------------------------------------------------------
(* POST /confirm, and time.                                                *)

(* The row is found by its key alone and locked; a confirmed one is left   *)
(* as it is.  expires_at is not looked at.                                 *)
FindReservation(w, q) ==
    /\ pc[w] = "idle"
    /\ \E r \in issued :
         r.key = q.key /\ r.status # "confirmed" /\ ~RowLocked(r)
    /\ req' = [req EXCEPT ![w] = q]
    /\ Goto(w, "confirm")
    /\ UNCHANGED <<counter, gapFree, issued, number, recycled>>

Confirm(w) ==
    /\ pc[w] = "confirm"
    /\ issued' = {IF r.key = req[w].key THEN [r EXCEPT !.status = "confirmed"]
                                        ELSE r : r \in issued}
    /\ Finish(w)
    /\ UNCHANGED <<counter, gapFree>>

Expire(r) ==
    /\ r \in issued /\ r.status = "reserved"
    /\ issued' = (issued \ {r}) \cup {[r EXCEPT !.status = "expired"]}
    /\ UNCHANGED <<counter, gapFree, pc, req, number, recycled>>

-----------------------------------------------------------------------------
WorkerStep(w) ==
    \/ \E q \in Request : Ask(w, q) \/ FindReservation(w, q)
    \/ NoSequence(w) \/ Recycle(w) \/ Advance(w) \/ Record(w)
    \/ Confirm(w) \/ Abort(w)

Next ==
    \/ \E w \in Workers : WorkerStep(w)
    \/ \E r \in issued : Expire(r)

Spec == Init /\ [][Next]_vars

-----------------------------------------------------------------------------
(* Properties.                                                             *)

(* The numbers of an entity are 1 .. current_value, each issued once:      *)
(* aborted allocations, concurrent creation of the sequence and recycling  *)
(* leave neither a gap nor a duplicate.                                    *)
NoGapNoDuplicate ==
    \A e \in Entities :
        /\ {r.number : r \in {s \in issued : s.entity = e}} = 1 .. counter[e]
        /\ \A r, s \in issued :
             r.entity = e /\ s.entity = e /\ r.number = s.number => r = s

(* A confirmed number stays with the key it was confirmed under, although  *)
(* a recycler may have chosen its row just before.                         *)
ConfirmedKept ==
    [][\A r \in issued : r.status = "confirmed" => r \in issued']_vars
=============================================================================
