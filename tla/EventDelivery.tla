--------------------------- MODULE EventDelivery ---------------------------
(***************************************************************************)
(* What the transactional outbox promises (docs/consumer-guide/CG-EVENTS.md,*)
(* "Outbox Pattern"): an event is delivered only if the transaction that   *)
(* wrote it committed, and what was delivered stays delivered.  Abstract:  *)
(* tables, batches, retries and copies are left to OutboxPublisher.        *)
(***************************************************************************)
CONSTANT Events

VARIABLES
    accepted,   \* events whose transaction committed
    delivered   \* events that have reached the stream

Init == accepted = {} /\ delivered = {}

Accept(e) ==
    /\ e \notin accepted
    /\ accepted' = accepted \cup {e}
    /\ UNCHANGED delivered

Deliver(e) ==
    /\ e \in accepted
    /\ delivered' = delivered \cup {e}
    /\ UNCHANGED accepted

Next == \E e \in Events : Accept(e) \/ Deliver(e)

Spec == Init /\ [][Next]_<<accepted, delivered>>
=============================================================================
