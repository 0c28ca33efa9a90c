-------------------------- MODULE OutboxPublisher --------------------------
(***************************************************************************)
(* The SDK's outbox publisher (platform/platform-sdk/src/publisher.rs).    *)
(*                                                                         *)
(* A handler writes an event row into the outbox table in the transaction  *)
(* of its mutation.  Every publisher task polls the table, publishes the   *)
(* oldest unpublished rows on the bus and marks, in one UPDATE, the ones   *)
(* the bus took.  A deployment may run several replicas of the task over   *)
(* the same table.                                                         *)
(*                                                                         *)
(* The bus is NatsBus (platform/event-bus/src/nats_bus.rs): publish hands  *)
(* the message to the client's connection task and returns; the task       *)
(* writes it to the server later.  Nothing in the platform flushes the     *)
(* client or waits for a JetStream acknowledgement.                        *)
(***************************************************************************)
EXTENDS Integers, Sequences, FiniteSets

CONSTANTS
    Events,       \* event ids (one outbox row, one transaction each)
    Unsendable,   \* events the bus always rejects (e.g. payload too large)
    Publishers,   \* replicas of run_outbox_publisher over the same table
    Limit,        \* LIMIT of the SELECT (100)
    FaultKinds,   \* which faults the environment produces
    MaxFaults     \* bound: number of faults in a behaviour

ASSUME OutboxAssumption ==
    /\ IsFiniteSet(Events) /\ IsFiniteSet(Publishers)
    /\ Unsendable \subseteq Events
    /\ Limit \in Nat \ {0}
    /\ FaultKinds \subseteq {"bus", "db", "crash"}
    /\ MaxFaults \in Nat

VARIABLES
    row,        \* state of each event's row
    createdAt,  \* created_at: the start of its transaction (0: not begun)
    prior,      \* events committed before an event's transaction began
    pc,         \* where each publisher is in publish_batch
    todo,       \* rows of its batch it has not offered to the bus yet
    sent,       \* published_ids: rows of its batch the bus took
    buffer,     \* messages in its NATS client that are not on the wire yet
    stream,     \* messages the server has, in order of arrival
    lost,       \* events of which a buffered message was lost
    faults      \* counter of the bound

tableVars == <<row, createdAt, prior>>
busVars == <<buffer, stream, lost>>
taskVars == <<pc, todo, sent>>
vars == <<tableVars, busVars, taskVars, faults>>

RowStates == {"absent", "open", "aborted", "unpublished", "published"}

TypeOK ==
    /\ row \in [Events -> RowStates]
    /\ createdAt \in [Events -> Nat]
    /\ prior \in [Events -> SUBSET Events]
    /\ pc \in [Publishers -> {"idle", "publish", "mark"}]
    /\ todo \in [Publishers -> SUBSET Events]
    /\ sent \in [Publishers -> SUBSET Events]
    /\ buffer \in [Publishers -> Seq(Events)]
    /\ stream \in Seq(Events)
    /\ lost \in SUBSET Events
    /\ faults \in Nat
    /\ \A p \in Publishers : /\ pc[p] # "publish" => todo[p] = {}
                             /\ pc[p] = "mark" => sent[p] # {}

Init ==
    /\ row = [e \in Events |-> "absent"]
    /\ createdAt = [e \in Events |-> 0]
    /\ prior = [e \in Events |-> {}]
    /\ pc = [p \in Publishers |-> "idle"]
    /\ todo = [p \in Publishers |-> {}]
    /\ sent = [p \in Publishers |-> {}]
    /\ buffer = [p \in Publishers |-> <<>>]
    /\ stream = <<>>
    /\ lost = {}
    /\ faults = 0

(* One fault of kind k, as long as the bound allows one. *)
Fault(k) ==
    /\ k \in FaultKinds
    /\ faults < MaxFaults
    /\ faults' = faults + 1

InSeq(e, s) == \E i \in DOMAIN s : s[i] = e

(* Mutant: rows of open transactions are read. *)
UnpublishedMutant == {e \in Events : row[e] \in {"unpublished", "open"}}

Unpublished == {e \in Events : row[e] = "unpublished"}
Committed == {e \in Events : row[e] \in {"unpublished", "published"}}
Begun == {e \in Events : row[e] # "absent"}

-----------------------------------------------------------------------------
(* The handlers' side: a transaction that inserts the row.  created_at     *)
(* defaults to NOW(), the time the transaction began, so rows may become   *)
(* visible in another order than created_at.                               *)

Begin(e) ==
    /\ row[e] = "absent"
    /\ row' = [row EXCEPT ![e] = "open"]
    /\ createdAt' = [createdAt EXCEPT ![e] = Cardinality(Begun) + 1]
    /\ prior' = [prior EXCEPT ![e] = Committed]
    /\ UNCHANGED <<busVars, taskVars, faults>>

Commit(e) ==
    /\ row[e] = "open"
    /\ row' = [row EXCEPT ![e] = "unpublished"]
    /\ UNCHANGED <<createdAt, prior, busVars, taskVars, faults>>

Abort(e) ==
    /\ row[e] = "open"
    /\ row' = [row EXCEPT ![e] = "aborted"]
    /\ UNCHANGED <<createdAt, prior, busVars, taskVars, faults>>

-----------------------------------------------------------------------------
(* publish_batch.                                                          *)

(* Mutant: ORDER BY created_at DESC. *)
BeforeMutant(S, e) == {f \in S : createdAt[f] > createdAt[e]}

Before(S, e) == {f \in S : createdAt[f] < createdAt[e]}

(* Mutant: LIMIT is one less. *)
FetchedMutant ==
    {e \in Unpublished : Cardinality(Before(Unpublished, e)) < Limit - 1}

(* ... WHERE published_at IS NULL ORDER BY created_at ASC LIMIT 100 *)
Fetched ==
    {e \in Unpublished : Cardinality(Before(Unpublished, e)) < Limit}

(* Phase 1.  An empty batch and a failing SELECT leave the task where it   *)
(* is until the next tick.                                                 *)
Select(p) ==
    /\ pc[p] = "idle"
    /\ Unpublished # {}
    /\ pc' = [pc EXCEPT ![p] = "publish"]
    /\ todo' = [todo EXCEPT ![p] = Fetched]
    /\ sent' = [sent EXCEPT ![p] = {}]
    /\ UNCHANGED <<tableVars, busVars, faults>>

(* The row the loop of phase 2 is at. *)
IsNext(p, e) == e \in todo[p] /\ Before(todo[p], e) = {}

Offer(p, e) ==
    /\ pc[p] = "publish"
    /\ IsNext(p, e)
    /\ todo' = [todo EXCEPT ![p] = @ \ {e}]

(* The client takes the message: bus.publish returns Ok. *)
Publish(p, e) ==
    /\ Offer(p, e)
    /\ e \notin Unsendable
    /\ sent' = [sent EXCEPT ![p] = @ \cup {e}]
    /\ buffer' = [buffer EXCEPT ![p] = Append(@, e)]
    /\ UNCHANGED <<tableVars, pc, stream, lost, faults>>

(* Mutant: a failed publish goes into published_ids all the same. *)
PublishFailsMutant(p, e) ==
    /\ Offer(p, e)
    /\ \/ e \in Unsendable /\ UNCHANGED faults
       \/ e \notin Unsendable /\ Fault("bus")
    /\ sent' = [sent EXCEPT ![p] = @ \cup {e}]
    /\ UNCHANGED <<tableVars, pc, busVars>>

(* bus.publish returns an error: the row is left for the next tick. *)
PublishFails(p, e) ==
    /\ Offer(p, e)
    /\ \/ e \in Unsendable /\ UNCHANGED faults
       \/ e \notin Unsendable /\ Fault("bus")
    /\ UNCHANGED <<tableVars, pc, sent, busVars>>

(* Mutant: only a full batch is marked. *)
EndBatchMutant(p) ==
    /\ pc[p] = "publish"
    /\ todo[p] = {}
    /\ pc' = [pc EXCEPT ![p] = IF Cardinality(sent[p]) < Limit
                                THEN "idle" ELSE "mark"]
    /\ UNCHANGED <<tableVars, todo, sent, busVars, faults>>

(* The loop is over: with nothing published there is no UPDATE. *)
EndBatch(p) ==
    /\ pc[p] = "publish"
    /\ todo[p] = {}
    /\ pc' = [pc EXCEPT ![p] = IF sent[p] = {} THEN "idle" ELSE "mark"]
    /\ UNCHANGED <<tableVars, todo, sent, busVars, faults>>

(* Phase 3.  UPDATE ... WHERE event_id = ANY(sent) AND published_at IS NULL *)
Mark(p) ==
    /\ pc[p] = "mark"
    /\ row' = [e \in Events |->
                  IF e \in sent[p] /\ row[e] = "unpublished"
                  THEN "published" ELSE row[e]]
    /\ pc' = [pc EXCEPT ![p] = "idle"]
    /\ UNCHANGED <<createdAt, prior, todo, sent, busVars, faults>>

(* The UPDATE fails: the whole batch is published again on a later tick. *)
MarkFails(p) ==
    /\ pc[p] = "mark"
    /\ Fault("db")
    /\ pc' = [pc EXCEPT ![p] = "idle"]
    /\ UNCHANGED <<tableVars, todo, sent, busVars>>

-----------------------------------------------------------------------------
(* The NATS client and the process around it.                              *)

(* The connection task writes the oldest buffered message to the server. *)
Flush(p) ==
    /\ buffer[p] # <<>>
    /\ stream' = Append(stream, Head(buffer[p]))
    /\ buffer' = [buffer EXCEPT ![p] = Tail(@)]
    /\ UNCHANGED <<tableVars, taskVars, lost, faults>>

(* The process ends - a crash, or a shutdown, which drains the batch but   *)
(* not the client - and starts again.                                      *)
Crash(p) ==
    /\ Fault("crash")
    /\ lost' = lost \cup {e \in Events : InSeq(e, buffer[p])}
    /\ buffer' = [buffer EXCEPT ![p] = <<>>]
    /\ pc' = [pc EXCEPT ![p] = "idle"]
    /\ todo' = [todo EXCEPT ![p] = {}]
    /\ sent' = [sent EXCEPT ![p] = {}]
    /\ UNCHANGED <<tableVars, stream>>

-----------------------------------------------------------------------------
PublisherStep(p) ==
    \/ Select(p) \/ EndBatch(p) \/ Mark(p) \/ Flush(p)
    \/ \E e \in Events : Publish(p, e) \/ PublishFails(p, e)
    \/ MarkFails(p) \/ Crash(p)

TransactionStep(e) == Begin(e) \/ Commit(e) \/ Abort(e)

Next ==
    \/ \E e \in Events : TransactionStep(e)
    \/ \E p \in Publishers : PublisherStep(p)

Spec == Init /\ [][Next]_vars

(* The interval ticks for ever, publish_batch returns (its two statements  *)
(* and each publish end in a result) and the connection task keeps         *)
(* writing.  Transactions need not end: nothing is assumed of them.        *)
Fairness ==
    \A p \in Publishers :
        WF_vars(Select(p) \/ EndBatch(p) \/ Mark(p)
                \/ \E e \in Events : Publish(p, e) \/ PublishFails(p, e))
        /\ WF_vars(Flush(p))

FairSpec == Spec /\ Fairness

-----------------------------------------------------------------------------
(* Properties.                                                             *)

InFlight(e) == \E p \in Publishers : InSeq(e, buffer[p])

(* A row that is marked published was handed over: its message is in the   *)
(* stream or still buffered, unless a client lost a message of it.  The    *)
(* mark is set from published_ids, several statements later and possibly   *)
(* by another replica than the one whose message arrives.                  *)
MarkedWasSent ==
    \A e \in Events :
        row[e] = "published" =>
            InSeq(e, stream) \/ InFlight(e) \/ e \in lost

(* Nobody outside sees an event whose transaction has not committed: not   *)
(* in the stream and not on its way there.                                 *)
OnlyCommittedSent ==
    \A e \in Events : InSeq(e, stream) \/ InFlight(e) => e \in Committed

Copies(e) == Cardinality({i \in DOMAIN stream : stream[i] = e})

(* Copies are bounded: every replica publishes an event at most once,      *)
(* plus once more for each failed UPDATE or crash.                         *)
CopiesBounded ==
    \A e \in Events : Copies(e) <= Cardinality(Publishers) + faults

(* Cause before effect: with one publisher and no failing publish, an      *)
(* event reaches the stream after every event that was committed before    *)
(* its own transaction began.  ORDER BY created_at is what provides it.    *)
CauseFirst ==
    \A e \in Events, i \in DOMAIN stream :
        stream[i] = e =>
            \A f \in prior[e] \ Unsendable :
                \E j \in 1 .. i : stream[j] = f

Delivery ==
    INSTANCE EventDelivery
        WITH accepted <- Committed,
             delivered <- {e \in Events : InSeq(e, stream)}

(* The publisher implements the outbox's promise. *)
DeliverySpec == Delivery!Spec

(* Every committed event the bus can take is delivered in the end, even    *)
(* with rejected rows, failing statements and failing publishes around it: *)
(* a skipped row is fetched again, and rows that can never be sent do not  *)
(* crowd it out of the batch as long as there are fewer than Limit.        *)
EventuallyDelivered ==
    \A e \in Events \ Unsendable :
        row[e] = "unpublished" ~> InSeq(e, stream)

(* What the bus documents (platform/event-bus/README.md:24, "At-least-once *)
(* delivery"): a marked event is in the stream or on its way.              *)
AtLeastOnce ==
    \A e \in Events : row[e] = "published" => InSeq(e, stream) \/ InFlight(e)
=============================================================================
