--------------------------- MODULE EventPipeline ---------------------------
(***************************************************************************)
(* An event's whole way between two services: the transaction that writes  *)
(* it into the outbox, the producer's publisher (OutboxPublisher), the     *)
(* JetStream stream they share, and the subscriber's consumer              *)
(* (EventConsumer).  The two sides run at their own pace and fail on their *)
(* own; the stream is all they have in common.                             *)
(***************************************************************************)
EXTENDS Integers, Sequences, FiniteSets

CONSTANTS
    Events,
    Unsendable, Publishers, Limit, PublisherFaults, MaxPublisherFaults,
    Malformed, Unversioned, Foreign, Workers, MaxAttempts, Prefetch,
    ConsumerFaults, MaxConsumerFaults,
    MaxMessages   \* bound: messages in the stream

VARIABLES
    row, createdAt, prior, place, todo, sent, buffer, lost, faultsP,
    stream,
    acked, waiting, queue, pc, cur, attempt, claimed, dlq, applied, faultsC

Producer ==
    INSTANCE OutboxPublisher
        WITH pc <- place, faults <- faultsP,
             FaultKinds <- PublisherFaults, MaxFaults <- MaxPublisherFaults

Consumer ==
    INSTANCE EventConsumer
        WITH faults <- faultsC,
             FaultKinds <- ConsumerFaults, MaxFaults <- MaxConsumerFaults

ASSUME PipelineAssumption ==
    /\ IsFiniteSet(Events) /\ IsFiniteSet(Publishers)
    /\ Unsendable \subseteq Events
    /\ Limit \in Nat \ {0} /\ MaxMessages \in Nat
    /\ PublisherFaults \subseteq {"bus", "db", "crash"}
    /\ MaxPublisherFaults \in Nat
    /\ Malformed \subseteq Events
    /\ Unversioned \subseteq Events \ Malformed
    /\ Foreign \subseteq Events \ (Malformed \cup Unversioned)
    /\ MaxAttempts \in Nat \ {0} /\ Prefetch \in Nat \ {0}
    /\ ConsumerFaults \subseteq {"ack", "crash", "db", "slow"}
    /\ MaxConsumerFaults \in Nat

(* What only one side touches. *)
producerVars == <<row, createdAt, prior, place, todo, sent, buffer, lost, faultsP>>
consumerVars == <<acked, waiting, queue, pc, cur, attempt, claimed, dlq,
                  applied, faultsC>>
vars == <<producerVars, stream, consumerVars>>

Init == Producer!Init /\ Consumer!Init

(* A step of the producer's service.  When it is a flush, the stream grows *)
(* and the consumer's side sees a message arrive.                          *)
ProducerStep ==
    /\ Producer!Next
    /\ stream' # stream => Len(stream) < MaxMessages
    /\ UNCHANGED consumerVars

ConsumerStep ==
    /\ \/ Consumer!ServerStep
       \/ \E w \in Workers : Consumer!WorkerStep(w) \/ Consumer!Crash(w)
    /\ UNCHANGED producerVars

Next == ProducerStep \/ ConsumerStep

Spec == Init /\ [][Next]_vars

(* The fairness of the two sides. *)
FairSpec == Spec /\ Producer!Fairness /\ Consumer!Fairness

-----------------------------------------------------------------------------
(* Properties.                                                             *)

Effects == {e \in Events : applied[e] > 0}

(* End to end the outbox's promise holds of effects: the subscriber acts   *)
(* on an event only if the producer's transaction committed, and an effect *)
(* is not taken back.                                                      *)
Delivery ==
    INSTANCE EventDelivery
        WITH accepted <- Producer!Committed, delivered <- Effects

EffectSpec == Delivery!Spec

(* Some worker has the event in hand. *)
InHand(e) == \E w \in Workers : pc[w] # "idle" /\ Consumer!Event(w) = e

(* Events nobody will ever handle although the producer's table calls them *)
(* published: their messages are acknowledged, no worker has them in hand, *)
(* nothing was applied, skipped or dead-lettered, and no publisher's crash *)
(* took a message of theirs along.                                         *)
Vanished ==
    {e \in Events :
        /\ row[e] = "published" /\ e \notin lost /\ ~ Producer!InFlight(e)
        /\ \A m \in DOMAIN stream : stream[m] = e => m \in acked
        /\ ~ InHand(e) /\ ~ Consumer!Resolved(e)}

(* End to end, an event vanishes only with a fault of the consumer, and a  *)
(* fault takes one event at most: a crash the one in the worker's hands    *)
(* (and none of those fetched ahead), a claim that cannot be removed or a  *)
(* dead letter that cannot be written its own.  Copies, redeliveries and   *)
(* duplicates that are acknowledged while another worker still retries the *)
(* event lose nothing by themselves.                                       *)
VanishedBounded == Cardinality(Vanished) <= faultsC

(* Every committed event the bus can take ends applied, dead-lettered or   *)
(* skipped by the subscriber, as long as no process ends and no guarding   *)
(* statement of the consumer fails.                                        *)
EventuallyHandled ==
    \A e \in Events \ Unsendable :
        e \in Producer!Committed ~> Consumer!Resolved(e)
=============================================================================
