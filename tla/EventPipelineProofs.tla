------------------------ MODULE EventPipelineProofs ------------------------
(***************************************************************************)
(* Proofs about EventPipeline.  The composition implements the producer's  *)
(* and the consumer's specification, so what was proved of each side holds *)
(* of the whole; the two meet in one fact, that what a worker has in hand  *)
(* stands in the stream and is therefore committed.                        *)
(***************************************************************************)
EXTENDS EventPipeline, FiniteSetTheorems, TLAPS

P ==
    INSTANCE OutboxPublisherProofs
        WITH pc <- place, faults <- faultsP,
             FaultKinds <- PublisherFaults, MaxFaults <- MaxPublisherFaults

C ==
    INSTANCE EventConsumerProofs
        WITH faults <- faultsC,
             FaultKinds <- ConsumerFaults, MaxFaults <- MaxConsumerFaults

(* The instances above and the ones of EventPipeline define the same. *)

LEMMA Assumptions == P!OutboxAssumption /\ C!ConsumerAssumption
BY PipelineAssumption
DEF P!OutboxAssumption, C!ConsumerAssumption, IsFiniteSet, P!IsFiniteSet

LEMMA SameProducer ==
    /\ Producer!Init <=> P!Init
    /\ Producer!Next <=> P!Next
    /\ Producer!Committed = P!Committed
<1>1. \A e \in Events : Producer!Begin(e) <=> P!Begin(e)
  BY DEF Producer!Begin, Producer!Begun, Producer!Committed,
         Producer!busVars, Producer!taskVars, Producer!Cardinality,
         Producer!IsFiniteSet, P!Begin, P!Begun, P!Committed,
         P!busVars, P!taskVars, P!Cardinality, P!IsFiniteSet
<1>2. \A e \in Events : Producer!Commit(e) <=> P!Commit(e)
  BY DEF Producer!Commit, Producer!busVars, Producer!taskVars,
         P!Commit, P!busVars, P!taskVars
<1>3. \A e \in Events : Producer!Abort(e) <=> P!Abort(e)
  BY DEF Producer!Abort, Producer!busVars, Producer!taskVars,
         P!Abort, P!busVars, P!taskVars
<1>4. \A p \in Publishers : Producer!Select(p) <=> P!Select(p)
  BY DEF Producer!Select, Producer!Fetched, Producer!Unpublished,
         Producer!Before, Producer!tableVars, Producer!busVars,
         Producer!Cardinality, Producer!IsFiniteSet, P!Select,
         P!Fetched, P!Unpublished, P!Before, P!tableVars, P!busVars,
         P!Cardinality, P!IsFiniteSet
<1>5. \A p \in Publishers, e \in Events : Producer!Publish(p, e) <=> P!Publish(p, e)
  BY DEF Producer!Publish, Producer!Offer, Producer!IsNext,
         Producer!Before, Producer!tableVars, P!Publish, P!Offer,
         P!IsNext, P!Before, P!tableVars
<1>6. \A p \in Publishers, e \in Events : Producer!PublishFails(p, e) <=> P!PublishFails(p, e)
  BY DEF Producer!PublishFails, Producer!Offer, Producer!IsNext,
         Producer!Before, Producer!Fault, Producer!tableVars,
         Producer!busVars, P!PublishFails, P!Offer, P!IsNext,
         P!Before, P!Fault, P!tableVars, P!busVars
<1>7. \A p \in Publishers : Producer!EndBatch(p) <=> P!EndBatch(p)
  BY DEF Producer!EndBatch, Producer!tableVars, Producer!busVars,
         P!EndBatch, P!tableVars, P!busVars
<1>8. \A p \in Publishers : Producer!Mark(p) <=> P!Mark(p)
  BY DEF Producer!Mark, Producer!busVars, P!Mark, P!busVars
<1>9. \A p \in Publishers : Producer!MarkFails(p) <=> P!MarkFails(p)
  BY DEF Producer!MarkFails, Producer!Fault, Producer!tableVars,
         Producer!busVars, P!MarkFails, P!Fault, P!tableVars,
         P!busVars
<1>10. \A p \in Publishers : Producer!Flush(p) <=> P!Flush(p)
  BY DEF Producer!Flush, Producer!tableVars, Producer!taskVars,
         P!Flush, P!tableVars, P!taskVars
<1>11. \A p \in Publishers : Producer!Crash(p) <=> P!Crash(p)
  BY DEF Producer!Crash, Producer!Fault, Producer!InSeq,
         Producer!tableVars, P!Crash, P!Fault, P!InSeq, P!tableVars
<1>12. Producer!Next <=> P!Next
  BY <1>1, <1>2, <1>3, <1>4, <1>5, <1>6, <1>7, <1>8, <1>9, <1>10, <1>11
  DEF Producer!Next, Producer!TransactionStep,
      Producer!PublisherStep, P!Next, P!TransactionStep,
      P!PublisherStep
<1>13. Producer!Init <=> P!Init
  BY DEF Producer!Init, P!Init
<1>14. Producer!Committed = P!Committed
  BY DEF Producer!Committed, P!Committed
<1> QED BY <1>12, <1>13, <1>14

LEMMA SameConsumer ==
    /\ Consumer!Init <=> C!Init
    /\ Consumer!ServerStep <=> C!ServerStep
    /\ \A w \in Workers : Consumer!WorkerStep(w) <=> C!WorkerStep(w)
    /\ \A w \in Workers : Consumer!Crash(w) <=> C!Crash(w)
<1>1. Consumer!Init <=> C!Init
  BY DEF Consumer!Init, C!Init
<1>2. Consumer!ServerStep <=> C!ServerStep
  BY DEF Consumer!ServerStep, Consumer!Deliver, Consumer!Expire,
         Consumer!Held, Consumer!Fault, Consumer!Positions,
         Consumer!dbVars, Consumer!workerVars, C!ServerStep,
         C!Deliver, C!Expire, C!Held, C!Fault, C!Positions, C!dbVars,
         C!workerVars
<1>3. \A w \in Workers : Consumer!Crash(w) <=> C!Crash(w)
  BY DEF Consumer!Crash, Consumer!Fault, Consumer!Goto,
         Consumer!serverVars, Consumer!dbVars, C!Crash, C!Fault,
         C!Goto, C!serverVars, C!dbVars
<1>4. \A w \in Workers : Consumer!WorkerStep(w) <=> C!WorkerStep(w)
  BY DEF Consumer!WorkerStep, Consumer!Receive, Consumer!Claim,
         Consumer!ClaimFails, Consumer!NextAttempt,
         Consumer!HandleOk, Consumer!HandleTransient,
         Consumer!HandlePermanent, Consumer!Skip, Consumer!Poison,
         Consumer!Fatal, Consumer!Exhaust, Consumer!DeadLetter,
         Consumer!WriteDlq, Consumer!Unclaim, Consumer!Ack,
         Consumer!Event, Consumer!Routable, Consumer!Fault,
         Consumer!Goto, Consumer!serverVars, Consumer!dbVars,
         C!WorkerStep, C!Receive, C!Claim, C!ClaimFails,
         C!NextAttempt, C!HandleOk, C!HandleTransient,
         C!HandlePermanent, C!Skip, C!Poison, C!Fatal, C!Exhaust,
         C!DeadLetter, C!WriteDlq, C!Unclaim, C!Ack, C!Event,
         C!Routable, C!Fault, C!Goto, C!serverVars, C!dbVars
<1> QED BY <1>1, <1>2, <1>3, <1>4

-----------------------------------------------------------------------------
(* Each side runs by its own specification.                                *)

LEMMA ProducerSpec == Spec => P!Spec
<1>1. Init => P!Init
  BY SameProducer DEF Init
<1>2. [Next]_vars => [P!Next]_(P!vars)
  <2> SUFFICES ASSUME [Next]_vars PROVE P!Next \/ UNCHANGED P!vars
    OBVIOUS
  <2>1. CASE ProducerStep
    BY <2>1, SameProducer DEF ProducerStep
  <2>2. CASE ConsumerStep
    <3>1. stream' = stream
      BY <2>2
      DEF ConsumerStep, Consumer!ServerStep, Consumer!Deliver, Consumer!Expire,
          Consumer!WorkerStep, Consumer!Receive, Consumer!Claim,
          Consumer!ClaimFails, Consumer!HandleOk, Consumer!HandleTransient,
          Consumer!HandlePermanent, Consumer!Skip, Consumer!Poison,
          Consumer!Fatal, Consumer!Exhaust, Consumer!DeadLetter,
          Consumer!Unclaim, Consumer!Ack, Consumer!Crash, Consumer!serverVars
    <3> QED BY <2>2, <3>1 DEF ConsumerStep, producerVars, P!vars, P!tableVars,
                              P!busVars, P!taskVars
  <2>3. CASE UNCHANGED vars
    BY <2>3 DEF vars, producerVars, P!vars, P!tableVars, P!busVars, P!taskVars
  <2> QED BY <2>1, <2>2, <2>3 DEF Next
<1> QED BY <1>1, <1>2, PTL DEF Spec, P!Spec

LEMMA ProducerInvariant == Spec => [](P!TypeOK /\ P!OnlyCommittedSent)
BY ProducerSpec, Assumptions, P!TypeCorrect, P!UncommittedNeverSent, PTL

(* What the producer's side does to the stream is a message arriving. *)
LEMMA ProducerProduces ==
    ASSUME P!TypeOK, ProducerStep
    PROVE  (\E e \in Events : C!Produce(e)) \/ UNCHANGED C!vars
<1>1. P!Next
  BY SameProducer DEF ProducerStep
<1>2. CASE stream' = stream
  BY <1>2 DEF ProducerStep, consumerVars, C!vars, C!serverVars, C!dbVars,
              C!workerVars
<1>3. CASE stream' # stream
  <2>1. PICK p \in Publishers : P!Flush(p)
    BY <1>1, <1>3
    DEF P!Next, P!TransactionStep, P!PublisherStep, P!Begin, P!Commit, P!Abort,
        P!Select, P!Publish, P!PublishFails, P!Offer, P!EndBatch, P!Mark,
        P!MarkFails, P!Crash, P!busVars
  <2>2. Head(buffer[p]) \in Events /\ stream' = Append(stream, Head(buffer[p]))
    BY <2>1 DEF P!Flush, P!TypeOK
  <2>3. C!Produce(Head(buffer[p]))
    BY <2>2, <1>3 DEF ProducerStep, consumerVars, C!Produce, C!dbVars,
                      C!workerVars
  <2> QED BY <2>2, <2>3
<1> QED BY <1>2, <1>3

LEMMA ConsumerSpec == Spec => C!Spec
<1>1. Init => C!Init
  BY SameConsumer DEF Init
<1>2. P!TypeOK /\ [Next]_vars => [C!Next]_(C!vars)
  <2> SUFFICES ASSUME P!TypeOK, [Next]_vars PROVE C!Next \/ UNCHANGED C!vars
    OBVIOUS
  <2>1. CASE ProducerStep
    BY <2>1, ProducerProduces DEF C!Next
  <2>2. CASE ConsumerStep
    BY <2>2, SameConsumer DEF ConsumerStep, C!Next
  <2>3. CASE UNCHANGED vars
    BY <2>3 DEF vars, consumerVars, C!vars, C!serverVars, C!dbVars, C!workerVars
  <2> QED BY <2>1, <2>2, <2>3 DEF Next
<1> QED BY <1>1, <1>2, ProducerInvariant, PTL DEF Spec, C!Spec

LEMMA ConsumerInvariant == Spec => [](C!TypeOK /\ C!AppliedOnce)
BY ConsumerSpec, Assumptions, C!TypeCorrect, C!AppliedAtMostOnce, PTL

-----------------------------------------------------------------------------
(* What has vanished stands in the stream, by the producer's promise, and   *)
(* is dead there.                                                          *)
LEMMA VanishedDead ==
    ASSUME P!MarkedWasSent
    PROVE  Vanished \subseteq C!Dead
<1> SUFFICES ASSUME NEW e \in Vanished PROVE e \in C!Dead
  OBVIOUS
<1>1. /\ e \in Events /\ row[e] = "published" /\ e \notin lost
      /\ ~ P!InFlight(e)
      /\ \A m \in DOMAIN stream : stream[m] = e => m \in acked
      /\ \A w \in Workers : ~ (pc[w] # "idle" /\ C!Event(w) = e)
      /\ ~ C!Resolved(e)
  BY DEF Vanished, InHand, Producer!InFlight, Producer!InSeq, P!InFlight,
         P!InSeq, Consumer!Event, C!Event, Consumer!Resolved, C!Resolved
<1>2. \E m \in DOMAIN stream : stream[m] = e
  BY <1>1 DEF P!MarkedWasSent, P!InSeq
<1>3. ~ C!Alive(e)
  BY <1>1 DEF C!Alive, C!Working, C!Open, C!Positions
<1> QED BY <1>1, <1>2, <1>3 DEF C!Dead, C!InStream, C!Positions

(* From the outbox row to the subscriber, over any faults of both sides,   *)
(* an event vanishes only with a fault of the consumer, which takes one    *)
(* event at most.                                                          *)
THEOREM VanishedAreBounded == Spec => []VanishedBounded
<1>1. P!MarkedWasSent /\ C!DeadInv => VanishedBounded
  <2> SUFFICES ASSUME P!MarkedWasSent, C!DeadInv PROVE VanishedBounded
    OBVIOUS
  <2>1. IsFiniteSet(C!Dead) /\ Cardinality(C!Dead) <= faultsC
    BY DEF C!DeadInv, C!IsFiniteSet, IsFiniteSet, C!Cardinality, Cardinality
  <2>2. IsFiniteSet(Vanished) /\ Cardinality(Vanished) <= Cardinality(C!Dead)
    BY <2>1, VanishedDead, FS_Subset
  <2>3. Cardinality(Vanished) \in Nat /\ Cardinality(C!Dead) \in Nat
    BY <2>1, <2>2, FS_CardinalityType
  <2>4. faultsC \in Nat
    BY DEF C!DeadInv, C!TypeOK
  <2> QED BY <2>1, <2>2, <2>3, <2>4 DEF VanishedBounded
<1> QED BY <1>1, ProducerSpec, ConsumerSpec, Assumptions, PTL,
           P!MarkedWasHandedOver, C!DeadInvariant

(* End to end, only committed events have effects, and effects stay.       *)
THEOREM ImplementsDelivery == Spec => EffectSpec
<1> DEFINE Inv == /\ P!TypeOK /\ P!OnlyCommittedSent
                  /\ C!TypeOK /\ C!AppliedOnce
           Committed == Producer!Committed
<1>1. Init => Delivery!Init
  BY DEF Init, Delivery!Init, Effects, Producer!Init, Consumer!Init,
         Producer!Committed
<1>2. Inv /\ [Next]_vars => [Delivery!Next]_<<Committed, Effects>>
  <2> SUFFICES ASSUME Inv, [Next]_vars
               PROVE  Delivery!Next \/ (Committed' = Committed /\ Effects' = Effects)
    OBVIOUS
  <2>1. CASE ProducerStep
    <3>1. Effects' = Effects
      BY <2>1 DEF ProducerStep, consumerVars, Effects
    <3>2. Committed' = Committed \/ \E e \in Events : P!Commit(e)
      BY <2>1, SameProducer
      DEF ProducerStep, P!TypeOK, P!Next, P!TransactionStep, P!PublisherStep,
          P!Begin, P!Abort, P!Select, P!Publish, P!PublishFails, P!Offer,
          P!EndBatch, P!Mark, P!MarkFails, P!Flush, P!Crash, P!tableVars,
          Producer!Committed
    <3>3. ASSUME NEW e \in Events, P!Commit(e) PROVE Delivery!Next
      <4>1. e \notin Committed /\ Committed' = Committed \cup {e}
        BY <3>3 DEF P!Commit, P!TypeOK, Producer!Committed
      <4>2. Delivery!Accept(e)
        BY <4>1, <3>1 DEF Delivery!Accept
      <4> QED BY <4>2 DEF Delivery!Next
    <3> QED BY <3>1, <3>2, <3>3
  <2>2. CASE ConsumerStep
    <3>1. Committed' = Committed
      BY <2>2 DEF ConsumerStep, producerVars, Producer!Committed
    <3>2. [C!Next]_(C!vars)
      BY <2>2, SameConsumer DEF ConsumerStep, C!Next
    <3>3. \A e \in Events : applied'[e] # applied[e] =>
             applied'[e] = applied[e] + 1 /\ e \in Committed
      <4> SUFFICES ASSUME NEW e \in Events, applied'[e] # applied[e]
                   PROVE  applied'[e] = applied[e] + 1 /\ e \in Committed
        OBVIOUS
      <4>1. /\ \E m \in DOMAIN stream : stream[m] = e
            /\ applied'[e] = applied[e] + 1
        BY <3>2, Assumptions, C!AppliedFromStream
      <4>2. e \in Committed
        BY <4>1, SameProducer DEF P!OnlyCommittedSent, P!InSeq
      <4> QED BY <4>1, <4>2
    <3>4. applied \in [Events -> Nat]
      BY DEF C!TypeOK
    <3>5. CASE Effects' = Effects
      BY <3>1, <3>5
    <3>6. CASE Effects' # Effects
      <4>1. PICK w \in Workers : C!HandleOk(w)
        BY <3>2, <3>6
        DEF Effects, C!Next, C!ServerStep, C!WorkerStep, C!Produce, C!Deliver,
            C!Expire, C!Receive, C!Claim, C!ClaimFails, C!HandleTransient,
            C!HandlePermanent, C!Skip, C!Poison, C!Fatal, C!Exhaust,
            C!DeadLetter, C!Unclaim, C!Ack, C!Crash, C!vars, C!dbVars
      <4> DEFINE e == C!Event(w)
      <4>2. applied' = [applied EXCEPT ![e] = @ + 1]
        BY <4>1 DEF C!HandleOk
      <4>3. PICK f \in Events : applied'[f] # applied[f]
        BY <3>6 DEF Effects
      <4>4. f = e /\ f \in Committed /\ Effects' = Effects \cup {f}
        BY <3>3, <3>4, <4>2, <4>3 DEF Effects
      <4>5. Delivery!Deliver(f)
        BY <4>4, <3>1 DEF Delivery!Deliver
      <4> QED BY <4>5 DEF Delivery!Next
    <3> QED BY <3>5, <3>6
  <2>3. CASE UNCHANGED vars
    BY <2>3 DEF vars, producerVars, consumerVars, Effects, Producer!Committed
  <2> QED BY <2>1, <2>2, <2>3 DEF Next
<1> QED BY <1>1, <1>2, ProducerInvariant, ConsumerInvariant, PTL
        DEF Spec, EffectSpec, Delivery!Spec
=============================================================================
