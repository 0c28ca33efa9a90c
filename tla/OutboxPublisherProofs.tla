----------------------- MODULE OutboxPublisherProofs -----------------------
(***************************************************************************)
(* Proofs about OutboxPublisher for any events, any number of publisher    *)
(* replicas, any batch limit and any number of faults.                     *)
(*                                                                         *)
(* Handed(e) - a message of e is in the stream, in a client's buffer, or   *)
(* was lost from one - never becomes false again; whatever stands in       *)
(* published_ids or is marked was handed over.  And a committed row stays  *)
(* committed, so what a publisher fetched, offered and sent is committed.  *)
(* With one publisher, whatever is in its batch, in its buffer or in the   *)
(* stream has its causes before it (CauseInv).  And each copy of an event, *)
(* sent or still in a buffer, is accounted for by another publisher that   *)
(* is through with it, or by a fault (CopiesInv).                          *)
(***************************************************************************)
EXTENDS OutboxPublisher, FiniteSetTheorems, TLAPS

Handed(e) == InSeq(e, stream) \/ InFlight(e) \/ e \in lost

(* The ids of every batch, published or not, were handed over. *)
SentHanded == \A p \in Publishers : \A e \in sent[p] : Handed(e)

MarkInv == TypeOK /\ MarkedWasSent /\ SentHanded

(* A batch, a buffer and the stream hold committed events only. *)
FetchedCommitted == \A p \in Publishers : todo[p] \subseteq Committed

CommitInv == TypeOK /\ OnlyCommittedSent /\ FetchedCommitted

-----------------------------------------------------------------------------
(* Sequences. *)

(* What is in a sequence after appending x. *)
LEMMA InAppend ==
    ASSUME NEW S, NEW s \in Seq(S), NEW x \in S, NEW e
    PROVE  InSeq(e, Append(s, x)) <=> InSeq(e, s) \/ e = x
<1> DEFINE t == Append(s, x)
<1>1. Len(s) \in Nat /\ DOMAIN s = 1 .. Len(s)
  OBVIOUS
<1>2. DOMAIN t = 1 .. (Len(s) + 1)
  BY <1>1
<1>3. t[Len(s) + 1] = x
  BY <1>1
<1>4. \A i \in 1 .. Len(s) : t[i] = s[i]
  BY <1>1
<1>5. ASSUME InSeq(e, t) PROVE InSeq(e, s) \/ e = x
  <2>1. PICK i \in DOMAIN t : t[i] = e
    BY <1>5 DEF InSeq
  <2>2. CASE i = Len(s) + 1
    BY <2>1, <2>2, <1>3
  <2>3. CASE i # Len(s) + 1
    <3>1. i \in 1 .. Len(s)
      BY <2>1, <2>3, <1>1, <1>2
    <3> QED BY <3>1, <2>1, <1>1, <1>4 DEF InSeq
  <2> QED BY <2>2, <2>3
<1>6. ASSUME InSeq(e, s) PROVE InSeq(e, t)
  <2>1. PICK i \in 1 .. Len(s) : s[i] = e
    BY <1>6, <1>1 DEF InSeq
  <2>2. i \in DOMAIN t /\ t[i] = e
    BY <2>1, <1>1, <1>2, <1>4
  <2> QED BY <2>2 DEF InSeq
<1>7. ASSUME e = x PROVE InSeq(e, t)
  <2>1. Len(s) + 1 \in DOMAIN t
    BY <1>1, <1>2
  <2> QED BY <2>1, <1>3, <1>7 DEF InSeq
<1> QED BY <1>5, <1>6, <1>7

(* A nonempty sequence holds its head and what its tail holds. *)
LEMMA InHeadTail ==
    ASSUME NEW S, NEW s \in Seq(S), s # <<>>, NEW e
    PROVE  InSeq(e, s) <=> e = Head(s) \/ InSeq(e, Tail(s))
<1>1. Len(s) \in Nat \ {0} /\ DOMAIN s = 1 .. Len(s)
  OBVIOUS
<1>2. DOMAIN Tail(s) = 1 .. (Len(s) - 1)
  BY <1>1
<1>3. \A i \in 1 .. (Len(s) - 1) : Tail(s)[i] = s[i + 1]
  BY <1>1
<1>4. Head(s) = s[1]
  BY <1>1
<1>5. ASSUME InSeq(e, s), e # Head(s) PROVE InSeq(e, Tail(s))
  <2>1. PICK i \in 1 .. Len(s) : s[i] = e
    BY <1>5, <1>1 DEF InSeq
  <2>2. i - 1 \in 1 .. (Len(s) - 1)
    BY <2>1, <1>1, <1>4, <1>5
  <2>3. Tail(s)[i - 1] = s[(i - 1) + 1]
    BY <2>2, <1>3
  <2>4. (i - 1) + 1 = i
    BY <2>1
  <2>5. Tail(s)[i - 1] = e
    BY <2>1, <2>3, <2>4
  <2> QED BY <2>2, <2>5, <1>2 DEF InSeq
<1>6. ASSUME InSeq(e, Tail(s)) PROVE InSeq(e, s)
  <2>1. PICK i \in 1 .. (Len(s) - 1) : Tail(s)[i] = e
    BY <1>6, <1>2 DEF InSeq
  <2>2. i + 1 \in DOMAIN s /\ s[i + 1] = e
    BY <2>1, <1>1, <1>3
  <2> QED BY <2>2 DEF InSeq
<1>7. ASSUME e = Head(s) PROVE InSeq(e, s)
  <2>1. 1 \in DOMAIN s
    BY <1>1
  <2> QED BY <2>1, <1>4, <1>7 DEF InSeq
<1> QED BY <1>5, <1>6, <1>7

-----------------------------------------------------------------------------
(* Type correctness. *)

(* Every variable keeps its type, whatever the interleaving of             *)
(* transactions, publishers, flushes and faults.                           *)
THEOREM TypeCorrect == Spec => []TypeOK
<1>1. Init => TypeOK
  BY DEF Init, TypeOK, RowStates
<1>2. TypeOK /\ [Next]_vars => TypeOK'
  <2> SUFFICES ASSUME TypeOK, [Next]_vars PROVE TypeOK'
    OBVIOUS
  <2> USE OutboxAssumption DEF TypeOK, RowStates
  <2>1. ASSUME NEW e \in Events, Begin(e) PROVE TypeOK'
    <3>1. Begun \subseteq Events /\ IsFiniteSet(Begun)
      BY FS_Subset DEF Begun
    <3>2. Cardinality(Begun) + 1 \in Nat
      BY <3>1, FS_CardinalityType
    <3>3. Committed \in SUBSET Events
      BY DEF Committed
    <3> QED BY <2>1, <3>2, <3>3 DEF Begin, busVars, taskVars
  <2>2. ASSUME NEW e \in Events, Commit(e) PROVE TypeOK'
    BY <2>2 DEF Commit, busVars, taskVars
  <2>3. ASSUME NEW e \in Events, Abort(e) PROVE TypeOK'
    BY <2>3 DEF Abort, busVars, taskVars
  <2>4. ASSUME NEW p \in Publishers, Select(p) PROVE TypeOK'
    <3>1. Fetched \in SUBSET Events
      BY DEF Fetched, Unpublished
    <3> QED BY <2>4, <3>1 DEF Select, tableVars, busVars
  <2>5. ASSUME NEW p \in Publishers, NEW e \in Events, Publish(p, e)
        PROVE TypeOK'
    BY <2>5 DEF Publish, Offer, tableVars
  <2>6. ASSUME NEW p \in Publishers, NEW e \in Events, PublishFails(p, e)
        PROVE TypeOK'
    BY <2>6 DEF PublishFails, Offer, Fault, tableVars, busVars
  <2>7. ASSUME NEW p \in Publishers, EndBatch(p) PROVE TypeOK'
    BY <2>7 DEF EndBatch, tableVars, busVars
  <2>8. ASSUME NEW p \in Publishers, Mark(p) PROVE TypeOK'
    BY <2>8 DEF Mark, busVars
  <2>9. ASSUME NEW p \in Publishers, MarkFails(p) PROVE TypeOK'
    BY <2>9 DEF MarkFails, Fault, tableVars, busVars
  <2>10. ASSUME NEW p \in Publishers, Flush(p) PROVE TypeOK'
    <3>1. buffer[p] \in Seq(Events) /\ buffer[p] # <<>>
      BY <2>10 DEF Flush
    <3>2. Head(buffer[p]) \in Events /\ Tail(buffer[p]) \in Seq(Events)
      BY <3>1
    <3> QED BY <2>10, <3>2 DEF Flush, tableVars, taskVars
  <2>11. ASSUME NEW p \in Publishers, Crash(p) PROVE TypeOK'
    BY <2>11 DEF Crash, Fault, tableVars
  <2>12. CASE UNCHANGED vars
    BY <2>12 DEF vars, tableVars, busVars, taskVars
  <2> QED BY <2>1, <2>2, <2>3, <2>4, <2>5, <2>6, <2>7, <2>8, <2>9, <2>10,
             <2>11, <2>12 DEF Next, TransactionStep, PublisherStep
<1> QED BY <1>1, <1>2, PTL DEF Spec

-----------------------------------------------------------------------------
(* Marked rows were handed over.                                           *)

(* What a publish adds to its client's buffer is in flight; the rest of    *)
(* the buffers is as before.                                               *)
LEMMA PublishBuffer ==
    ASSUME TypeOK, NEW p \in Publishers, NEW e \in Events, Publish(p, e),
           NEW f \in Events
    PROVE  InFlight(f)' <=> InFlight(f) \/ f = e
<1>1. buffer[p] \in Seq(Events)
  BY DEF TypeOK
<1>2. InSeq(f, Append(buffer[p], e)) <=> InSeq(f, buffer[p]) \/ f = e
  BY <1>1, InAppend
<1>3. buffer'[p] = Append(buffer[p], e)
      /\ \A q \in Publishers \ {p} : buffer'[q] = buffer[q]
  BY DEF Publish, TypeOK
<1> QED BY <1>2, <1>3 DEF InFlight

(* A flush moves its client's oldest message to the stream. *)
LEMMA FlushMoves ==
    ASSUME TypeOK, NEW p \in Publishers, Flush(p), NEW f \in Events
    PROVE  /\ InSeq(f, stream)' <=> InSeq(f, stream) \/ f = Head(buffer[p])
           /\ InFlight(f) => InFlight(f)' \/ f = Head(buffer[p])
           /\ InFlight(f)' => InFlight(f)
           /\ InSeq(Head(buffer[p]), buffer[p])
           /\ Head(buffer[p]) \in Events
<1> DEFINE h == Head(buffer[p])
<1>1. buffer[p] \in Seq(Events) /\ buffer[p] # <<>>
  BY DEF TypeOK, Flush
<1>2. h \in Events /\ stream \in Seq(Events)
  BY <1>1 DEF TypeOK
<1>3. stream' = Append(stream, h)
  BY DEF Flush
<1>4. InSeq(f, stream') <=> InSeq(f, stream) \/ f = h
  BY <1>2, <1>3, InAppend
<1>5. buffer'[p] = Tail(buffer[p])
      /\ \A q \in Publishers \ {p} : buffer'[q] = buffer[q]
  BY DEF Flush, TypeOK
<1>6. InSeq(f, buffer[p]) <=> f = h \/ InSeq(f, Tail(buffer[p]))
  BY <1>1, InHeadTail
<1>7. InSeq(h, buffer[p])
  BY <1>1, InHeadTail
<1> QED BY <1>2, <1>4, <1>5, <1>6, <1>7 DEF InFlight

(* What was handed over stays handed over. *)
LEMMA HandedStable ==
    ASSUME TypeOK, [Next]_vars, NEW e \in Events, Handed(e)
    PROVE  Handed(e)'
<1>1. CASE UNCHANGED busVars
  BY <1>1 DEF Handed, InFlight, busVars
<1>2. ASSUME NEW p \in Publishers, NEW f \in Events, Publish(p, f)
      PROVE Handed(e)'
  <2>1. UNCHANGED <<stream, lost>>
    BY <1>2 DEF Publish
  <2>2. InFlight(e) => InFlight(e)'
    BY <1>2, PublishBuffer
  <2> QED BY <2>1, <2>2 DEF Handed
<1>3. ASSUME NEW p \in Publishers, Flush(p) PROVE Handed(e)'
  <2>1. lost' = lost
    BY <1>3 DEF Flush
  <2> QED BY <1>3, <2>1, FlushMoves DEF Handed
<1>4. ASSUME NEW p \in Publishers, Crash(p) PROVE Handed(e)'
  <2>1. stream' = stream
        /\ lost' = lost \cup {f \in Events : InSeq(f, buffer[p])}
        /\ \A q \in Publishers \ {p} : buffer'[q] = buffer[q]
    BY <1>4 DEF Crash, TypeOK
  <2> QED BY <2>1 DEF Handed, InFlight
<1> QED
  BY <1>1, <1>2, <1>3, <1>4
  DEF Next, TransactionStep, PublisherStep, Begin, Commit, Abort, Select,
      PublishFails, EndBatch, Mark, MarkFails, vars, busVars

(* A row marked published has reached the stream, is on its way, or was    *)
(* lost by a client: marking depends on nothing but published_ids.         *)
THEOREM MarkedWasHandedOver == Spec => []MarkedWasSent
<1>1. Init => MarkInv
  <2> SUFFICES ASSUME Init PROVE MarkInv
    OBVIOUS
  <2>1. TypeOK
    BY DEF Init, TypeOK, RowStates
  <2>2. MarkedWasSent
    BY DEF Init, MarkedWasSent
  <2>3. SentHanded
    BY DEF Init, SentHanded
  <2> QED BY <2>1, <2>2, <2>3 DEF MarkInv
<1>2. TypeOK /\ TypeOK' /\ MarkInv /\ [Next]_vars => MarkInv'
  <2> SUFFICES ASSUME TypeOK, TypeOK', MarkInv, [Next]_vars PROVE MarkInv'
    OBVIOUS
  <2>1. MarkedWasSent /\ SentHanded
    BY DEF MarkInv
  <2>2. \A e \in Events : Handed(e) => Handed(e)'
    BY HandedStable
  <2>3. SentHanded'
    <3> SUFFICES ASSUME NEW q \in Publishers, NEW f \in Events, f \in sent'[q]
                 PROVE Handed(f)'
      BY DEF SentHanded, TypeOK
    <3>1. CASE f \in sent[q]
      BY <3>1, <2>1, <2>2 DEF SentHanded
    <3>2. CASE f \notin sent[q]
      <4>1. \E p \in Publishers, e \in Events : Publish(p, e)
        BY <3>2
        DEF TypeOK, Next, TransactionStep, PublisherStep, Begin, Commit, Abort,
            Select, PublishFails, Offer, EndBatch, Mark, MarkFails, Flush,
            Crash, vars, taskVars
      <4>2. PICK p \in Publishers, e \in Events : Publish(p, e)
        BY <4>1
      <4>3. f = e
        BY <4>2, <3>2 DEF Publish, TypeOK
      <4> QED BY <4>2, <4>3, PublishBuffer DEF Handed
    <3> QED BY <3>1, <3>2
  <2>4. MarkedWasSent'
    <3> SUFFICES ASSUME NEW f \in Events, row'[f] = "published"
                 PROVE Handed(f)'
      BY DEF MarkedWasSent, Handed
    <3>1. CASE row[f] = "published"
      BY <3>1, <2>1, <2>2 DEF MarkedWasSent, Handed
    <3>2. CASE row[f] # "published"
      <4>1. \E p \in Publishers : Mark(p)
        BY <3>2
        DEF TypeOK, Next, TransactionStep, PublisherStep, Begin, Commit, Abort,
            Select, Publish, PublishFails, Offer, EndBatch, MarkFails, Flush,
            Crash, vars, tableVars
      <4>2. PICK p \in Publishers : Mark(p)
        BY <4>1
      <4>3. f \in sent[p]
        BY <4>2, <3>2 DEF Mark
      <4> QED BY <4>3, <2>1, <2>2 DEF SentHanded
    <3> QED BY <3>1, <3>2
  <2> QED BY <2>3, <2>4 DEF MarkInv
<1>3. MarkInv => MarkedWasSent
  BY DEF MarkInv
<1> QED BY <1>1, <1>2, <1>3, TypeCorrect, PTL DEF Spec

-----------------------------------------------------------------------------
(* Only committed events are sent.                                         *)

(* A committed row stays committed. *)
LEMMA CommittedStable ==
    ASSUME TypeOK, [Next]_vars
    PROVE  Committed \subseteq Committed'
BY DEF TypeOK, Next, TransactionStep, PublisherStep, Begin, Commit, Abort,
       Select, Publish, PublishFails, EndBatch, Mark, MarkFails, Flush, Crash,
       vars, tableVars, Committed

(* What is on the wire or in the stream stays among the committed events   *)
(* and the ones that a publish just took from a batch.                     *)
LEMMA SentComesFromBatch ==
    ASSUME TypeOK, [Next]_vars, NEW f \in Events,
           InSeq(f, stream)' \/ InFlight(f)'
    PROVE  \/ InSeq(f, stream) \/ InFlight(f)
           \/ \E p \in Publishers : f \in todo[p]
<1>1. CASE UNCHANGED busVars
  BY <1>1 DEF busVars, InFlight
<1>2. ASSUME NEW p \in Publishers, NEW e \in Events, Publish(p, e)
      PROVE InSeq(f, stream) \/ InFlight(f) \/ f \in todo[p]
  <2>1. stream' = stream /\ e \in todo[p]
    BY <1>2 DEF Publish, Offer, IsNext
  <2>2. InFlight(f)' <=> InFlight(f) \/ f = e
    BY <1>2, PublishBuffer
  <2> QED BY <2>1, <2>2
<1>3. ASSUME NEW p \in Publishers, Flush(p)
      PROVE InSeq(f, stream) \/ InFlight(f)
  <2>1. CASE InFlight(f)'
    BY <1>3, <2>1, FlushMoves
  <2>2. CASE InSeq(f, stream)'
    <3>1. InSeq(f, stream) \/ f = Head(buffer[p])
      BY <1>3, <2>2, FlushMoves
    <3>2. InSeq(Head(buffer[p]), buffer[p])
      BY <1>3, FlushMoves
    <3> QED BY <3>1, <3>2 DEF InFlight
  <2> QED BY <2>1, <2>2
<1>4. ASSUME NEW p \in Publishers, Crash(p)
      PROVE InSeq(f, stream) \/ InFlight(f)
  <2>1. stream' = stream /\ buffer' = [buffer EXCEPT ![p] = <<>>]
    BY <1>4 DEF Crash
  <2>2. \A q \in Publishers :
           buffer'[q] = IF q = p THEN <<>> ELSE buffer[q]
    BY <2>1 DEF TypeOK
  <2>3. ~ InSeq(f, <<>>)
    BY DEF InSeq
  <2> QED BY <2>1, <2>2, <2>3 DEF InFlight
<1> QED
  BY <1>1, <1>2, <1>3, <1>4
  DEF Next, TransactionStep, PublisherStep, Begin, Commit, Abort, Select,
      PublishFails, EndBatch, Mark, MarkFails, vars, busVars

LEMMA CommitInvariant == Spec => []CommitInv
<1>1. Init => CommitInv
  <2> SUFFICES ASSUME Init PROVE CommitInv
    OBVIOUS
  <2>1. TypeOK
    BY DEF Init, TypeOK, RowStates
  <2>2. OnlyCommittedSent
    BY DEF Init, OnlyCommittedSent, InSeq, InFlight
  <2>3. FetchedCommitted
    BY DEF Init, FetchedCommitted
  <2> QED BY <2>1, <2>2, <2>3 DEF CommitInv
<1>2. TypeOK /\ TypeOK' /\ CommitInv /\ [Next]_vars => CommitInv'
  <2> SUFFICES ASSUME TypeOK, TypeOK', CommitInv, [Next]_vars
               PROVE  CommitInv'
    OBVIOUS
  <2>1. OnlyCommittedSent /\ FetchedCommitted
    BY DEF CommitInv
  <2>2. Committed \subseteq Committed'
    BY CommittedStable
  <2>3. OnlyCommittedSent'
    <3> SUFFICES ASSUME NEW f \in Events, InSeq(f, stream)' \/ InFlight(f)'
                 PROVE  f \in Committed'
      BY DEF OnlyCommittedSent
    <3>1. \/ InSeq(f, stream) \/ InFlight(f)
          \/ \E p \in Publishers : f \in todo[p]
      BY SentComesFromBatch
    <3> QED BY <3>1, <2>1, <2>2 DEF OnlyCommittedSent, FetchedCommitted
  <2>4. FetchedCommitted'
    <3> SUFFICES ASSUME NEW q \in Publishers PROVE todo'[q] \subseteq Committed'
      BY DEF FetchedCommitted
    <3>0. todo \in [Publishers -> SUBSET Events]
      BY DEF TypeOK
    <3>1. \/ todo'[q] \subseteq todo[q]
          \/ todo'[q] = Fetched
      BY <3>0
      DEF Next, TransactionStep, PublisherStep, Begin, Commit, Abort, Select,
          Publish, PublishFails, Offer, EndBatch, Mark, MarkFails, Flush, Crash,
          vars, taskVars
    <3>2. Fetched \subseteq Committed
      BY DEF Fetched, Unpublished, Committed
    <3> QED BY <3>1, <3>2, <2>1, <2>2 DEF FetchedCommitted
  <2> QED BY <2>3, <2>4 DEF CommitInv
<1> QED BY <1>1, <1>2, TypeCorrect, PTL DEF Spec

(* No message of an aborted or unfinished transaction reaches the bus. *)
THEOREM UncommittedNeverSent == Spec => []OnlyCommittedSent
<1>1. CommitInv => OnlyCommittedSent
  BY DEF CommitInv
<1> QED BY <1>1, CommitInvariant, PTL

(* The publisher implements the abstract outbox: a commit accepts, a flush *)
(* delivers, and every other step is a stutter.                            *)
THEOREM ImplementsDelivery == Spec => DeliverySpec
<1> DEFINE Arrived == {e \in Events : InSeq(e, stream)}
<1>1. Init => Delivery!Init
  BY DEF Init, Delivery!Init, Committed, InSeq
<1>2. CommitInv /\ [Next]_vars => [Delivery!Next]_<<Committed, Arrived>>
  <2> SUFFICES ASSUME TypeOK, OnlyCommittedSent, [Next]_vars
               PROVE  Delivery!Next \/ UNCHANGED <<Committed, Arrived>>
    BY DEF CommitInv
  <2>1. ASSUME NEW e \in Events, Commit(e) PROVE Delivery!Next
    <3>1. e \notin Committed /\ Committed' = Committed \cup {e}
      BY <2>1 DEF Commit, Committed, TypeOK
    <3>2. Arrived' = Arrived
      BY <2>1 DEF Commit, busVars
    <3>3. Delivery!Accept(e)
      BY <3>1, <3>2 DEF Delivery!Accept
    <3> QED BY <3>3 DEF Delivery!Next
  <2>2. ASSUME NEW p \in Publishers, Flush(p) PROVE Delivery!Next
    <3> DEFINE h == Head(buffer[p])
    <3>0. h \in Events
      BY <2>2 DEF Flush, TypeOK
    <3>1. h \in Events /\ InSeq(h, buffer[p])
      BY <2>2, <3>0, FlushMoves
    <3>2. h \in Committed
      BY <3>1 DEF OnlyCommittedSent, InFlight
    <3>3. \A f \in Events : InSeq(f, stream)' <=> InSeq(f, stream) \/ f = h
      BY <2>2, FlushMoves
    <3>4. Arrived' = Arrived \cup {h}
      BY <3>1, <3>3
    <3>5. Committed' = Committed
      BY <2>2 DEF Flush, tableVars, Committed
    <3>6. Delivery!Deliver(h)
      BY <3>2, <3>4, <3>5 DEF Delivery!Deliver
    <3> QED BY <3>1, <3>6 DEF Delivery!Next
  <2>3. CASE UNCHANGED stream /\ Committed' = Committed
    BY <2>3
  <2>4. \/ UNCHANGED stream /\ Committed' = Committed
        \/ \E e \in Events : Commit(e)
        \/ \E p \in Publishers : Flush(p)
    BY DEF TypeOK, Next, TransactionStep, PublisherStep, Begin, Abort, Select,
           Publish, PublishFails, Offer, EndBatch, Mark, MarkFails, Crash,
           vars, tableVars, busVars, Committed
  <2> QED BY <2>1, <2>2, <2>3, <2>4
<1> QED BY <1>1, <1>2, CommitInvariant, PTL DEF Spec, DeliverySpec, Delivery!Spec

-----------------------------------------------------------------------------
(* Causes before effects, with one publisher.                              *)

(* One publisher, which is never stopped, and a client that takes every    *)
(* message that can be sent.                                               *)
OnePublisher == (\E p : Publishers = {p}) /\ FaultKinds \subseteq {"db"}

Causes(e) == prior[e] \ Unsendable

(* A transaction begins after the ones that were committed before it.      *)
BegunInOrder ==
    \A e \in Events :
        /\ row[e] = "absent" => prior[e] = {}
        /\ row[e] # "absent" => createdAt[e] <= Cardinality(Begun)
        /\ \A f \in prior[e] : f \in Committed /\ createdAt[f] < createdAt[e]

(* In a client's buffer the causes of an event are before it, and those of *)
(* an event of a batch are in the batch with it, unless they are on their  *)
(* way already.                                                            *)
BufferFirst ==
    \A p \in Publishers : \A i \in DOMAIN buffer[p] :
        \A f \in Causes(buffer[p][i]) :
            InSeq(f, stream) \/ \E j \in 1 .. i : buffer[p][j] = f

BatchFirst ==
    \A p \in Publishers : \A e \in todo[p] : \A f \in Causes(e) :
        f \in todo[p] \/ InSeq(f, stream) \/ InSeq(f, buffer[p])

CauseInv ==
    /\ lost = {}
    /\ BegunInOrder
    /\ BatchFirst /\ BufferFirst /\ CauseFirst

LEMMA BegunGrows ==
    ASSUME OutboxAssumption, TypeOK
    PROVE  /\ IsFiniteSet(Begun) /\ Cardinality(Begun) \in Nat
           /\ \A e \in Events : Begin(e) =>
                 /\ Begun' = Begun \cup {e} /\ e \notin Begun
                 /\ Cardinality(Begun') = Cardinality(Begun) + 1
<1>1. IsFiniteSet(Begun) /\ Cardinality(Begun) \in Nat
  BY FS_Subset, FS_CardinalityType DEF OutboxAssumption, Begun
<1>2. ASSUME NEW e \in Events, Begin(e)
      PROVE  Begun' = Begun \cup {e} /\ e \notin Begun
  BY <1>2 DEF TypeOK, Begin, Begun
<1> QED
  BY <1>1, <1>2, FS_AddElement

(* What a committed event's transaction saw before it does not change.     *)
LEMMA PriorStays ==
    ASSUME TypeOK, [Next]_vars, NEW e \in Events, row[e] # "absent"
    PROVE  prior'[e] = prior[e] /\ createdAt'[e] = createdAt[e]
BY DEF TypeOK, Next, TransactionStep, PublisherStep, Begin, Commit, Abort,
       Select, Publish, PublishFails, EndBatch, Mark, MarkFails, Flush, Crash,
       vars, tableVars

LEMMA OrderStep ==
    ASSUME OutboxAssumption, TypeOK, BegunInOrder, [Next]_vars
    PROVE  BegunInOrder'
<1>1. Committed \subseteq Committed'
  BY CommittedStable
<1>2. ASSUME NEW e \in Events, Begin(e) PROVE BegunInOrder'
  <2>1. /\ row' = [row EXCEPT ![e] = "open"] /\ row[e] = "absent"
        /\ createdAt' = [createdAt EXCEPT ![e] = Cardinality(Begun) + 1]
        /\ prior' = [prior EXCEPT ![e] = Committed]
    BY <1>2 DEF Begin
  <2>2. Cardinality(Begun) \in Nat /\ Cardinality(Begun') = Cardinality(Begun) + 1
    BY <1>2, BegunGrows
  <2>3. \A f \in Committed : f \in Events /\ row[f] # "absent"
    BY DEF Committed
  <2>4. /\ \A f \in Events : createdAt[f] \in Nat
        /\ \A f \in Events \ {e} : /\ row'[f] = row[f] /\ prior'[f] = prior[f]
                                   /\ createdAt'[f] = createdAt[f]
        /\ row'[e] = "open" /\ createdAt'[e] = Cardinality(Begun) + 1
        /\ prior'[e] = Committed
    BY <2>1 DEF TypeOK
  <2>5. ASSUME NEW x \in Events
        PROVE  /\ row'[x] = "absent" => prior'[x] = {}
               /\ row'[x] # "absent" => createdAt'[x] <= Cardinality(Begun')
               /\ \A f \in prior'[x] : f \in Committed' /\ createdAt'[f] < createdAt'[x]
    <3>1. CASE x = e
      BY <1>1, <2>1, <2>2, <2>3, <2>4, <3>1 DEF BegunInOrder
    <3>2. CASE x # e
      <4>1. \A f \in prior[x] : f \in Committed /\ f # e
        BY <2>1, <2>3 DEF BegunInOrder
      <4> QED
        BY <1>1, <2>2, <2>3, <2>4, <3>2, <4>1 DEF BegunInOrder
    <3> QED
      BY <3>1, <3>2
  <2> QED
    BY <2>5 DEF BegunInOrder
<1>3. CASE ~\E e \in Events : Begin(e)
  <2>1. UNCHANGED <<createdAt, prior>>
    BY <1>3 DEF Next, TransactionStep, PublisherStep, Commit, Abort,
       Select, Publish, PublishFails, EndBatch, Mark, MarkFails, Flush, Crash,
       vars, tableVars
  <2>2. \A e \in Events : row'[e] = "absent" <=> row[e] = "absent"
    BY <1>3 DEF TypeOK, Next, TransactionStep, PublisherStep, Commit, Abort,
       Select, Publish, PublishFails, EndBatch, Mark, MarkFails, Flush, Crash,
       vars, tableVars
  <2>3. Begun' = Begun
    BY <2>2 DEF Begun
  <2> QED
    BY <1>1, <2>1, <2>2, <2>3 DEF BegunInOrder
<1> QED
  BY <1>2, <1>3

(* A batch takes with an event every cause that is not published yet.      *)
LEMMA FetchedWithCauses ==
    ASSUME OutboxAssumption, OnePublisher, TypeOK, MarkedWasSent, lost = {},
           BegunInOrder,
           NEW p \in Publishers, NEW e \in Fetched, NEW f \in Causes(e)
    PROVE  f \in Fetched \/ InSeq(f, stream) \/ InSeq(f, buffer[p])
<1>1. /\ e \in Events /\ row[e] = "unpublished"
      /\ Cardinality(Before(Unpublished, e)) < Limit
      /\ f \in Events /\ f \in Committed /\ createdAt[f] < createdAt[e]
  BY DEF Fetched, Unpublished, Causes, BegunInOrder, Committed
<1>2. CASE row[f] = "published"
  <2>1. \A q \in Publishers : q = p
    BY DEF OnePublisher
  <2>2. InSeq(f, stream) \/ InFlight(f) \/ f \in lost
    BY <1>1, <1>2 DEF MarkedWasSent
  <2> QED
    BY <2>1, <2>2 DEF InFlight
<1>3. CASE row[f] = "unpublished"
  <2>1. \A x \in Events : createdAt[x] \in Nat
    BY DEF TypeOK
  <2>2. Before(Unpublished, f) \subseteq Before(Unpublished, e)
    BY <1>1, <2>1 DEF Before, Unpublished
  <2>3. IsFiniteSet(Before(Unpublished, e))
    BY FS_Subset DEF OutboxAssumption, Before, Unpublished
  <2>4. /\ Cardinality(Before(Unpublished, f)) <= Cardinality(Before(Unpublished, e))
        /\ Cardinality(Before(Unpublished, f)) \in Nat
        /\ Cardinality(Before(Unpublished, e)) \in Nat
    BY <2>2, <2>3, FS_Subset, FS_CardinalityType
  <2>5. Cardinality(Before(Unpublished, f)) < Limit
    BY <1>1, <2>4 DEF OutboxAssumption
  <2> QED
    BY <1>1, <1>3, <2>5 DEF Fetched, Unpublished
<1> QED
  BY <1>1, <1>2, <1>3 DEF Committed

LEMMA CausePublish ==
    ASSUME TypeOK, CauseInv, NEW p \in Publishers, NEW e \in Events, Publish(p, e),
           OnePublisher
    PROVE  BatchFirst' /\ BufferFirst' /\ CauseFirst'
<1>1. /\ e \in todo[p] /\ Before(todo[p], e) = {}
      /\ buffer'[p] = Append(buffer[p], e) /\ todo'[p] = todo[p] \ {e}
      /\ UNCHANGED <<row, createdAt, prior, stream>>
      /\ \A q \in Publishers : q = p
  BY DEF Publish, Offer, IsNext, TypeOK, tableVars, OnePublisher
<1> DEFINE s == buffer[p]
           n == Len(s)
<1>2. /\ s \in Seq(Events) /\ n \in Nat /\ DOMAIN s = 1 .. n
      /\ DOMAIN buffer'[p] = 1 .. n + 1 /\ buffer'[p][n + 1] = e
      /\ \A i \in 1 .. n : buffer'[p][i] = s[i]
  BY <1>1 DEF TypeOK
<1>3. \A f : InSeq(f, buffer'[p]) <=> InSeq(f, s) \/ f = e
  BY <1>1, <1>2, InAppend
<1>4. \A f \in Causes(e) : InSeq(f, stream) \/ \E j \in 1 .. n : s[j] = f
  <2> SUFFICES ASSUME NEW f \in Causes(e), ~InSeq(f, stream)
               PROVE  InSeq(f, s)
    BY <1>2 DEF InSeq
  <2>1. createdAt[f] < createdAt[e]
    BY DEF CauseInv, BegunInOrder, Causes
  <2>2. f \notin todo[p]
    BY <1>1, <2>1 DEF Before
  <2> QED
    BY <1>1, <2>2 DEF CauseInv, BatchFirst
<1>5. ASSUME NEW i \in DOMAIN buffer'[p], NEW f \in Causes(buffer'[p][i])
      PROVE  InSeq(f, stream) \/ \E j \in 1 .. i : buffer'[p][j] = f
  <2>1. CASE i \in 1 .. n
    <3>1. InSeq(f, stream) \/ \E j \in 1 .. i : s[j] = f
      BY <1>2, <1>5, <2>1 DEF CauseInv, BufferFirst
    <3>2. \A j \in 1 .. i : j \in 1 .. n
      BY <1>2, <2>1
    <3> QED
      BY <1>2, <3>1, <3>2
  <2>2. CASE i = n + 1
    <3>1. \A j \in 1 .. n : j \in 1 .. i
      BY <1>2, <2>2
    <3> QED
      BY <1>2, <1>4, <1>5, <2>2, <3>1
  <2> QED
    BY <1>2, <2>1, <2>2
<1>6. BufferFirst'
  <2> SUFFICES ASSUME NEW q \in Publishers, NEW i \in DOMAIN buffer'[q],
                      NEW f \in prior'[buffer'[q][i]] \ Unsendable
               PROVE  InSeq(f, stream') \/ \E j \in 1 .. i : buffer'[q][j] = f
    BY DEF BufferFirst, Causes
  <2>1. q = p /\ f \in Causes(buffer'[p][i])
    BY <1>1 DEF Causes
  <2> QED
    BY <1>1, <1>5, <2>1
<1>7. BatchFirst'
  BY <1>1, <1>3 DEF CauseInv, BatchFirst, Causes
<1>8. CauseFirst'
  BY <1>1 DEF CauseInv, CauseFirst
<1> QED
  BY <1>6, <1>7, <1>8

LEMMA CauseFlush ==
    ASSUME TypeOK, CauseInv, NEW p \in Publishers, Flush(p), OnePublisher
    PROVE  BatchFirst' /\ BufferFirst' /\ CauseFirst'
<1> DEFINE s == buffer[p]
           h == Head(s)
           m == Len(stream)
           n == Len(s)
<1>1. /\ s # <<>> /\ stream' = Append(stream, h) /\ buffer'[p] = Tail(s)
      /\ UNCHANGED <<row, createdAt, prior, todo>>
      /\ \A q \in Publishers : q = p
  BY DEF Flush, TypeOK, tableVars, taskVars, OnePublisher
<1>2. /\ s \in Seq(Events) /\ n \in Nat \ {0} /\ DOMAIN s = 1 .. n /\ h = s[1]
      /\ h \in Events /\ DOMAIN Tail(s) = 1 .. n - 1
      /\ \A i \in 1 .. n - 1 : Tail(s)[i] = s[i + 1]
  BY <1>1 DEF TypeOK
<1>3. /\ stream \in Seq(Events) /\ m \in Nat /\ DOMAIN stream = 1 .. m
      /\ DOMAIN stream' = 1 .. m + 1 /\ stream'[m + 1] = h
      /\ \A i \in 1 .. m : stream'[i] = stream[i]
  BY <1>1, <1>2 DEF TypeOK
<1>4. \A f : InSeq(f, stream') <=> InSeq(f, stream) \/ f = h
  BY <1>1, <1>2, <1>3, InAppend
<1>5. \A f : InSeq(f, s) <=> f = h \/ InSeq(f, Tail(s))
  BY <1>1, <1>2, InHeadTail
<1>6. ASSUME NEW i \in 1 .. m + 1, NEW f \in Causes(stream'[i])
      PROVE  \E j \in 1 .. i : stream'[j] = f
  <2>1. CASE i \in 1 .. m
    <3>1. stream[i] \in Events
      BY <1>3, <2>1
    <3>2. \E j \in 1 .. i : stream[j] = f
      BY <1>3, <1>6, <2>1, <3>1 DEF CauseInv, CauseFirst, Causes
    <3>3. \A j \in 1 .. i : j \in 1 .. m
      BY <1>3, <2>1
    <3> QED
      BY <1>3, <3>2, <3>3
  <2>2. CASE i = m + 1
    <3>1. 1 \in DOMAIN s /\ f \in Causes(s[1])
      BY <1>2, <1>3, <1>6, <2>2
    <3>2. InSeq(f, stream) \/ \E j \in 1 .. 1 : s[j] = f
      BY <3>1 DEF CauseInv, BufferFirst
    <3>3. InSeq(f, stream) \/ f = h
      BY <1>2, <3>2
    <3>4. \A j \in 1 .. m + 1 : j \in 1 .. i
      BY <2>2
    <3> QED
      BY <1>3, <1>4, <3>3, <3>4 DEF InSeq
  <2> QED
    BY <1>3, <2>1, <2>2
<1>7. CauseFirst'
  BY <1>1, <1>3, <1>6 DEF CauseFirst, Causes
<1>8. ASSUME NEW i \in 1 .. n - 1, NEW f \in Causes(Tail(s)[i])
      PROVE  InSeq(f, stream') \/ \E j \in 1 .. i : Tail(s)[j] = f
  <2>1. i + 1 \in DOMAIN s /\ f \in Causes(s[i + 1])
    BY <1>2, <1>8
  <2>2. InSeq(f, stream) \/ \E j \in 1 .. i + 1 : s[j] = f
    BY <2>1 DEF CauseInv, BufferFirst
  <2>3. ASSUME NEW j \in 1 .. i + 1, s[j] = f, f # h
        PROVE  j - 1 \in 1 .. i /\ Tail(s)[j - 1] = f
    <3>1. j - 1 \in 1 .. i /\ j - 1 \in 1 .. n - 1 /\ (j - 1) + 1 = j
      BY <1>2, <1>8, <2>3
    <3> QED
      BY <1>2, <2>3, <3>1
  <2> QED
    BY <1>4, <2>2, <2>3
<1>9. BufferFirst'
  <2> SUFFICES ASSUME NEW q \in Publishers, NEW i \in DOMAIN buffer'[q],
                      NEW f \in prior'[buffer'[q][i]] \ Unsendable
               PROVE  InSeq(f, stream') \/ \E j \in 1 .. i : buffer'[q][j] = f
    BY DEF BufferFirst, Causes
  <2>1. q = p /\ i \in 1 .. n - 1 /\ f \in Causes(Tail(s)[i])
    BY <1>1, <1>2 DEF Causes
  <2> QED
    BY <1>1, <1>8, <2>1
<1>10. BatchFirst'
  BY <1>1, <1>4, <1>5 DEF CauseInv, BatchFirst, Causes
<1> QED
  BY <1>7, <1>9, <1>10

(* What fetches, sends and writes nothing keeps the order.                 *)
LEMMA CauseOther ==
    ASSUME TypeOK, CauseInv, CommitInv, [Next]_vars, UNCHANGED <<buffer, stream>>,
           OnePublisher,
           \A p \in Publishers :
              \/ todo'[p] = todo[p] \/ todo'[p] = {}
              \/ \E e \in Unsendable : todo'[p] = todo[p] \ {e}
    PROVE  BatchFirst' /\ BufferFirst' /\ CauseFirst'
<1>1. ASSUME NEW e \in Committed PROVE Causes(e)' = Causes(e)
  BY PriorStays DEF Causes, Committed
<1>2. \A e \in Events : InSeq(e, stream) => e \in Committed
  BY DEF CommitInv, OnlyCommittedSent
<1>3. \A p \in Publishers, e \in Events : InSeq(e, buffer[p]) => e \in Committed
  BY DEF CommitInv, OnlyCommittedSent, InFlight
<1>4. CauseFirst'
  <2> SUFFICES ASSUME NEW i \in DOMAIN stream, stream[i] \in Events,
                      NEW f \in Causes(stream[i])'
               PROVE  \E j \in 1 .. i : stream[j] = f
    BY DEF CauseFirst, Causes
  <2>1. stream[i] \in Committed
    BY <1>2 DEF InSeq
  <2> QED
    BY <1>1, <2>1 DEF CauseInv, CauseFirst, Causes
<1>5. BufferFirst'
  <2> SUFFICES ASSUME NEW p \in Publishers, NEW i \in DOMAIN buffer[p],
                      NEW f \in Causes(buffer[p][i])'
               PROVE  InSeq(f, stream) \/ \E j \in 1 .. i : buffer[p][j] = f
    BY DEF BufferFirst
  <2>1. buffer[p][i] \in Events
    BY DEF TypeOK
  <2>2. buffer[p][i] \in Committed
    BY <1>3, <2>1 DEF InSeq
  <2> QED
    BY <1>1, <2>2 DEF CauseInv, BufferFirst
<1>6. BatchFirst'
  <2> SUFFICES ASSUME NEW p \in Publishers, NEW e \in todo'[p], NEW f \in Causes(e)'
               PROVE  f \in todo'[p] \/ InSeq(f, stream) \/ InSeq(f, buffer[p])
    BY DEF BatchFirst
  <2>1. e \in todo[p]
    OBVIOUS
  <2>2. Causes(e)' = Causes(e)
    BY <1>1, <2>1 DEF CommitInv, FetchedCommitted
  <2>3. f \in todo[p] \/ InSeq(f, stream) \/ InSeq(f, buffer[p])
    BY <2>1, <2>2 DEF CauseInv, BatchFirst
  <2>4. f \notin Unsendable
    BY DEF Causes
  <2> QED
    BY <2>3, <2>4
<1> QED
  BY <1>4, <1>5, <1>6

LEMMA CauseStep ==
    ASSUME OutboxAssumption, OnePublisher, TypeOK, CommitInv, MarkedWasSent,
           CauseInv, [Next]_vars
    PROVE  CauseInv'
<1>1. BegunInOrder'
  BY OrderStep DEF CauseInv
<1>2. ~\E p \in Publishers : Crash(p)
  BY DEF Crash, Fault, OnePublisher
<1>3. lost' = lost
  BY <1>2 DEF Next, TransactionStep, PublisherStep, Begin, Commit, Abort,
     Select, Publish, PublishFails, EndBatch, Mark, MarkFails, Flush,
     vars, busVars
<1>4. ASSUME NEW p \in Publishers, Select(p)
      PROVE  BatchFirst' /\ BufferFirst' /\ CauseFirst'
  <2>1. /\ todo'[p] = Fetched /\ UNCHANGED <<row, createdAt, prior, buffer, stream>>
        /\ \A q \in Publishers : q = p
    BY <1>4 DEF Select, TypeOK, tableVars, busVars, OnePublisher
  <2>2. \A e \in Fetched : \A f \in Causes(e) :
           f \in Fetched \/ InSeq(f, stream) \/ InSeq(f, buffer[p])
    BY FetchedWithCauses DEF CauseInv
  <2> QED
    BY <2>1, <2>2 DEF CauseInv, BatchFirst, BufferFirst, CauseFirst, Causes
<1>5. ASSUME ~\E p \in Publishers : Select(p) \/ Flush(p),
             ~\E p \in Publishers, e \in Events : Publish(p, e)
      PROVE  BatchFirst' /\ BufferFirst' /\ CauseFirst'
  <2>1. UNCHANGED <<buffer, stream>>
    BY <1>2, <1>5 DEF Next, TransactionStep, PublisherStep, Begin, Commit, Abort,
       PublishFails, EndBatch, Mark, MarkFails, vars, busVars
  <2>2. ASSUME NEW p \in Publishers
        PROVE  \/ todo'[p] = todo[p] \/ todo'[p] = {}
               \/ \E e \in Unsendable : todo'[p] = todo[p] \ {e}
    BY <1>2, <1>5 DEF TypeOK, Next, TransactionStep, PublisherStep, Begin, Commit,
       Abort, PublishFails, Offer, Fault, EndBatch, Mark, MarkFails, vars, taskVars,
       OnePublisher
  <2> QED
    BY <2>1, <2>2, CauseOther
<1>6. BatchFirst' /\ BufferFirst' /\ CauseFirst'
  BY <1>4, <1>5, CausePublish, CauseFlush DEF CauseInv
<1> QED
  BY <1>1, <1>3, <1>6 DEF CauseInv

(* With one publisher and nothing lost, every event reaches the stream     *)
(* after the events that were committed before its transaction began,      *)
(* however often a failing UPDATE makes the publisher send them again.     *)
THEOREM CauseBeforeEffect ==
    ASSUME OnePublisher
    PROVE  Spec => []CauseFirst
<1>1. Init => CauseInv
  BY DEF Init, CauseInv, BegunInOrder, BatchFirst, BufferFirst, CauseFirst, Committed
<1>2. TypeOK /\ CommitInv /\ MarkedWasSent /\ CauseInv /\ [Next]_vars
         => CauseInv'
  BY OutboxAssumption, CauseStep
<1>3. CauseInv => CauseFirst
  BY DEF CauseInv
<1> QED
  BY <1>1, <1>2, <1>3, TypeCorrect, CommitInvariant, MarkedWasHandedOver, PTL DEF Spec

-----------------------------------------------------------------------------
(* The number of copies.                                                   *)

(* The places of e's messages in the clients' buffers. *)
Slots(e) ==
    {x \in Publishers \X Nat :
        x[2] \in DOMAIN buffer[x[1]] /\ buffer[x[1]][x[2]] = e}

Arrivals(e) == {i \in DOMAIN stream : stream[i] = e}

(* Publisher p has published e since its last fault, and will not again:   *)
(* once the row is marked, nobody fetches it any more.                     *)
Spent(p, e) ==
    IF row[e] = "published" THEN e \notin todo[p]
    ELSE pc[p] # "idle" /\ e \in sent[p]

SpentOn(e) == {p \in Publishers : Spent(p, e)}

(* Every message of e is owed to a publisher that has spent its one, or to *)
(* a fault.                                                                *)
CopiesOwed ==
    \A e \in Events :
        /\ IsFiniteSet(Slots(e))
        /\ Copies(e) + Cardinality(Slots(e)) <= Cardinality(SpentOn(e)) + faults

OfferedOnce == \A p \in Publishers : todo[p] \cap sent[p] = {}

SentCommitted == \A p \in Publishers : sent[p] \subseteq Committed

CopiesInv == TypeOK /\ OfferedOnce /\ SentCommitted /\ CopiesOwed

LEMMA Image ==
    ASSUME NEW S, IsFiniteSet(S), NEW f
    PROVE  /\ IsFiniteSet({f[x] : x \in S})
           /\ Cardinality({f[x] : x \in S}) <= Cardinality(S)
<1> DEFINE T == {f[x] : x \in S}
           g == [x \in S |-> f[x]]
<1>1. g \in Surjection(S, T)
  BY DEF Surjection
<1> QED
  BY <1>1, FS_Surjection

LEMMA OneMore ==
    ASSUME NEW S, IsFiniteSet(S), NEW x
    PROVE  /\ IsFiniteSet(S \cup {x})
           /\ Cardinality(S \cup {x}) \in Nat /\ Cardinality(S) \in Nat
           /\ Cardinality(S \cup {x}) <= Cardinality(S) + 1
           /\ x \notin S => Cardinality(S \cup {x}) = Cardinality(S) + 1
<1>1. IsFiniteSet(S \cup {x})
  BY FS_AddElement
<1>2. Cardinality(S \cup {x}) \in Nat /\ Cardinality(S) \in Nat
  BY <1>1, FS_CardinalityType
<1>3. x \notin S => Cardinality(S \cup {x}) = Cardinality(S) + 1
  BY FS_AddElement
<1>4. x \in S => Cardinality(S \cup {x}) = Cardinality(S)
  <2>1. x \in S => S \cup {x} = S
    OBVIOUS
  <2> QED
    BY <2>1
<1>5. Cardinality(S \cup {x}) <= Cardinality(S) + 1
  BY <1>2, <1>3, <1>4
<1> QED
  BY <1>1, <1>2, <1>3, <1>5

LEMMA CountsAreNumbers ==
    ASSUME OutboxAssumption, TypeOK, NEW e \in Events, IsFiniteSet(Slots(e))
    PROVE  /\ IsFiniteSet(Arrivals(e)) /\ IsFiniteSet(SpentOn(e))
           /\ Copies(e) \in Nat /\ Copies(e) = Cardinality(Arrivals(e))
           /\ Cardinality(Slots(e)) \in Nat
           /\ Cardinality(SpentOn(e)) \in Nat
           /\ Cardinality(SpentOn(e)) <= Cardinality(Publishers)
           /\ Cardinality(Publishers) \in Nat
<1>1. Len(stream) \in Nat /\ DOMAIN stream = 1 .. Len(stream)
  BY DEF TypeOK
<1>2. IsFiniteSet(1 .. Len(stream))
  BY <1>1, FS_Interval
<1>3. IsFiniteSet(Arrivals(e))
  BY <1>1, <1>2, FS_Subset DEF Arrivals
<1>4. Copies(e) = Cardinality(Arrivals(e))
  BY DEF Copies, Arrivals
<1> QED
  BY <1>3, <1>4, FS_Subset, FS_CardinalityType DEF OutboxAssumption, SpentOn

(* Steps that publish nothing: as many messages as before, or fewer.       *)
LEMMA NoMoreCopies ==
    ASSUME OutboxAssumption, TypeOK, TypeOK', CopiesOwed, NEW e \in Events,
           stream' = stream, Slots(e)' \subseteq Slots(e),
           \/ /\ \A p \in Publishers : Spent(p, e) => Spent(p, e)'
              /\ faults <= faults'
           \/ /\ \E q \in Publishers : \A p \in Publishers \ {q} : Spent(p, e) => Spent(p, e)'
              /\ faults' = faults + 1
    PROVE  /\ IsFiniteSet(Slots(e)')
           /\ Copies(e)' + Cardinality(Slots(e)') <= Cardinality(SpentOn(e)') + faults'
<1> DEFINE S == SpentOn(e)
           T == SpentOn(e)'
<1>1. /\ IsFiniteSet(Slots(e))
      /\ Copies(e) + Cardinality(Slots(e)) <= Cardinality(S) + faults
  BY DEF CopiesOwed
<1>2. /\ IsFiniteSet(Slots(e)') /\ Cardinality(Slots(e)') <= Cardinality(Slots(e))
  BY <1>1, FS_Subset
<1>3. /\ Copies(e) \in Nat /\ Cardinality(Slots(e)) \in Nat
      /\ IsFiniteSet(S) /\ Cardinality(S) \in Nat
  BY <1>1, CountsAreNumbers
<1>4. Cardinality(Slots(e)') \in Nat
  BY <1>2, FS_CardinalityType
<1>5. IsFiniteSet(T) /\ Cardinality(T) \in Nat
  BY FS_Subset, FS_CardinalityType DEF OutboxAssumption, SpentOn
<1>6. Copies(e)' = Copies(e)
  BY DEF Copies
<1>7. faults \in Nat /\ faults' \in Nat
  BY DEF TypeOK
<1>8. ASSUME \A p \in Publishers : Spent(p, e) => Spent(p, e)', faults <= faults'
      PROVE  Copies(e)' + Cardinality(Slots(e)') <= Cardinality(T) + faults'
  <2>1. S \subseteq T
    BY <1>8 DEF SpentOn
  <2>2. Cardinality(S) <= Cardinality(T)
    BY <1>5, <2>1, FS_Subset
  <2> HIDE DEF S, T
  <2> QED
    BY <1>1, <1>2, <1>3, <1>4, <1>5, <1>6, <1>7, <1>8, <2>2
<1>9. ASSUME NEW q \in Publishers,
             \A p \in Publishers \ {q} : Spent(p, e) => Spent(p, e)',
             faults' = faults + 1
      PROVE  Copies(e)' + Cardinality(Slots(e)') <= Cardinality(T) + faults'
  <2>1. S \subseteq T \cup {q}
    BY <1>9 DEF SpentOn
  <2>2. /\ IsFiniteSet(T \cup {q})
        /\ Cardinality(T \cup {q}) <= Cardinality(T) + 1
        /\ Cardinality(T \cup {q}) \in Nat
    BY <1>5, OneMore
  <2>3. Cardinality(S) <= Cardinality(T \cup {q})
    BY <2>1, <2>2, FS_Subset
  <2> HIDE DEF S, T
  <2> QED
    BY <1>1, <1>2, <1>3, <1>4, <1>5, <1>6, <1>7, <1>9, <2>2, <2>3
<1> QED
  BY <1>2, <1>8, <1>9

LEMMA CopiesPublish ==
    ASSUME OutboxAssumption, CopiesInv, TypeOK', NEW q \in Publishers,
           NEW x \in Events, Publish(q, x)
    PROVE  CopiesOwed'
<1>1. /\ pc[q] = "publish" /\ x \in todo[q]
      /\ todo' = [todo EXCEPT ![q] = @ \ {x}] /\ sent' = [sent EXCEPT ![q] = @ \cup {x}]
      /\ buffer' = [buffer EXCEPT ![q] = Append(@, x)]
      /\ UNCHANGED <<row, pc, stream, faults>>
  BY DEF Publish, Offer, IsNext, tableVars
<1> DEFINE n == Len(buffer[q])
<1>2. /\ buffer[q] \in Seq(Events) /\ n \in Nat /\ DOMAIN buffer[q] = 1 .. n
      /\ DOMAIN buffer'[q] = 1 .. n + 1 /\ buffer'[q][n + 1] = x
      /\ \A i \in 1 .. n : buffer'[q][i] = buffer[q][i]
      /\ \A p \in Publishers \ {q} : buffer'[p] = buffer[p]
  BY <1>1 DEF CopiesInv, TypeOK
<1>3. ASSUME NEW e \in Events, NEW p \in Publishers
      PROVE  Spent(p, e) => Spent(p, e)'
  BY <1>1 DEF CopiesInv, TypeOK, Spent
<1>4. ASSUME NEW e \in Events, e # x
      PROVE  /\ IsFiniteSet(Slots(e)')
             /\ Copies(e)' + Cardinality(Slots(e)') <= Cardinality(SpentOn(e)') + faults'
  <2>1. Slots(e)' \subseteq Slots(e)
    BY <1>2, <1>4 DEF Slots
  <2>2. \A p \in Publishers : Spent(p, e) => Spent(p, e)'
    BY <1>3
  <2>3. faults <= faults'
    BY <1>1 DEF CopiesInv, TypeOK
  <2> QED
    BY <1>1, <2>1, <2>2, <2>3, NoMoreCopies DEF CopiesInv
<1>5. /\ IsFiniteSet(Slots(x)')
      /\ Copies(x)' + Cardinality(Slots(x)') <= Cardinality(SpentOn(x)') + faults'
  <2>1. Slots(x)' \subseteq Slots(x) \cup {<<q, n + 1>>}
    BY <1>2 DEF Slots
  <2>2. /\ IsFiniteSet(Slots(x))
        /\ Copies(x) + Cardinality(Slots(x)) <= Cardinality(SpentOn(x)) + faults
    BY DEF CopiesInv, CopiesOwed
  <2>3. /\ IsFiniteSet(Slots(x) \cup {<<q, n + 1>>})
        /\ Cardinality(Slots(x) \cup {<<q, n + 1>>}) <= Cardinality(Slots(x)) + 1
    BY <2>2, OneMore
  <2>4. /\ IsFiniteSet(Slots(x)')
        /\ Cardinality(Slots(x)') <= Cardinality(Slots(x) \cup {<<q, n + 1>>})
    BY <2>1, <2>3, FS_Subset
  <2>5. q \notin SpentOn(x) /\ q \in SpentOn(x)'
    BY <1>1 DEF CopiesInv, TypeOK, OfferedOnce, SpentOn, Spent
  <2>6. SpentOn(x) \cup {q} \subseteq SpentOn(x)'
    BY <1>3, <2>5 DEF SpentOn
  <2>7. /\ IsFiniteSet(SpentOn(x)) /\ IsFiniteSet(SpentOn(x)')
    BY FS_Subset DEF OutboxAssumption, SpentOn
  <2>8. Cardinality(SpentOn(x) \cup {q}) = Cardinality(SpentOn(x)) + 1
    BY <2>5, <2>7, OneMore
  <2>9. Cardinality(SpentOn(x) \cup {q}) <= Cardinality(SpentOn(x)')
    BY <2>6, <2>7, FS_Subset
  <2>10. /\ Copies(x) \in Nat /\ Cardinality(Slots(x)) \in Nat
         /\ Cardinality(Slots(x)') \in Nat /\ Cardinality(SpentOn(x)) \in Nat
         /\ Cardinality(SpentOn(x)') \in Nat /\ faults \in Nat /\ faults' = faults
         /\ Cardinality(Slots(x) \cup {<<q, n + 1>>}) \in Nat
    BY <1>1, <2>2, <2>3, <2>4, <2>7, CountsAreNumbers, FS_CardinalityType DEF CopiesInv, TypeOK
  <2>11. Copies(x)' = Copies(x)
    BY <1>1 DEF Copies
  <2> QED
    BY <2>2, <2>3, <2>4, <2>8, <2>9, <2>10, <2>11
<1> QED
  BY <1>4, <1>5 DEF CopiesOwed

(* A flush makes a message of the buffer one of the stream.                *)
LEMMA CopiesFlush ==
    ASSUME OutboxAssumption, CopiesInv, TypeOK', NEW q \in Publishers, Flush(q)
    PROVE  CopiesOwed'
<1> DEFINE s == buffer[q]
           h == Head(s)
           n == Len(s)
           m == Len(stream)
<1>1. /\ s # <<>> /\ stream' = Append(stream, h)
      /\ buffer' = [buffer EXCEPT ![q] = Tail(@)]
      /\ UNCHANGED <<row, pc, todo, sent, faults>>
  BY DEF Flush, tableVars, taskVars
<1>2. /\ s \in Seq(Events) /\ n \in Nat \ {0} /\ DOMAIN s = 1 .. n /\ h = s[1]
      /\ h \in Events
      /\ buffer'[q] = Tail(s) /\ DOMAIN Tail(s) = 1 .. n - 1
      /\ \A i \in 1 .. n - 1 : Tail(s)[i] = s[i + 1]
      /\ \A p \in Publishers \ {q} : buffer'[p] = buffer[p]
  BY <1>1 DEF CopiesInv, TypeOK
<1>3. /\ stream \in Seq(Events) /\ m \in Nat /\ DOMAIN stream = 1 .. m
      /\ DOMAIN stream' = 1 .. m + 1 /\ stream'[m + 1] = h
      /\ \A i \in 1 .. m : stream'[i] = stream[i]
  BY <1>1, <1>2 DEF CopiesInv, TypeOK
<1> SUFFICES ASSUME NEW e \in Events
             PROVE  /\ IsFiniteSet(Slots(e)')
                    /\ Copies(e)' + Cardinality(Slots(e)')
                          <= Cardinality(SpentOn(e)') + faults'
  BY DEF CopiesOwed
<1> DEFINE B == Slots(e) \ {<<q, 1>>}
           f == [x \in B |-> IF x[1] = q THEN <<q, x[2] - 1>> ELSE x]
           C == {f[x] : x \in B}
<1>4. Slots(e)' \subseteq C
  <2> SUFFICES ASSUME NEW x \in Slots(e)' PROVE x \in C
    OBVIOUS
  <2> DEFINE p == x[1]
             i == x[2]
  <2>0. /\ p \in Publishers /\ i \in Nat /\ x = <<p, i>>
        /\ i \in DOMAIN buffer'[p] /\ buffer'[p][i] = e
    BY DEF Slots
  <2> HIDE DEF p, i
  <2>1. CASE p = q
    <3>1. i \in 1 .. n - 1 /\ s[i + 1] = e
      BY <1>2, <2>0, <2>1
    <3>2. i + 1 \in DOMAIN s /\ i + 1 # 1 /\ (i + 1) - 1 = i /\ i + 1 \in Nat
      BY <1>2, <3>1
    <3>3. <<q, i + 1>> \in B
      BY <3>1, <3>2 DEF Slots
    <3>4. f[<<q, i + 1>>] = <<q, i>>
      BY <3>2, <3>3
    <3> QED
      BY <2>0, <2>1, <3>3, <3>4
  <2>2. CASE p # q
    <3>1. <<p, i>> \in B
      BY <1>2, <2>0, <2>2 DEF Slots
    <3>2. f[<<p, i>>] = <<p, i>>
      BY <2>2, <3>1
    <3> QED
      BY <2>0, <3>1, <3>2
  <2> QED
    BY <2>1, <2>2
<1>5. /\ IsFiniteSet(Slots(e))
      /\ Copies(e) + Cardinality(Slots(e)) <= Cardinality(SpentOn(e)) + faults
  BY DEF CopiesInv, CopiesOwed
<1>6. IsFiniteSet(B) /\ Cardinality(B) \in Nat /\ Cardinality(Slots(e)) \in Nat
  BY <1>5, FS_Subset, FS_CardinalityType
<1>7. IsFiniteSet(C) /\ Cardinality(C) <= Cardinality(B) /\ Cardinality(C) \in Nat
  <2> HIDE DEF B, f
  <2> QED BY <1>6, Image, FS_CardinalityType
<1>8. /\ IsFiniteSet(Slots(e)') /\ Cardinality(Slots(e)') <= Cardinality(C)
      /\ Cardinality(Slots(e)') \in Nat
  <2> HIDE DEF C
  <2> QED BY <1>4, <1>7, FS_Subset, FS_CardinalityType
<1>9. SpentOn(e)' = SpentOn(e)
  BY <1>1 DEF SpentOn, Spent
<1>10. /\ IsFiniteSet(Arrivals(e)) /\ Copies(e) \in Nat
       /\ Cardinality(SpentOn(e)) \in Nat /\ Copies(e) = Cardinality(Arrivals(e))
  BY <1>5, CountsAreNumbers DEF CopiesInv
<1>11. Copies(e)' = Cardinality(Arrivals(e)')
  BY DEF Copies, Arrivals
<1>12. faults \in Nat /\ faults' = faults
  BY <1>1 DEF CopiesInv, TypeOK
<1>13. CASE e = h
  <2>1. <<q, 1>> \in Slots(e)
    BY <1>2, <1>13 DEF Slots
  <2>2. Cardinality(B) = Cardinality(Slots(e)) - 1
    BY <1>5, <2>1, FS_RemoveElement
  <2>3. Arrivals(e)' = Arrivals(e) \cup {m + 1} /\ m + 1 \notin Arrivals(e)
    BY <1>3, <1>13 DEF Arrivals
  <2>4. Cardinality(Arrivals(e)') = Cardinality(Arrivals(e)) + 1
    BY <1>10, <2>3, OneMore
  <2> HIDE DEF B, C
  <2> QED
    BY <1>5, <1>6, <1>7, <1>8, <1>9, <1>10, <1>11, <1>12, <2>2, <2>4
<1>14. CASE e # h
  <2>1. Arrivals(e)' = Arrivals(e)
    BY <1>3, <1>14 DEF Arrivals
  <2>2. Cardinality(B) <= Cardinality(Slots(e))
    BY <1>5, FS_Subset
  <2> HIDE DEF B, C
  <2> QED
    BY <1>5, <1>6, <1>7, <1>8, <1>9, <1>10, <1>11, <1>12, <2>1, <2>2
<1> QED
  BY <1>13, <1>14

(* What a step does to a batch.                                            *)
LEMMA BatchSteps ==
    ASSUME TypeOK, [Next]_vars, NEW p \in Publishers
    PROVE  \/ todo'[p] = todo[p] /\ sent'[p] = sent[p] /\ pc'[p] \in {pc[p], "idle", "mark"}
           \/ sent'[p] = {}
           \/ /\ pc[p] = "publish"
              /\ \E e \in todo[p] :
                   /\ todo'[p] = todo[p] \ {e}
                   /\ sent'[p] = sent[p] \/ sent'[p] = sent[p] \cup {e}
<1>1. ASSUME NEW q \in Publishers, Select(q) \/ Crash(q)
      PROVE  \/ sent'[p] = {}
             \/ todo'[p] = todo[p] /\ sent'[p] = sent[p] /\ pc'[p] = pc[p]
  <2>1. /\ \E S : todo' = [todo EXCEPT ![q] = S]
        /\ \E l : pc' = [pc EXCEPT ![q] = l]
        /\ sent' = [sent EXCEPT ![q] = {}]
    BY <1>1 DEF Select, Crash
  <2>2. CASE p = q
    BY <2>1, <2>2 DEF TypeOK
  <2>3. CASE p # q
    BY <2>1, <2>3 DEF TypeOK
  <2> QED
    BY <2>2, <2>3
<1>2. ASSUME NEW q \in Publishers, NEW e \in Events, Publish(q, e) \/ PublishFails(q, e)
      PROVE  \/ todo'[p] = todo[p] /\ sent'[p] = sent[p] /\ pc'[p] = pc[p]
             \/ /\ pc[p] = "publish" /\ e \in todo[p]
                /\ todo'[p] = todo[p] \ {e}
                /\ sent'[p] = sent[p] \/ sent'[p] = sent[p] \cup {e}
  BY <1>2 DEF TypeOK, Publish, PublishFails, Offer, IsNext
<1>3. ASSUME NEW q \in Publishers, EndBatch(q) \/ Mark(q) \/ MarkFails(q) \/ Flush(q)
      PROVE  todo'[p] = todo[p] /\ sent'[p] = sent[p] /\ pc'[p] \in {pc[p], "idle", "mark"}
  BY <1>3 DEF TypeOK, EndBatch, Mark, MarkFails, Flush, taskVars
<1>4. ASSUME NEW e \in Events, TransactionStep(e)
      PROVE  todo'[p] = todo[p] /\ sent'[p] = sent[p] /\ pc'[p] = pc[p]
  BY <1>4 DEF TransactionStep, Begin, Commit, Abort, taskVars
<1>5. CASE UNCHANGED vars
  BY <1>5 DEF vars, taskVars
<1> QED
  BY <1>1, <1>2, <1>3, <1>4, <1>5 DEF Next, PublisherStep

LEMMA CopiesStep ==
    ASSUME OutboxAssumption, CopiesInv, FetchedCommitted, TypeOK', [Next]_vars
    PROVE  CopiesInv'
<1>1. OfferedOnce'
  <2> SUFFICES ASSUME NEW q \in Publishers PROVE todo'[q] \cap sent'[q] = {}
    BY DEF OfferedOnce
  <2> QED
    BY BatchSteps DEF CopiesInv, OfferedOnce
<1>2. ASSUME stream' = stream,
             \A e \in Events :
                /\ Slots(e)' \subseteq Slots(e)
                /\ \/ /\ \A p \in Publishers : Spent(p, e) => Spent(p, e)'
                      /\ faults <= faults'
                   \/ /\ \E q \in Publishers : \A p \in Publishers \ {q} :
                            Spent(p, e) => Spent(p, e)'
                      /\ faults' = faults + 1
      PROVE  CopiesOwed'
  BY <1>2, NoMoreCopies DEF CopiesInv, CopiesOwed
<1>3. ASSUME UNCHANGED <<stream, buffer>> PROVE \A e \in Events : Slots(e)' \subseteq Slots(e)
  BY <1>3 DEF Slots
<1>4. ASSUME NEW x \in Events, TransactionStep(x) PROVE CopiesOwed'
  <2>1. /\ UNCHANGED <<stream, buffer, pc, todo, sent, faults>>
        /\ \A e \in Events : row'[e] = "published" <=> row[e] = "published"
    BY <1>4 DEF CopiesInv, TypeOK, TransactionStep, Begin, Commit, Abort, busVars,
       taskVars
  <2>2. faults <= faults' /\ \A e \in Events, p \in Publishers : Spent(p, e) => Spent(p, e)'
    BY <2>1 DEF CopiesInv, TypeOK, Spent
  <2> QED
    BY <1>2, <1>3, <2>1, <2>2
<1>5. ASSUME NEW q \in Publishers,
             Select(q) \/ EndBatch(q) \/ Mark(q) \/ \E e \in Events : PublishFails(q, e)
      PROVE  CopiesOwed'
  <2>1. UNCHANGED <<stream, buffer>> /\ faults <= faults'
    BY <1>5 DEF CopiesInv, TypeOK, Select, EndBatch, Mark, PublishFails, Fault, busVars
  <2>2. ASSUME NEW e \in Events, NEW p \in Publishers, Spent(p, e)
        PROVE  Spent(p, e)'
    <3>1. CASE Select(q)
      <4>1. /\ row' = row /\ pc[q] = "idle" /\ todo' = [todo EXCEPT ![q] = Fetched]
            /\ sent' = [sent EXCEPT ![q] = {}] /\ pc' = [pc EXCEPT ![q] = "publish"]
        BY <3>1 DEF Select, tableVars
      <4>2. row[e] = "published" => e \notin Fetched
        BY DEF Fetched, Unpublished
      <4> QED
        BY <2>2, <4>1, <4>2 DEF CopiesInv, TypeOK, Spent
    <3>2. CASE EndBatch(q)
      BY <2>2, <3>2 DEF CopiesInv, TypeOK, Spent, EndBatch, tableVars
    <3>3. CASE Mark(q)
      <4>1. /\ UNCHANGED <<todo, sent>> /\ pc[q] = "mark" /\ pc' = [pc EXCEPT ![q] = "idle"]
            /\ row' = [x \in Events |-> IF x \in sent[q] /\ row[x] = "unpublished"
                                        THEN "published" ELSE row[x]]
        BY <3>3 DEF Mark
      <4>2. CASE row'[e] = "published" /\ row[e] # "published"
        BY <2>2, <4>1, <4>2 DEF CopiesInv, TypeOK, OfferedOnce, Spent
      <4>3. CASE row'[e] = "published" /\ row[e] = "published"
        BY <2>2, <4>1, <4>3 DEF Spent
      <4>4. CASE row'[e] # "published"
        <5>1. row[e] # "published" /\ e \in sent[p] /\ pc[p] # "idle"
          BY <2>2, <4>1, <4>4 DEF Spent
        <5>2. p # q
          BY <4>1, <4>4, <5>1 DEF CopiesInv, SentCommitted, Committed
        <5> QED
          BY <4>1, <4>4, <5>1, <5>2 DEF CopiesInv, TypeOK, Spent
      <4> QED
        BY <4>2, <4>3, <4>4
    <3>4. CASE \E x \in Events : PublishFails(q, x)
      BY <2>2, <3>4 DEF CopiesInv, TypeOK, Spent, PublishFails, Offer, tableVars
    <3> QED
      BY <1>5, <3>1, <3>2, <3>3, <3>4
  <2> QED
    BY <1>2, <1>3, <2>1, <2>2
<1>6. ASSUME NEW q \in Publishers, MarkFails(q) PROVE CopiesOwed'
  <2>1. /\ UNCHANGED <<stream, buffer, row, todo, sent>> /\ faults' = faults + 1
        /\ pc' = [pc EXCEPT ![q] = "idle"]
    BY <1>6 DEF MarkFails, Fault, busVars, tableVars
  <2>2. \A e \in Events, p \in Publishers \ {q} : Spent(p, e) => Spent(p, e)'
    BY <2>1 DEF CopiesInv, TypeOK, Spent
  <2> QED
    BY <1>2, <1>3, <2>1, <2>2
<1>7. ASSUME NEW q \in Publishers, Crash(q) PROVE CopiesOwed'
  <2>1. /\ UNCHANGED <<stream, row>> /\ faults' = faults + 1
        /\ pc' = [pc EXCEPT ![q] = "idle"] /\ todo' = [todo EXCEPT ![q] = {}]
        /\ sent' = [sent EXCEPT ![q] = {}] /\ buffer' = [buffer EXCEPT ![q] = <<>>]
    BY <1>7 DEF Crash, Fault, tableVars
  <2>2. \A e \in Events, p \in Publishers \ {q} : Spent(p, e) => Spent(p, e)'
    BY <2>1 DEF CopiesInv, TypeOK, Spent
  <2>3. \A e \in Events : Slots(e)' \subseteq Slots(e)
    <3>1. buffer'[q] = <<>> /\ \A p \in Publishers \ {q} : buffer'[p] = buffer[p]
      BY <2>1 DEF CopiesInv, TypeOK
    <3> QED
      BY <3>1 DEF Slots
  <2> QED
    BY <1>2, <2>1, <2>2, <2>3
<1>8. ASSUME UNCHANGED vars PROVE CopiesOwed'
  <2>1. UNCHANGED <<stream, buffer>> /\ faults <= faults'
    BY <1>8 DEF CopiesInv, TypeOK, vars, busVars
  <2>2. \A e \in Events, p \in Publishers : Spent(p, e) => Spent(p, e)'
    BY <1>8 DEF vars, tableVars, taskVars, Spent
  <2> QED
    BY <1>2, <1>3, <2>1, <2>2
<1>9. CopiesOwed'
  BY <1>4, <1>5, <1>6, <1>7, <1>8, CopiesPublish, CopiesFlush
     DEF Next, PublisherStep
<1>10. SentCommitted'
  <2> SUFFICES ASSUME NEW q \in Publishers PROVE sent'[q] \subseteq Committed'
    BY DEF SentCommitted
  <2>1. sent'[q] \subseteq sent[q] \cup todo[q]
    BY BatchSteps DEF CopiesInv
  <2> QED
    BY <2>1, CommittedStable DEF CopiesInv, SentCommitted, FetchedCommitted
<1> QED
  BY <1>1, <1>9, <1>10 DEF CopiesInv

(* There are never more copies of an event than publishers and faults.     *)
THEOREM BoundedCopies == Spec => []CopiesBounded
<1>1. Init => CopiesInv
  <2> SUFFICES ASSUME Init PROVE CopiesInv
    OBVIOUS
  <2>1. TypeOK
    BY DEF Init, TypeOK, RowStates
  <2>2. ASSUME NEW e \in Events
        PROVE  /\ Slots(e) = {} /\ Copies(e) = Cardinality({})
               /\ SpentOn(e) = {}
    <3>1. {i \in DOMAIN stream : stream[i] = e} = {}
      BY DEF Init
    <3>2. \A p \in Publishers : DOMAIN buffer[p] = {}
      BY DEF Init
    <3> QED
      BY <3>1, <3>2 DEF Init, Slots, Copies, SpentOn, Spent
  <2>3. IsFiniteSet({}) /\ Cardinality({}) = 0 /\ faults = 0
    BY FS_EmptySet DEF Init
  <2>4. CopiesOwed
    <3> SUFFICES ASSUME NEW e \in Events
                 PROVE  /\ IsFiniteSet(Slots(e))
                        /\ Copies(e) + Cardinality(Slots(e))
                              <= Cardinality(SpentOn(e)) + faults
      BY DEF CopiesOwed
    <3> QED
      BY <2>2, <2>3
  <2> QED
    BY <2>1, <2>4 DEF CopiesInv, OfferedOnce, SentCommitted, Init
<1>2. CopiesInv => CopiesBounded
  <2> SUFFICES ASSUME CopiesInv, NEW e \in Events
               PROVE  Copies(e) <= Cardinality(Publishers) + faults
    BY DEF CopiesBounded
  <2>1. /\ IsFiniteSet(Slots(e)) /\ faults \in Nat
        /\ Copies(e) + Cardinality(Slots(e)) <= Cardinality(SpentOn(e)) + faults
    BY DEF CopiesInv, CopiesOwed, TypeOK
  <2>2. /\ Copies(e) \in Nat /\ Cardinality(Slots(e)) \in Nat
        /\ Cardinality(SpentOn(e)) \in Nat
        /\ Cardinality(SpentOn(e)) <= Cardinality(Publishers)
        /\ Cardinality(Publishers) \in Nat
    BY <2>1, OutboxAssumption, CountsAreNumbers DEF CopiesInv
  <2> QED
    BY <2>1, <2>2
<1>3. CopiesInv /\ CommitInv /\ TypeOK' /\ [Next]_vars => CopiesInv'
  BY OutboxAssumption, CopiesStep DEF CommitInv
<1> QED
  BY <1>1, <1>2, <1>3, TypeCorrect, CommitInvariant, PTL DEF Spec
=============================================================================
