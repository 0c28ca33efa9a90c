------------------------ MODULE EventConsumerProofs ------------------------
(***************************************************************************)
(* Proofs about EventConsumer for any events, workers, attempts, stream    *)
(* length and faults.                                                      *)
(*                                                                         *)
(* A worker owns an event from the INSERT that made the row of             *)
(* event_dedupe until the handler's outcome is known.  The row outlives    *)
(* the ownership unless the owner removes it after a transient error, so   *)
(* an event that was applied, or dead-lettered as fatal, keeps its row and *)
(* nobody can own it again.                                                *)
(***************************************************************************)
EXTENDS EventConsumer, FiniteSetTheorems, TLAPS

(* The owner's row is there. *)
OwnerClaimed == \A w \in Workers, e \in Events : Owns(w, e) => e \in claimed

(* The row is there and nobody may run the handler any more. *)
Settled(e) == e \in claimed /\ \A w \in Workers : ~ Owns(w, e)

AppliedSettled == \A e \in Events : applied[e] > 0 => Settled(e)

FatalSettled == \A e \in Events : dlq[e] = "fatal" => Settled(e)

ClaimInv ==
    /\ TypeOK /\ OwnerClaimed /\ OneHandler
    /\ AppliedOnce /\ AppliedSettled
    /\ FatalNotApplied /\ FatalSettled

-----------------------------------------------------------------------------
(* Type correctness. *)

(* Appending keeps the positions there are and what stands at them. *)
LEMMA ProduceExtends ==
    ASSUME TypeOK, NEW e \in Events, stream' = Append(stream, e)
    PROVE  /\ stream' \in Seq(Events)
           /\ Positions \subseteq Positions'
           /\ \A m \in Positions : stream'[m] = stream[m]
<1>1. stream \in Seq(Events)
  BY DEF TypeOK
<1> QED BY <1>1 DEF Positions

(* A queue of positions is a queue of positions of a longer stream. *)
LEMMA SeqMonotone ==
    ASSUME NEW S, NEW T, S \subseteq T, NEW s \in Seq(S)
    PROVE  s \in Seq(T)
OBVIOUS

LEMMA NextAttemptType ==
    ASSUME TypeOK, NEW w \in Workers, NextAttempt(w)
    PROVE  /\ attempt' \in [Workers -> 1 .. MaxAttempts]
           /\ pc' \in [Workers -> Places]
           /\ pc'[w] \in {"claim", "exhausted"}
           /\ \A v \in Workers \ {w} : pc'[v] = pc[v]
<1>1. attempt \in [Workers -> 1 .. MaxAttempts] /\ pc \in [Workers -> Places]
  BY DEF TypeOK
<1>2. CASE attempt[w] < MaxAttempts
  <2>1. attempt' = [attempt EXCEPT ![w] = @ + 1]
        /\ pc' = [pc EXCEPT ![w] = "claim"]
    BY <1>2 DEF NextAttempt, Goto
  <2>2. attempt[w] + 1 \in 1 .. MaxAttempts
    BY <1>1, <1>2, ConsumerAssumption
  <2> QED BY <1>1, <2>1, <2>2 DEF Places
<1>3. CASE ~ (attempt[w] < MaxAttempts)
  <2>1. attempt' = attempt /\ pc' = [pc EXCEPT ![w] = "exhausted"]
    BY <1>3 DEF NextAttempt, Goto
  <2> QED BY <1>1, <2>1 DEF Places
<1> QED BY <1>2, <1>3

LEMMA WriteDlqType ==
    ASSUME dlq \in [Events -> FailureKind \cup {"none"}], faults \in Nat,
           NEW e \in Events, NEW kind \in FailureKind, WriteDlq(e, kind)
    PROVE  dlq' \in [Events -> FailureKind \cup {"none"}] /\ faults' \in Nat
BY DEF WriteDlq, Fault

(* Every variable keeps its type, whatever the interleaving. *)
THEOREM TypeCorrect == Spec => []TypeOK
<1>1. Init => TypeOK
  BY ConsumerAssumption DEF Init, TypeOK, Places, Positions
<1>2. TypeOK /\ [Next]_vars => TypeOK'
  <2> SUFFICES ASSUME TypeOK, [Next]_vars PROVE TypeOK'
    OBVIOUS
  <2>1. ASSUME NEW e \in Events, Produce(e) PROVE TypeOK'
    <3>1. /\ stream' \in Seq(Events)
          /\ Positions \subseteq Positions'
      BY <2>1, ProduceExtends DEF Produce
    <3>2. queue' \in [Workers -> Seq(Positions')]
      <4>1. queue' = queue /\ queue \in [Workers -> Seq(Positions)]
        BY <2>1 DEF Produce, workerVars, TypeOK
      <4>2. \A w \in Workers : queue[w] \in Seq(Positions')
        BY <4>1, <3>1, SeqMonotone
      <4> QED BY <4>1, <4>2
    <3> QED BY <2>1, <3>1, <3>2 DEF Produce, dbVars, workerVars, TypeOK
  <2> USE DEF TypeOK
  <2>2. ASSUME NEW w \in Workers, NEW m \in Positions, Deliver(w, m)
        PROVE TypeOK'
    <3>1. queue' \in [Workers -> Seq(Positions)]
      BY <2>2 DEF Deliver
    <3> QED BY <2>2, <3>1 DEF Deliver, dbVars, Positions
  <2>3. ASSUME NEW m \in Positions, Expire(m) PROVE TypeOK'
    BY <2>3 DEF Expire, Fault, dbVars, workerVars, Positions
  <2>4. ASSUME NEW w \in Workers, Receive(w) PROVE TypeOK'
    <3>1. queue[w] \in Seq(Positions) /\ queue[w] # <<>>
      BY <2>4 DEF Receive
    <3>2. Head(queue[w]) \in Positions /\ Tail(queue[w]) \in Seq(Positions)
      BY <3>1
    <3>3. Positions \subseteq Nat
      BY DEF Positions
    <3>4. queue' \in [Workers -> Seq(Positions)] /\ cur' \in [Workers -> Nat]
      BY <2>4, <3>2, <3>3 DEF Receive
    <3>5. attempt' \in [Workers -> 1 .. MaxAttempts]
      BY <2>4, ConsumerAssumption DEF Receive
    <3>6. pc' \in [Workers -> Places]
      BY <2>4 DEF Receive, Goto, Places
    <3>7. \A v \in Workers : pc'[v] # "idle" => cur'[v] \in Positions
      BY <2>4, <3>2 DEF Receive, Goto
    <3> QED BY <2>4, <3>4, <3>5, <3>6, <3>7
            DEF Receive, serverVars, dbVars, Positions
  <2>5. ASSUME NEW w \in Workers, Claim(w) PROVE TypeOK'
    BY <2>5 DEF Claim, Goto, Event, Places, serverVars, Positions
  <2>6. ASSUME NEW w \in Workers, ClaimFails(w) PROVE TypeOK'
    BY <2>6, NextAttemptType
    DEF ClaimFails, Fault, serverVars, dbVars, Positions
  <2>7. ASSUME NEW w \in Workers, HandleOk(w) PROVE TypeOK'
    BY <2>7 DEF HandleOk, Goto, Event, Places, serverVars, Positions
  <2>8. ASSUME NEW w \in Workers, HandleTransient(w) PROVE TypeOK'
    BY <2>8 DEF HandleTransient, Goto, Places, serverVars, dbVars, Positions
  <2>9. ASSUME NEW w \in Workers, HandlePermanent(w) PROVE TypeOK'
    BY <2>9 DEF HandlePermanent, Goto, Places, serverVars, dbVars, Positions
  <2>10. ASSUME NEW w \in Workers, Skip(w) PROVE TypeOK'
    BY <2>10 DEF Skip, Goto, Places, serverVars, dbVars, Positions
  <2>11. ASSUME NEW w \in Workers, NEW place \in Places \ {"idle"},
                NEW kind \in FailureKind, DeadLetter(w, place, kind)
         PROVE TypeOK'
    <3>1. cur[w] \in Positions /\ Event(w) \in Events
      BY <2>11 DEF DeadLetter, Event, Positions
    <3>2. dlq' \in [Events -> FailureKind \cup {"none"}] /\ faults' \in Nat
      BY <2>11, <3>1, WriteDlqType DEF DeadLetter
    <3>3. pc' = [pc EXCEPT ![w] = "ack"]
      BY <2>11 DEF DeadLetter, Goto
    <3> QED BY <2>11, <3>2, <3>3 DEF DeadLetter, Places, serverVars, Positions
  <2>12. ASSUME NEW w \in Workers, Unclaim(w) PROVE TypeOK'
    BY <2>12, NextAttemptType DEF Unclaim, Fault, serverVars, Positions
  <2>13. ASSUME NEW w \in Workers, Ack(w) PROVE TypeOK'
    BY <2>13 DEF Ack, Fault, Goto, Places, dbVars, Positions
  <2>14. ASSUME NEW w \in Workers, Crash(w) PROVE TypeOK'
    BY <2>14 DEF Crash, Fault, Goto, Places, serverVars, dbVars, Positions
  <2>15. CASE UNCHANGED vars
    BY <2>15 DEF vars, serverVars, dbVars, workerVars, Positions
  <2> QED BY <2>1, <2>2, <2>3, <2>4, <2>5, <2>6, <2>7, <2>8, <2>9, <2>10,
             <2>11, <2>12, <2>13, <2>14, <2>15
          DEF Next, ServerStep, WorkerStep, Poison, Fatal, Exhaust, Places,
              FailureKind
<1> QED BY <1>1, <1>2, PTL DEF Spec

-----------------------------------------------------------------------------
(* Ownership.                                                              *)

(* A worker comes to own an event by claiming one that nobody has claimed. *)
LEMMA OwnershipStarts ==
    ASSUME TypeOK, [Next]_vars, NEW w \in Workers, NEW e \in Events,
           Owns(w, e)', ~ Owns(w, e)
    PROVE  Claim(w) /\ e = Event(w) /\ e \notin claimed
<1>1. ASSUME NEW f \in Events, Produce(f) PROVE FALSE
  <2>1. pc' = pc /\ cur' = cur
    BY <1>1 DEF Produce, workerVars
  <2>2. cur[w] \in Positions
    BY <2>1 DEF Owns, TypeOK
  <2>3. stream'[cur[w]] = stream[cur[w]]
    BY <1>1, <2>2, ProduceExtends DEF Produce
  <2> QED BY <2>1, <2>3 DEF Owns, Event
<1>2. CASE UNCHANGED <<stream, pc, cur>>
  BY <1>2 DEF Owns, Event
<1>3. ASSUME NEW v \in Workers, WorkerStep(v) \/ Crash(v)
      PROVE v = w /\ Claim(v) /\ e = Event(v) /\ e \notin claimed
  <2>1. stream' = stream
    BY <1>3 DEF WorkerStep, Receive, Claim, ClaimFails, HandleOk,
                HandleTransient, HandlePermanent, Skip, Poison, Fatal, Exhaust,
                DeadLetter, Unclaim, Ack, Crash, serverVars
  <2>2. \A u \in Workers \ {v} : pc'[u] = pc[u] /\ cur'[u] = cur[u]
    BY <1>3, NextAttemptType
    DEF WorkerStep, Receive, Claim, ClaimFails, HandleOk, HandleTransient,
        HandlePermanent, Skip, Poison, Fatal, Exhaust, DeadLetter, Unclaim, Ack,
        Crash, Goto, TypeOK
  <2>3. v = w
    BY <2>1, <2>2 DEF Owns, Event
  <2>4. pc'[w] \in {"handle", "unclaim", "fatal"}
    BY DEF Owns
  <2>5. CASE Claim(w)
    BY <2>3, <2>4, <2>5, <2>1 DEF Claim, Goto, Owns, Event, TypeOK
  <2>6. CASE HandleTransient(w) \/ HandlePermanent(w)
    <3>1. pc[w] = "handle" /\ cur' = cur
      BY <2>6 DEF HandleTransient, HandlePermanent
    <3> QED BY <3>1, <2>1 DEF Owns, Event
  <2>7. Claim(w) \/ HandleTransient(w) \/ HandlePermanent(w)
    BY <1>3, <2>3, <2>4, NextAttemptType
    DEF WorkerStep, Receive, ClaimFails, HandleOk, Skip, Poison, Fatal, Exhaust,
        DeadLetter, Unclaim, Ack, Crash, Goto, TypeOK
  <2> QED BY <2>3, <2>5, <2>6, <2>7
<1> QED
  BY <1>1, <1>2, <1>3
  DEF Next, ServerStep, Deliver, Expire, vars, serverVars, workerVars

(* A row of event_dedupe is removed by the event's owner only, who gives   *)
(* the event up.                                                           *)
LEMMA ClaimRemoved ==
    ASSUME TypeOK, [Next]_vars, NEW e \in Events,
           e \in claimed, e \notin claimed'
    PROVE  \E w \in Workers : Owns(w, e)
<1>1. \E w \in Workers : Unclaim(w) /\ e = Event(w)
  BY DEF Next, ServerStep, WorkerStep, Produce, Deliver, Expire, Receive,
         Claim, ClaimFails, HandleOk, HandleTransient, HandlePermanent, Skip,
         Poison, Fatal, Exhaust, DeadLetter, Unclaim, Ack, Crash, vars, dbVars
<1> QED BY <1>1 DEF Unclaim, Owns

(* What is settled stays settled. *)
LEMMA SettledStable ==
    ASSUME TypeOK, [Next]_vars, NEW e \in Events, Settled(e)
    PROVE  Settled(e)'
<1>1. e \in claimed'
  BY ClaimRemoved DEF Settled
<1>2. \A w \in Workers : ~ Owns(w, e)'
  BY OwnershipStarts DEF Settled
<1> QED BY <1>1, <1>2 DEF Settled

(* An effect is committed, and a fatal row written, by the event's owner,  *)
(* who gives the event up while the row of event_dedupe stays.             *)
LEMMA OwnerSettles ==
    ASSUME TypeOK, OwnerClaimed, OneHandler, [Next]_vars,
           NEW e \in Events,
           applied'[e] # applied[e] \/ (dlq'[e] = "fatal" /\ dlq[e] # "fatal")
    PROVE  /\ Settled(e)'
           /\ \E w \in Workers : Owns(w, e)
           /\ applied'[e] = applied[e] \/ applied'[e] = applied[e] + 1
           /\ applied'[e] = applied[e] \/ dlq'[e] = dlq[e]
<1>1. PICK w \in Workers : (HandleOk(w) \/ Fatal(w)) /\ e = Event(w)
  BY DEF Next, ServerStep, WorkerStep, Produce, Deliver, Expire, Receive,
         Claim, ClaimFails, HandleOk, HandleTransient, HandlePermanent, Skip,
         Poison, Fatal, Exhaust, DeadLetter, WriteDlq, Unclaim, Ack, Crash,
         vars, dbVars, TypeOK
<1>2. Owns(w, e)
  BY <1>1 DEF HandleOk, Fatal, DeadLetter, Owns
<1>3. e \in claimed' /\ stream' = stream /\ cur' = cur
      /\ pc' = [pc EXCEPT ![w] = "ack"]
  BY <1>1, <1>2
  DEF HandleOk, Fatal, DeadLetter, OwnerClaimed, Goto, serverVars
<1>4. \A v \in Workers : ~ Owns(v, e)'
  <2> SUFFICES ASSUME NEW v \in Workers, Owns(v, e)' PROVE FALSE
    OBVIOUS
  <2>1. CASE v = w
    BY <2>1, <1>3 DEF Owns, TypeOK
  <2>2. CASE v # w
    <3>1. Owns(v, e)
      BY <2>2, <1>3 DEF Owns, Event, TypeOK
    <3> QED BY <2>2, <3>1, <1>2 DEF OneHandler
  <2> QED BY <2>1, <2>2
<1>5. /\ applied'[e] = applied[e] \/ applied'[e] = applied[e] + 1
      /\ applied'[e] = applied[e] \/ dlq'[e] = dlq[e]
  BY <1>1 DEF HandleOk, Fatal, DeadLetter, TypeOK
<1> QED BY <1>2, <1>3, <1>4, <1>5 DEF Settled

(* Only an event that stands in the stream is applied, by one more.        *)
LEMMA AppliedFromStream ==
    ASSUME TypeOK, [Next]_vars, NEW e \in Events, applied'[e] # applied[e]
    PROVE  /\ \E m \in DOMAIN stream : stream[m] = e
           /\ applied'[e] = applied[e] + 1
<1>1. PICK w \in Workers : HandleOk(w) /\ e = Event(w)
  BY DEF Next, ServerStep, WorkerStep, Produce, Deliver, Expire, Receive,
         Claim, ClaimFails, HandleOk, HandleTransient, HandlePermanent, Skip,
         Poison, Fatal, Exhaust, DeadLetter, Unclaim, Ack, Crash, vars, dbVars,
         TypeOK
<1>2. cur[w] \in DOMAIN stream
  BY <1>1 DEF HandleOk, TypeOK, Positions
<1> QED BY <1>1, <1>2 DEF HandleOk, Event, TypeOK

-----------------------------------------------------------------------------
LEMMA ClaimInvariant == Spec => []ClaimInv
<1>1. Init => ClaimInv
  <2> SUFFICES ASSUME Init PROVE ClaimInv
    OBVIOUS
  <2>1. TypeOK
    BY ConsumerAssumption DEF Init, TypeOK, Places, Positions
  <2>2. OwnerClaimed /\ OneHandler
    BY DEF Init, OwnerClaimed, OneHandler, Owns
  <2>3. AppliedOnce /\ AppliedSettled
    BY DEF Init, AppliedOnce, AppliedSettled
  <2>4. FatalNotApplied /\ FatalSettled
    BY DEF Init, FatalNotApplied, FatalSettled
  <2> QED BY <2>1, <2>2, <2>3, <2>4 DEF ClaimInv
<1>2. TypeOK' /\ ClaimInv /\ [Next]_vars => ClaimInv'
  <2> SUFFICES ASSUME TypeOK', ClaimInv, [Next]_vars PROVE ClaimInv'
    OBVIOUS
  <2>1. /\ TypeOK /\ OwnerClaimed /\ OneHandler
        /\ AppliedOnce /\ AppliedSettled
        /\ FatalNotApplied /\ FatalSettled
    BY DEF ClaimInv
  <2>2. OneHandler'
    <3> SUFFICES ASSUME NEW e \in Events, NEW v \in Workers, NEW w \in Workers,
                        Owns(v, e)', Owns(w, e)', v # w
                 PROVE  FALSE
      BY DEF OneHandler
    <3>1. CASE Owns(v, e) /\ Owns(w, e)
      BY <3>1, <2>1 DEF OneHandler
    <3>2. CASE Owns(v, e) /\ ~ Owns(w, e)
      <4>1. e \notin claimed
        BY <3>2, <2>1, OwnershipStarts
      <4> QED BY <3>2, <4>1, <2>1 DEF OwnerClaimed
    <3>3. CASE ~ Owns(v, e) /\ Owns(w, e)
      <4>1. e \notin claimed
        BY <3>3, <2>1, OwnershipStarts
      <4> QED BY <3>3, <4>1, <2>1 DEF OwnerClaimed
    <3>4. CASE ~ Owns(v, e) /\ ~ Owns(w, e)
      <4>1. Claim(v) /\ Claim(w)
        BY <3>4, <2>1, OwnershipStarts
      <4>2. Owns(w, e)' /\ pc'[w] = pc[w]
        BY <4>1 DEF Claim, Goto, TypeOK, ClaimInv
      <4> QED BY <4>1, <4>2 DEF Claim, Owns
    <3> QED BY <3>1, <3>2, <3>3, <3>4
  <2>3. OwnerClaimed'
    <3> SUFFICES ASSUME NEW w \in Workers, NEW e \in Events, Owns(w, e)'
                 PROVE  e \in claimed'
      BY DEF OwnerClaimed
    <3>1. CASE ~ Owns(w, e)
      <4>1. Claim(w) /\ e = Event(w)
        BY <3>1, <2>1, OwnershipStarts
      <4> QED BY <4>1 DEF Claim
    <3>2. CASE Owns(w, e)
      <4>1. e \in claimed
        BY <3>2, <2>1 DEF OwnerClaimed
      <4>2. ASSUME e \notin claimed' PROVE FALSE
        <5>1. PICK v \in Workers : Unclaim(v) /\ e = Event(v)
          BY <4>1, <4>2
          DEF Next, ServerStep, WorkerStep, Produce, Deliver, Expire, Receive,
              Claim, ClaimFails, HandleOk, HandleTransient, HandlePermanent,
              Skip, Poison, Fatal, Exhaust, DeadLetter, Unclaim, Ack, Crash,
              vars, dbVars
        <5>2. Owns(v, e)
          BY <5>1 DEF Unclaim, Owns
        <5>3. v = w
          BY <5>2, <3>2, <2>1 DEF OneHandler
        <5>4. pc'[w] \in {"claim", "exhausted"}
          BY <5>1, <5>3, <2>1, NextAttemptType DEF Unclaim
        <5> QED BY <5>4 DEF Owns
      <4> QED BY <4>2
    <3> QED BY <3>1, <3>2
  <2>4. AppliedOnce' /\ AppliedSettled'
    <3> SUFFICES ASSUME NEW e \in Events
                 PROVE  applied'[e] <= 1 /\ (applied'[e] > 0 => Settled(e)')
      BY DEF AppliedOnce, AppliedSettled
    <3>1. applied[e] \in Nat /\ applied[e] <= 1
          /\ (applied[e] > 0 => Settled(e))
      BY <2>1 DEF TypeOK, AppliedOnce, AppliedSettled
    <3>2. CASE applied'[e] = applied[e]
      <4>1. Settled(e) => Settled(e)'
        BY <2>1, SettledStable
      <4> QED BY <3>1, <3>2, <4>1
    <3>3. CASE applied'[e] # applied[e]
      <4>1. /\ Settled(e)' /\ applied'[e] = applied[e] + 1
            /\ \E w \in Workers : Owns(w, e)
        BY <3>3, <2>1, OwnerSettles
      <4>2. applied[e] = 0
        BY <4>1, <3>1 DEF Settled
      <4> QED BY <4>1, <4>2
    <3> QED BY <3>2, <3>3
  <2>5. FatalNotApplied' /\ FatalSettled'
    <3> SUFFICES ASSUME NEW e \in Events, dlq'[e] = "fatal"
                 PROVE  applied'[e] = 0 /\ Settled(e)'
      BY DEF FatalNotApplied, FatalSettled
    <3>1. applied[e] \in Nat /\ (applied[e] > 0 => Settled(e))
      BY <2>1 DEF TypeOK, AppliedSettled
    <3>2. CASE dlq[e] = "fatal"
      <4>1. applied[e] = 0 /\ Settled(e)
        BY <3>2, <2>1 DEF FatalNotApplied, FatalSettled
      <4>2. Settled(e)'
        BY <4>1, <2>1, SettledStable
      <4>3. applied'[e] = applied[e]
        BY <4>1, <2>1, OwnerSettles DEF Settled
      <4> QED BY <4>1, <4>2, <4>3
    <3>3. CASE dlq[e] # "fatal"
      <4>1. /\ Settled(e)' /\ applied'[e] = applied[e]
            /\ \E w \in Workers : Owns(w, e)
        BY <3>3, <2>1, OwnerSettles
      <4> QED BY <4>1, <3>1 DEF Settled
    <3> QED BY <3>2, <3>3
  <2> QED BY <2>2, <2>3, <2>4, <2>5 DEF ClaimInv
<1> QED BY <1>1, <1>2, TypeCorrect, PTL DEF Spec

(* Two copies or deliveries of an event never run the handler at once. *)
THEOREM HandlerExclusive == Spec => []OneHandler
<1>1. ClaimInv => OneHandler
  BY DEF ClaimInv
<1> QED BY <1>1, ClaimInvariant, PTL

(* No sequence of copies, redeliveries, retries, failures and crashes      *)
(* applies an event twice.                                                 *)
THEOREM AppliedAtMostOnce == Spec => []AppliedOnce
<1>1. ClaimInv => AppliedOnce
  BY DEF ClaimInv
<1> QED BY <1>1, ClaimInvariant, PTL

(* What the DLQ calls fatal was never applied. *)
THEOREM FatalIsFinal == Spec => []FatalNotApplied
<1>1. ClaimInv => FatalNotApplied
  BY DEF ClaimInv
<1> QED BY <1>1, ClaimInvariant, PTL

-----------------------------------------------------------------------------
(* What becomes of an event.                                               *)

ClaimedInStream == \A e \in claimed : InStream(e)

DeadInv ==
    /\ TypeOK /\ ClaimedInStream
    /\ IsFiniteSet(Dead) /\ Cardinality(Dead) <= faults

LEMMA HandsInStream ==
    ASSUME TypeOK, NEW w \in Workers, pc[w] # "idle"
    PROVE  cur[w] \in Positions /\ Event(w) \in Events /\ InStream(Event(w))
BY DEF TypeOK, Event, Positions, InStream

(* A step that produces a message kills nothing. *)
LEMMA ProduceDead ==
    ASSUME TypeOK, ClaimedInStream, NEW e \in Events, Produce(e)
    PROVE  Dead' \subseteq Dead /\ ClaimedInStream' /\ faults' = faults
<1>1. /\ stream' \in Seq(Events) /\ Positions \subseteq Positions'
      /\ \A m \in Positions : stream'[m] = stream[m]
      /\ UNCHANGED <<acked, claimed, dlq, applied, pc, cur, faults>>
  BY ProduceExtends DEF Produce, dbVars, workerVars
<1>2. \A x \in Events : Resolved(x) <=> Resolved(x)'
  BY <1>1 DEF Resolved
<1>3. \A w \in Workers, x \in Events : Working(w, x) => Working(w, x)'
  BY <1>1, HandsInStream DEF Working, Event
<1>4. \A m \in Positions : Open(m) => Open(m)'
  BY <1>1 DEF Open
<1>5. ASSUME NEW x \in Dead' PROVE x \in Dead
  <2>1. x \in Events /\ InStream(x)' /\ ~ Alive(x)'
    BY DEF Dead
  <2>2. ~ Alive(x)
    BY <1>1, <1>2, <1>3, <1>4, <2>1 DEF Alive
  <2>3. InStream(x)
    <3>1. CASE x \in claimed
      BY <3>1 DEF ClaimedInStream
    <3>2. CASE x \notin claimed
      <4>1. PICK m \in Positions' : stream'[m] = x
        BY <2>1 DEF InStream
      <4>2. ~ Open(m)'
        BY <2>1, <3>2, <4>1, <1>1 DEF Alive
      <4>3. m \in acked \/ \E w \in Workers : pc[w] = "ack" /\ cur[w] = m
        BY <4>2, <1>1 DEF Open
      <4>4. m \in Positions
        BY <4>3, HandsInStream DEF TypeOK
      <4> QED BY <4>1, <4>4, <1>1 DEF InStream
    <3> QED BY <3>1, <3>2
  <2> QED BY <2>1, <2>2, <2>3 DEF Dead
<1>6. ClaimedInStream'
  BY <1>1 DEF ClaimedInStream, InStream
<1> QED BY <1>1, <1>5, <1>6

(* What every step of a worker with an event in hand has in common: it     *)
(* touches that event only.                                                *)
Touches(w) ==
    /\ stream' = stream /\ cur' = cur
    /\ pc[w] # "idle" /\ \A v \in Workers \ {w} : pc'[v] = pc[v]
    /\ acked \subseteq acked' /\ acked' \subseteq acked \cup {cur[w]}
    /\ \A x \in Events \ {Event(w)} :
          /\ applied'[x] = applied[x] /\ dlq'[x] = dlq[x]
          /\ x \in claimed <=> x \in claimed'

LEMMA OthersAlive ==
    ASSUME TypeOK, NEW w \in Workers, Touches(w),
           NEW x \in Events \ {Event(w)}, Alive(x)
    PROVE  Alive(x)'
<1>1. CASE Resolved(x)
  BY <1>1 DEF Resolved, Touches, Alive
<1>2. ASSUME NEW v \in Workers, Working(v, x) PROVE Alive(x)'
  <2>1. v # w
    BY <1>2 DEF Working
  <2>2. Working(v, x)'
    BY <1>2, <2>1 DEF Working, Touches, Event
  <2> QED BY <2>2 DEF Alive
<1>3. ASSUME x \notin claimed, NEW m \in Positions, Open(m), stream[m] = x
      PROVE  Alive(x)'
  <2>1. m # cur[w]
    BY <1>3 DEF Event
  <2>2. Open(m)'
    BY <1>3, <2>1 DEF Open, Touches
  <2> QED BY <1>3, <2>2 DEF Alive, Touches, Positions
<1> QED BY <1>1, <1>2, <1>3 DEF Alive

LEMMA TouchesDead ==
    ASSUME TypeOK, ClaimedInStream, NEW w \in Workers, Touches(w),
           NEW e, e = Event(w)
    PROVE  /\ Dead' \subseteq Dead \cup {e}
           /\ (Alive(e) => Alive(e)') => Dead' \subseteq Dead
           /\ claimed' \subseteq claimed \cup {e} => ClaimedInStream'
<1>1. \A x : InStream(x) <=> InStream(x)'
  BY DEF Touches, InStream, Positions
<1>2. Dead' \subseteq Dead \cup {e}
  BY <1>1, OthersAlive DEF Dead
<1>3. (Alive(e) => Alive(e)') => Dead' \subseteq Dead
  BY <1>1, <1>2 DEF Dead
<1>4. InStream(e)
  BY HandsInStream DEF Touches
<1> QED BY <1>1, <1>2, <1>3, <1>4 DEF ClaimedInStream

(* A worker's step kills its own event, with a fault, or nothing. *)
LEMMA WorkerDead ==
    ASSUME TypeOK, ClaimedInStream, NEW w \in Workers,
           WorkerStep(w) \/ Crash(w)
    PROVE  /\ ClaimedInStream'
           /\ \/ Dead' \subseteq Dead /\ faults' \in {faults, faults + 1}
              \/ /\ Dead' \subseteq Dead \cup {Event(w)}
                 /\ faults' = faults + 1
<1>0. PICK e : e = Event(w)
  OBVIOUS
<1> DEFINE Kept == Alive(e) => Alive(e)'
<1>1. CASE Receive(w)
  <2>1. /\ UNCHANGED <<stream, acked, claimed, dlq, applied, faults>>
        /\ pc[w] = "idle" /\ pc'[w] # "ack" /\ pc'[w] # "idle"
        /\ \A v \in Workers \ {w} : pc'[v] = pc[v] /\ cur'[v] = cur[v]
    BY <1>1 DEF Receive, Goto, TypeOK, serverVars, dbVars
  <2>2. ASSUME NEW x \in Events, NEW v \in Workers, Working(v, x)
        PROVE  Working(v, x)'
    BY <2>1, <2>2 DEF Working, Event
  <2>3. \A m : Open(m) => Open(m)'
    BY <2>1 DEF Open
  <2>4. \A x \in Events : Alive(x) => Alive(x)'
    BY <2>1, <2>2, <2>3 DEF Alive, Resolved, Positions
  <2> QED BY <2>1, <2>4 DEF Dead, InStream, ClaimedInStream, Positions
<1>2. CASE Crash(w) /\ pc[w] = "idle"
  <2>1. /\ UNCHANGED <<stream, acked, claimed, dlq, applied, cur, pc>>
        /\ faults' = faults + 1
    BY <1>2 DEF Crash, Goto, Fault, TypeOK, serverVars, dbVars
  <2> QED BY <2>1 DEF Dead, Alive, Resolved, Working, Open, Event, InStream,
                      ClaimedInStream, Positions
<1>3. CASE ~ Receive(w) /\ ~ (Crash(w) /\ pc[w] = "idle")
  <2>1. Touches(w) /\ claimed' \subseteq claimed \cup {e}
    BY <1>0, <1>3, NextAttemptType
    DEF Touches, WorkerStep, Claim, ClaimFails, HandleOk, HandleTransient,
        HandlePermanent, Skip, Poison, Fatal, Exhaust, DeadLetter, WriteDlq,
        Unclaim, Ack, Crash, Goto, TypeOK, serverVars, dbVars
  <2>2. e \in Events /\ pc[w] # "idle"
    BY <1>0, <2>1, HandsInStream DEF Touches
  <2>3. faults' = faults + 1 \/ (faults' = faults /\ Kept)
    <3>1. CASE Claim(w)
      <4>1. CASE e \notin claimed
        <5>1. Working(w, e)'
          BY <1>0, <2>1, <3>1, <4>1 DEF Working, Claim, Goto, Event, Touches, TypeOK
        <5> QED BY <3>1, <5>1 DEF Alive, Claim
      <4>2. CASE e \in claimed
        <5>1. \A v \in Workers : Working(v, e) => Working(v, e)'
          BY <1>0, <2>1, <3>1, <4>2 DEF Working, Claim, Event, Touches
        <5> QED BY <3>1, <4>2, <5>1 DEF Alive, Resolved, Claim
      <4> QED BY <4>1, <4>2
    <3>2. CASE ClaimFails(w)
      BY <3>2 DEF ClaimFails, Fault
    <3>3. CASE HandleOk(w) \/ Skip(w)
      <4>1. Resolved(e)'
        BY <1>0, <2>2, <3>3 DEF HandleOk, Skip, Resolved, TypeOK
      <4> QED BY <3>3, <4>1 DEF Alive, HandleOk, Skip
    <3>4. CASE HandleTransient(w) \/ HandlePermanent(w)
      <4>1. Working(w, e)'
        BY <1>0, <2>1, <3>4 DEF HandleTransient, HandlePermanent, Working, Goto,
                          Event, Touches, TypeOK
      <4> QED BY <3>4, <4>1 DEF Alive, HandleTransient, HandlePermanent
    <3>5. CASE Poison(w) \/ Fatal(w) \/ Exhaust(w)
      <4>1. PICK kind \in FailureKind : WriteDlq(e, kind)
        BY <1>0, <3>5 DEF Poison, Fatal, Exhaust, DeadLetter, FailureKind
      <4>2. faults' = faults => dlq'[e] = kind
        BY <2>2, <4>1 DEF WriteDlq, Fault, TypeOK
      <4>3. faults' = faults => Resolved(e)'
        BY <4>2 DEF Resolved, FailureKind
      <4> QED BY <4>1, <4>3 DEF Alive, WriteDlq, Fault
    <3>6. CASE Unclaim(w)
      <4>1. CASE claimed' = claimed \ {e} /\ UNCHANGED faults
        <5>1. pc'[w] \in {"claim", "exhausted"}
          BY <3>6, NextAttemptType DEF Unclaim
        <5>2. Working(w, e)'
          BY <1>0, <2>1, <4>1, <5>1 DEF Working, Event, Touches
        <5> QED BY <4>1, <5>2 DEF Alive
      <4> QED BY <1>0, <3>6, <4>1 DEF Unclaim, Fault
    <3>7. CASE Ack(w)
      <4>1. CASE UNCHANGED faults
        <5>1. pc[w] = "ack" /\ acked' = acked \cup {cur[w]}
              /\ UNCHANGED <<claimed, applied, dlq>>
          BY <3>7, <4>1 DEF Ack, dbVars, Fault, TypeOK
        <5>2. \A v \in Workers : Working(v, e) => Working(v, e)'
          BY <1>0, <2>1, <5>1 DEF Working, Event, Touches
        <5>3. \A m : Open(m) => Open(m)'
          BY <2>1, <5>1, <3>7 DEF Open, Touches, Ack, Goto, TypeOK
        <5> QED BY <2>1, <4>1, <5>1, <5>2, <5>3
                DEF Alive, Resolved, Touches, Positions
      <4> QED BY <3>7, <4>1 DEF Ack, Fault
    <3>8. CASE Crash(w)
      BY <3>8 DEF Crash, Fault
    <3> QED BY <1>3, <3>1, <3>2, <3>3, <3>4, <3>5, <3>6, <3>7, <3>8
            DEF WorkerStep
  <2> QED BY <1>0, <2>1, <2>3, TouchesDead
<1> QED BY <1>1, <1>2, <1>3

(* The server's steps and stuttering change nothing of it. *)
LEMMA ServerDead ==
    ASSUME ClaimedInStream, ServerStep \/ UNCHANGED vars, faults \in Nat
    PROVE  /\ Dead' = Dead /\ ClaimedInStream'
           /\ faults' \in {faults, faults + 1}
<1>1. /\ UNCHANGED <<stream, acked, claimed, dlq, applied, pc, cur>>
      /\ faults' \in {faults, faults + 1}
  BY DEF ServerStep, Deliver, Expire, Fault, dbVars, workerVars, serverVars,
         vars
<1> QED BY <1>1 DEF Dead, Alive, Resolved, Working, Open, Event, InStream,
                    ClaimedInStream, Positions

(* A fault costs one event of the stream at most. *)
LEMMA DeadInvariant == Spec => []DeadInv
<1>1. Init => DeadInv
  <2> SUFFICES ASSUME Init PROVE DeadInv
    OBVIOUS
  <2>1. TypeOK
    BY ConsumerAssumption DEF Init, TypeOK, Places, Positions
  <2>2. Dead = {} /\ ClaimedInStream
    BY DEF Init, Dead, InStream, Positions, ClaimedInStream
  <2>3. IsFiniteSet(Dead) /\ Cardinality(Dead) = 0
    BY <2>2, FS_EmptySet
  <2> QED BY <2>1, <2>2, <2>3 DEF DeadInv, Init
<1>2. TypeOK' /\ DeadInv /\ [Next]_vars => DeadInv'
  <2> SUFFICES ASSUME TypeOK', DeadInv, [Next]_vars PROVE DeadInv'
    OBVIOUS
  <2>1. /\ TypeOK /\ ClaimedInStream /\ faults \in Nat
        /\ IsFiniteSet(Dead) /\ Cardinality(Dead) <= faults
        /\ Cardinality(Dead) \in Nat
    BY FS_CardinalityType DEF DeadInv, TypeOK
  <2>2. /\ ClaimedInStream'
        /\ \/ Dead' \subseteq Dead /\ faults' \in {faults, faults + 1}
           \/ \E e : Dead' \subseteq Dead \cup {e} /\ faults' = faults + 1
    BY <2>1, ProduceDead, WorkerDead, ServerDead DEF Next
  <2>3. CASE Dead' \subseteq Dead /\ faults' \in {faults, faults + 1}
    <3>1. IsFiniteSet(Dead') /\ Cardinality(Dead') <= Cardinality(Dead)
      BY <2>1, <2>3, FS_Subset
    <3>2. Cardinality(Dead') \in Nat
      BY <3>1, FS_CardinalityType
    <3> QED BY <2>1, <2>2, <2>3, <3>1, <3>2 DEF DeadInv
  <2>4. ASSUME NEW e, Dead' \subseteq Dead \cup {e}, faults' = faults + 1
        PROVE  DeadInv'
    <3>1. /\ IsFiniteSet(Dead \cup {e})
          /\ Cardinality(Dead \cup {e}) <= Cardinality(Dead) + 1
      BY <2>1, FS_AddElement
    <3>2. /\ IsFiniteSet(Dead')
          /\ Cardinality(Dead') <= Cardinality(Dead \cup {e})
      BY <2>4, <3>1, FS_Subset
    <3>3. Cardinality(Dead') \in Nat /\ Cardinality(Dead \cup {e}) \in Nat
      BY <3>1, <3>2, FS_CardinalityType
    <3> QED BY <2>1, <2>2, <2>4, <3>1, <3>2, <3>3 DEF DeadInv
  <2> QED BY <2>2, <2>3, <2>4
<1> QED BY <1>1, <1>2, TypeCorrect, PTL DEF Spec

(* Whatever the events, the workers and the faults: an event of the stream *)
(* ends unhandled only by a fault, and a fault takes one event at most.    *)
THEOREM LossesAreBounded == Spec => []LossesBounded
<1>1. DeadInv => LossesBounded
  BY DEF DeadInv, LossesBounded
<1> QED BY <1>1, DeadInvariant, PTL
=============================================================================
