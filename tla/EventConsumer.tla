--------------------------- MODULE EventConsumer ---------------------------
(***************************************************************************)
(* The JetStream consumer of platform/event-consumer: pull, decode and     *)
(* validate, deduplicate, route, retry, dead-letter, acknowledge.          *)
(*                                                                         *)
(* Workers are the instances of JetStreamConsumer that share one durable   *)
(* consumer (replicas of a service).  The database statements that guard   *)
(* the handler - the claim in event_dedupe, its removal, the row in        *)
(* event_dlq - and the handler's own transaction are separate, so workers  *)
(* interleave between them and a process may end between any two.          *)
(*                                                                         *)
(* A handler's effect is taken to be one transaction that commits exactly  *)
(* when the handler returns Ok.                                            *)
(***************************************************************************)
EXTENDS Integers, Sequences, FiniteSets

CONSTANTS
    Events,       \* event ids
    Malformed,    \* events that fail decoding or validate_incoming
    Unversioned,  \* events of a known type and an unregistered version
    Foreign,      \* events of a type this consumer does not register
    Workers,      \* consumer instances on the same durable consumer
    MaxAttempts,  \* retry_config.max_attempts (3)
    Prefetch,     \* messages the pull stream holds ready
    MaxMessages,  \* bound: messages published
    FaultKinds,   \* which faults the environment produces
    MaxFaults     \* bound: number of faults in a behaviour

ASSUME ConsumerAssumption ==
    /\ Malformed \subseteq Events
    /\ Unversioned \subseteq Events \ Malformed
    /\ Foreign \subseteq Events \ (Malformed \cup Unversioned)
    /\ MaxAttempts \in Nat \ {0}
    /\ Prefetch \in Nat \ {0}
    /\ MaxMessages \in Nat
    /\ FaultKinds \subseteq {"ack", "crash", "db", "slow"}
    /\ MaxFaults \in Nat

VARIABLES
    stream,    \* the JetStream stream; copies of an event may stand in it
    acked,     \* positions whose acknowledgement the server has
    waiting,   \* delivered positions whose ack_wait is running
    queue,     \* positions delivered to a worker, not taken up yet
    pc, cur, attempt,   \* each worker's place, position and attempt
    claimed,   \* event_dedupe
    dlq,       \* event_dlq.failure_kind of each event ("none": no row)
    applied,   \* how often the handler's effect was committed
    faults     \* counter of the bound

serverVars == <<stream, acked, waiting>>
dbVars == <<claimed, dlq, applied>>
workerVars == <<queue, pc, cur, attempt>>
vars == <<serverVars, dbVars, workerVars, faults>>

Places == {"idle", "poison", "claim", "handle", "fatal", "unclaim",
           "exhausted", "ack"}

FailureKind == {"retryable", "fatal", "poison"}

Positions == DOMAIN stream

TypeOK ==
    /\ stream \in Seq(Events)
    /\ acked \in SUBSET Positions
    /\ waiting \in SUBSET Positions
    /\ queue \in [Workers -> Seq(Positions)]
    /\ pc \in [Workers -> Places]
    /\ cur \in [Workers -> Nat]
    /\ \A w \in Workers : pc[w] # "idle" => cur[w] \in Positions
    /\ attempt \in [Workers -> 1 .. MaxAttempts]
    /\ claimed \in SUBSET Events
    /\ dlq \in [Events -> FailureKind \cup {"none"}]
    /\ applied \in [Events -> Nat]
    /\ faults \in Nat

Init ==
    /\ stream = <<>>
    /\ acked = {} /\ waiting = {}
    /\ queue = [w \in Workers |-> <<>>]
    /\ pc = [w \in Workers |-> "idle"]
    /\ cur = [w \in Workers |-> 0]
    /\ attempt = [w \in Workers |-> 1]
    /\ claimed = {}
    /\ dlq = [e \in Events |-> "none"]
    /\ applied = [e \in Events |-> 0]
    /\ faults = 0

(* One fault of kind k, as long as the bound allows one. *)
Fault(k) ==
    /\ k \in FaultKinds
    /\ faults < MaxFaults
    /\ faults' = faults + 1

(* The event worker w is working on. *)
Event(w) == stream[cur[w]]

Goto(w, place) == pc' = [pc EXCEPT ![w] = place]

-----------------------------------------------------------------------------
(* The JetStream server.                                                   *)

(* A publisher's message arrives; the same event may arrive again. *)
Produce(e) ==
    /\ Len(stream) < MaxMessages
    /\ stream' = Append(stream, e)
    /\ UNCHANGED <<acked, waiting, dbVars, workerVars, faults>>

(* A message is (re)delivered to a worker that has room for it. *)
Deliver(w, m) ==
    /\ m \in Positions \ (acked \cup waiting)
    /\ Len(queue[w]) < Prefetch
    /\ waiting' = waiting \cup {m}
    /\ queue' = [queue EXCEPT ![w] = Append(@, m)]
    /\ UNCHANGED <<stream, acked, pc, cur, attempt, dbVars, faults>>

(* Some worker has m queued or in hand. *)
Held(m) ==
    \E w \in Workers :
        \/ pc[w] # "idle" /\ cur[w] = m
        \/ \E i \in DOMAIN queue[w] : queue[w][i] = m

(* ack_wait passes.  It does so while a worker still has the message only  *)
(* if that worker is slow: it counts as a fault.                           *)
Expire(m) ==
    /\ m \in waiting
    /\ waiting' = waiting \ {m}
    /\ IF Held(m) THEN Fault("slow") ELSE UNCHANGED faults
    /\ UNCHANGED <<stream, acked, dbVars, workerVars>>

-----------------------------------------------------------------------------
(* process_message.                                                        *)

Receive(w) ==
    /\ pc[w] = "idle"
    /\ queue[w] # <<>>
    /\ cur' = [cur EXCEPT ![w] = Head(queue[w])]
    /\ queue' = [queue EXCEPT ![w] = Tail(@)]
    /\ attempt' = [attempt EXCEPT ![w] = 1]
    /\ Goto(w, IF stream[Head(queue[w])] \in Malformed THEN "poison" ELSE "claim")
    /\ UNCHANGED <<serverVars, dbVars, faults>>

(* Mutant: the claim does not look whether the row exists. *)
ClaimMutant(w) ==
    /\ pc[w] = "claim"
    /\ claimed' = claimed \cup {Event(w)}
    /\ Goto(w, "handle")
    /\ UNCHANGED <<serverVars, queue, cur, attempt, dlq, applied, faults>>

(* INSERT INTO event_dedupe ... ON CONFLICT DO NOTHING: the first worker   *)
(* runs the handler, any other takes the event for a duplicate.            *)
Claim(w) ==
    /\ pc[w] = "claim"
    /\ claimed' = claimed \cup {Event(w)}
    /\ Goto(w, IF Event(w) \in claimed THEN "ack" ELSE "handle")
    /\ UNCHANGED <<serverVars, queue, cur, attempt, dlq, applied, faults>>

(* Mutant: the last failed attempt is acknowledged like any other end. *)
NextAttemptMutant(w) ==
    IF attempt[w] < MaxAttempts
    THEN /\ attempt' = [attempt EXCEPT ![w] = @ + 1]
         /\ Goto(w, "claim")
    ELSE /\ Goto(w, "ack")
         /\ UNCHANGED attempt

(* An attempt failed: sleep and try again, or give up. *)
NextAttempt(w) ==
    IF attempt[w] < MaxAttempts
    THEN /\ attempt' = [attempt EXCEPT ![w] = @ + 1]
         /\ Goto(w, "claim")
    ELSE /\ Goto(w, "exhausted")
         /\ UNCHANGED attempt

ClaimFails(w) ==
    /\ pc[w] = "claim"
    /\ Fault("db")
    /\ NextAttempt(w)
    /\ UNCHANGED <<serverVars, queue, cur, dbVars>>

Routable(e) == e \notin Unversioned \cup Foreign

(* The handler commits its effect and returns Ok. *)
HandleOk(w) ==
    /\ pc[w] = "handle"
    /\ Routable(Event(w))
    /\ applied' = [applied EXCEPT ![Event(w)] = @ + 1]
    /\ Goto(w, "ack")
    /\ UNCHANGED <<serverVars, queue, cur, attempt, claimed, dlq, faults>>

(* Mutant: a transient error leaves the claim in place. *)
HandleTransientMutant(w) ==
    /\ pc[w] = "handle"
    /\ Routable(Event(w))
    /\ NextAttempt(w)
    /\ UNCHANGED <<serverVars, queue, cur, dbVars, faults>>

(* The handler returns HandlerError::Transient. *)
HandleTransient(w) ==
    /\ pc[w] = "handle"
    /\ Routable(Event(w))
    /\ Goto(w, "unclaim")
    /\ UNCHANGED <<serverVars, queue, cur, attempt, dbVars, faults>>

(* The handler returns HandlerError::Permanent, or there is none for this  *)
(* version of the event.                                                   *)
HandlePermanent(w) ==
    /\ pc[w] = "handle"
    /\ Event(w) \notin Foreign
    /\ Goto(w, "fatal")
    /\ UNCHANGED <<serverVars, queue, cur, attempt, dbVars, faults>>

(* Not for this consumer: skipped, with the claim in place. *)
Skip(w) ==
    /\ pc[w] = "handle"
    /\ Event(w) \in Foreign
    /\ Goto(w, "ack")
    /\ UNCHANGED <<serverVars, queue, cur, attempt, dbVars, faults>>

(* Mutant: the permanent failure is propagated as an error. *)
FatalMutant(w) ==
    /\ pc[w] = "fatal"
    /\ \/ dlq' = [dlq EXCEPT ![Event(w)] = "fatal"] /\ UNCHANGED faults
       \/ Fault("db") /\ UNCHANGED dlq
    /\ Goto(w, "unclaim")
    /\ UNCHANGED <<serverVars, queue, cur, attempt, claimed, applied>>

(* write_dlq_entry upserts the event's row; its error is ignored. *)
WriteDlq(e, kind) ==
    \/ dlq' = [dlq EXCEPT ![e] = kind] /\ UNCHANGED faults
    \/ Fault("db") /\ UNCHANGED dlq

DeadLetter(w, place, kind) ==
    /\ pc[w] = place
    /\ WriteDlq(Event(w), kind)
    /\ Goto(w, "ack")
    /\ UNCHANGED <<serverVars, queue, cur, attempt, claimed, applied>>

Poison(w) == DeadLetter(w, "poison", "poison")

Fatal(w) == DeadLetter(w, "fatal", "fatal")

Exhaust(w) == DeadLetter(w, "exhausted", "retryable")

(* DELETE FROM event_dedupe after a failed attempt; its error is ignored. *)
Unclaim(w) ==
    /\ pc[w] = "unclaim"
    /\ \/ claimed' = claimed \ {Event(w)} /\ UNCHANGED faults
       \/ Fault("db") /\ UNCHANGED claimed
    /\ NextAttempt(w)
    /\ UNCHANGED <<serverVars, queue, cur, dlq, applied>>

(* The acknowledgement, which may not reach the server. *)
Ack(w) ==
    /\ pc[w] = "ack"
    /\ \/ acked' = acked \cup {cur[w]} /\ UNCHANGED faults
       \/ Fault("ack") /\ UNCHANGED acked
    /\ Goto(w, "idle")
    /\ UNCHANGED <<stream, waiting, queue, cur, attempt, dbVars>>

(* The process ends and starts again; what it had fetched is redelivered   *)
(* after ack_wait.                                                         *)
Crash(w) ==
    /\ Fault("crash")
    /\ Goto(w, "idle")
    /\ queue' = [queue EXCEPT ![w] = <<>>]
    /\ UNCHANGED <<serverVars, cur, attempt, dbVars>>

-----------------------------------------------------------------------------
WorkerStep(w) ==
    \/ Receive(w) \/ Claim(w) \/ ClaimFails(w)
    \/ HandleOk(w) \/ HandleTransient(w) \/ HandlePermanent(w) \/ Skip(w)
    \/ Poison(w) \/ Fatal(w) \/ Exhaust(w) \/ Unclaim(w) \/ Ack(w)

ServerStep ==
    \/ \E w \in Workers, m \in Positions : Deliver(w, m)
    \/ \E m \in Positions : Expire(m)

Next ==
    \/ \E e \in Events : Produce(e)
    \/ ServerStep
    \/ \E w \in Workers : WorkerStep(w) \/ Crash(w)

Spec == Init /\ [][Next]_vars

(* Workers run their loop and every call in it returns; the server keeps   *)
(* delivering what is neither acknowledged nor waiting, and ack_wait ends. *)
(* Nothing forces anyone to publish, nor a handler to succeed.             *)
Fairness ==
    /\ \A w \in Workers : WF_vars(WorkerStep(w))
    /\ WF_vars(\E w \in Workers, m \in Positions : Deliver(w, m))
    /\ WF_vars(\E m \in Positions : ~ Held(m) /\ Expire(m))

FairSpec == Spec /\ Fairness

-----------------------------------------------------------------------------
(* Properties.                                                             *)

(* Worker w owns the claim of event e. *)
Owns(w, e) == pc[w] \in {"handle", "unclaim", "fatal"} /\ Event(w) = e

(* The handler never runs in two workers for one event: two copies of a    *)
(* message, or one redelivered while its first worker is slow, meet at the *)
(* claim.                                                                  *)
OneHandler ==
    \A e \in Events, v, w \in Workers : Owns(v, e) /\ Owns(w, e) => v = w

(* An event is applied at most once, over copies, redeliveries, retries,   *)
(* failing statements and crashes.                                         *)
AppliedOnce == \A e \in Events : applied[e] <= 1

(* An event dead-lettered as fatal was not applied and will not be.        *)
FatalNotApplied == \A e \in Events : dlq[e] = "fatal" => applied[e] = 0

Resolved(e) == applied[e] > 0 \/ dlq[e] # "none" \/ e \in Foreign

(* platform/event-consumer/src/jetstream.rs:9: "Acks only after the        *)
(* message is fully resolved (success or DLQ)."                            *)
ResolvedBeforeAck ==
    \A m \in acked : Resolved(stream[m])

(* Worker w is going to handle e, to give it up or to dead-letter it. *)
Working(w, e) ==
    /\ pc[w] \notin {"idle", "ack"} /\ Event(w) = e
    /\ pc[w] = "claim" => e \notin claimed

(* Message m comes again, for nobody is about to acknowledge it. *)
Open(m) ==
    /\ m \notin acked
    /\ \A w \in Workers : ~ (pc[w] = "ack" /\ cur[w] = m)

(* Something will still be done about e, or has been. *)
Alive(e) ==
    \/ Resolved(e)
    \/ \E w \in Workers : Working(w, e)
    \/ e \notin claimed /\ \E m \in Positions : Open(m) /\ stream[m] = e

InStream(e) == \E m \in Positions : stream[m] = e

(* Events of the stream that are as good as gone: their row of             *)
(* event_dedupe has lost its owner, or the dead letter was not written.    *)
Dead == {e \in Events : InStream(e) /\ ~ Alive(e)}

(* An event is lost only by a fault - a crash takes the one in the         *)
(* worker's hands and none of those fetched ahead, a claim that cannot be  *)
(* removed or a dead letter that cannot be written its own - and a fault   *)
(* takes one event at most.  Copies, redeliveries and duplicates that are  *)
(* acknowledged while another worker still retries the event lose nothing  *)
(* by themselves.                                                          *)
LossesBounded == Cardinality(Dead) <= faults

(* Every message is acknowledged in the end and its event resolved, over   *)
(* lost acks and redeliveries to several workers.                          *)
EventuallyResolved ==
    \A m \in 1 .. MaxMessages :
        m \in Positions ~> m \in acked /\ Resolved(stream[m])
=============================================================================
