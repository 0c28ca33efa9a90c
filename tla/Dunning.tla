------------------------------ MODULE Dunning ------------------------------
(***************************************************************************)
(* Dunning of unpaid invoices (modules/ar): one row per invoice, which a   *)
(* poll of the scheduler escalates stage by stage and an operation of the  *)
(* engine moves by hand.                                                   *)
(*                                                                         *)
(* Time is kept by order only: queue lists the rows that have a            *)
(* next_attempt_at, earliest first, and the first due of them are due.     *)
(* The back-off of a row that is escalated, one hour at least, puts it     *)
(* behind every due row.                                                   *)
(*                                                                         *)
(* One tenant.  The outbox rows of the transactions, the versions (the row *)
(* is locked from its SELECT to its UPDATE) and the length of the back-off *)
(* are left out.                                                           *)
(***************************************************************************)
EXTENDS Integers, SequencesExt

CONSTANTS
    Invoices,
    Workers,    \* claim_and_execute_one calls in progress at a time
    MaxFaults   \* bound: failed transactions

VARIABLES
    state,   \* ar_dunning_states.state, "none" without a row
    queue,   \* the rows with a next_attempt_at, in its order
    due,     \* how many of them have next_attempt_at <= now
    claim,   \* the row each worker has locked, "none" without one
    faults   \* counter of the bound

vars == <<state, queue, due, claim, faults>>

Terminal == {"resolved", "written_off"}
States == {"pending", "warned", "escalated", "suspended"} \cup Terminal

TypeOK ==
    /\ state \in [Invoices -> States \cup {"none"}]
    /\ queue \in Seq(Invoices) /\ IsInjective(queue)
    /\ \A i \in ToSet(queue) : state[i] # "none"
    /\ due \in 0 .. Len(queue)
    /\ claim \in [Workers -> Invoices \cup {"none"}]
    /\ faults \in 0 .. MaxFaults

Init ==
    /\ state = [i \in Invoices |-> "none"]
    /\ queue = <<>>
    /\ due = 0
    /\ claim = [w \in Workers |-> "none"]
    /\ faults = 0

Locked(i) == \E w \in Workers : claim[w] = i

-----------------------------------------------------------------------------
(* next_attempt_at.                                                        *)

IsDue(i) == \E k \in 1 .. due : queue[k] = i

DueWithout(i) == IF IsDue(i) THEN due - 1 ELSE due

(* The others, in their order. *)
Without(i) ==
    IF i \in ToSet(queue)
    THEN RemoveAt(queue, CHOOSE k \in 1 .. Len(queue) : queue[k] = i)
    ELSE queue

(* The row comes behind the first p others, in the past or not. *)
Schedule(i, p, past) ==
    /\ p \in 0 .. Len(Without(i))
    /\ IF past THEN p <= DueWithout(i) ELSE p >= DueWithout(i)
    /\ queue' = InsertAt(Without(i), p + 1, i)
    /\ due' = IF past THEN DueWithout(i) + 1 ELSE DueWithout(i)

Unschedule(i) ==
    /\ queue' = Without(i)
    /\ due' = DueWithout(i)

(* A caller's next_attempt_at is any time, or none. *)
AnySchedule(i) ==
    \/ Unschedule(i)
    \/ \E p \in 0 .. Len(queue), past \in BOOLEAN : Schedule(i, p, past)

Tick ==
    /\ due < Len(queue)
    /\ due' = due + 1
    /\ UNCHANGED <<state, queue, claim, faults>>

-----------------------------------------------------------------------------
(* The engine.                                                             *)

InitDunning(i) ==
    /\ state[i] = "none"
    /\ state' = [state EXCEPT ![i] = "pending"]
    /\ AnySchedule(i)
    /\ UNCHANGED <<claim, faults>>

(* is_valid_transition *)
ValidTransition(from, to) ==
    \/ from = "pending" /\ to \in {"warned", "escalated"}
    \/ from = "warned" /\ to = "escalated"
    \/ from = "escalated" /\ to = "suspended"
    \/ from \in States \ Terminal /\ to \in Terminal

TransitionDunning(i, to) ==
    /\ ~Locked(i)
    /\ ValidTransition(state[i], to)
    /\ state' = [state EXCEPT ![i] = to]
    /\ AnySchedule(i)
    /\ UNCHANGED <<claim, faults>>

-----------------------------------------------------------------------------
(* The scheduler: poll_and_execute_batch calls claim_and_execute_one again *)
(* and again, and is itself called again and again.                        *)

(* Mutant: the claim does not leave terminal rows out. *)
ClaimableMutant(k) == ~Locked(queue[k])

Claimable(k) == state[queue[k]] \notin Terminal /\ ~Locked(queue[k])

(* ORDER BY next_attempt_at ASC LIMIT 1 FOR UPDATE SKIP LOCKED *)
Claim(w) ==
    /\ claim[w] = "none"
    /\ \E k \in 1 .. due :
         /\ Claimable(k)
         /\ \A j \in 1 .. k - 1 : ~Claimable(j)
         /\ claim' = [claim EXCEPT ![w] = queue[k]]
    /\ UNCHANGED <<state, queue, due, faults>>

(* next_state_for; a suspended row has no next state. *)
NextState ==
    [pending |-> "warned", warned |-> "escalated", escalated |-> "suspended"]

Unlock(w) == claim' = [claim EXCEPT ![w] = "none"]

Escalate(w) ==
    /\ claim[w] # "none"
    /\ state[claim[w]] \in DOMAIN NextState
    /\ state' = [state EXCEPT ![claim[w]] = NextState[@]]
    /\ \E p \in 0 .. Len(queue) : Schedule(claim[w], p, FALSE)
    /\ Unlock(w)
    /\ UNCHANGED faults

(* AlreadyTerminal: the transaction is rolled back and leaves the row as   *)
(* it was, due.                                                            *)
LeaveAlone(w) ==
    /\ claim[w] # "none"
    /\ state[claim[w]] \notin DOMAIN NextState
    /\ Unlock(w)
    /\ UNCHANGED <<state, queue, due, faults>>

(* A statement fails, or the process ends. *)
Fail(w) ==
    /\ claim[w] # "none"
    /\ faults < MaxFaults
    /\ faults' = faults + 1
    /\ Unlock(w)
    /\ UNCHANGED <<state, queue, due>>

-----------------------------------------------------------------------------
Next ==
    \/ Tick
    \/ \E i \in Invoices :
         InitDunning(i) \/ \E to \in States : TransitionDunning(i, to)
    \/ \E w \in Workers : Claim(w) \/ Escalate(w) \/ LeaveAlone(w) \/ Fail(w)

Spec == Init /\ [][Next]_vars

(* The poll is called for ever and a transaction ends. *)
Fairness ==
    \A w \in Workers : WF_vars(Claim(w) \/ Escalate(w) \/ LeaveAlone(w))

FairSpec == Spec /\ Fairness

-----------------------------------------------------------------------------
(* Properties.                                                             *)

Waiting(i) == IsDue(i) /\ state[i] \in DOMAIN NextState

BehindSuspended(i) ==
    \E j, k \in DOMAIN queue :
        j < k /\ queue[k] = i /\ state[queue[j]] = "suspended"

(* A row that is due is escalated, or moved by hand, in the end, through   *)
(* failing transactions, concurrent polls and rows moved in front of it -  *)
(* unless a suspended row is before it.  (A suspended row keeps its        *)
(* next_attempt_at and is claimed first by every poll, for nothing: the    *)
(* exception is what the code does.)                                       *)
EscalatedUnlessBlocked ==
    \A i \in Invoices : Waiting(i) ~> (~Waiting(i) \/ BehindSuspended(i))
=============================================================================
