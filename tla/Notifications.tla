--------------------------- MODULE Notifications ---------------------------
(***************************************************************************)
(* Scheduled notifications (modules/notifications): a dispatcher of each   *)
(* replica claims the due ones, sends them one after the other and records *)
(* every attempt with the new status; claims older than five minutes are   *)
(* taken for those of a dead dispatcher and given back; what is dead-      *)
(* lettered can be replayed or abandoned.                                  *)
(*                                                                         *)
(* Two dispatchers may have one notification in hand: the claim is given   *)
(* back while its dispatcher is still at work, or slow.  An attempt is     *)
(* recorded under a unique key made of the notification's generation and   *)
(* retry count as they were claimed.                                       *)
(*                                                                         *)
(* deliver_at is abstract: any claimable rows may be the due ones.         *)
(* Rendering is part of sending.  The outbox rows of the transactions are  *)
(* left out.                                                               *)
(***************************************************************************)
EXTENDS Integers, FiniteSets

CONSTANTS
    Notes,        \* the notifications
    Dispatchers,
    MaxAttempts,  \* RetryPolicy::max_attempts
    MaxReplays    \* bound: replays of a notification

VARIABLES
    status,      \* scheduled_notifications.status
    retryCount,  \* ... .retry_count
    generation,  \* ... .replay_generation
    stale,       \* claimed more than five minutes ago
    attempts,    \* rows of notification_delivery_attempts
    place,       \* where each dispatcher is in dispatch_once
    batch,       \* the rows it has claimed and not come to, as claimed
    current,     \* the one it is at
    result       \* what the sender answered for it

rowVars == <<status, retryCount, generation, stale>>
taskVars == <<place, batch, current, result>>
vars == <<rowVars, attempts, taskVars>>

Final == {"sent", "dead_lettered", "abandoned"}
Statuses == {"pending", "attempting", "failed"} \cup Final

(* A claimed row, as RETURNING gave it: the parts of the key. *)
Claimed == [of : Notes, gen : 0 .. MaxReplays, no : 1 .. MaxAttempts]
NoClaim == [of |-> "none", gen |-> 0, no |-> 0]

Results == {"succeeded", "retryable", "permanent"}
Attempt == [key : Claimed,
            status : {"succeeded", "failed_retryable", "failed_permanent"}]

TypeOK ==
    /\ status \in [Notes -> Statuses]
    /\ retryCount \in [Notes -> 0 .. MaxAttempts - 1]
    /\ generation \in [Notes -> 0 .. MaxReplays]
    /\ stale \in [Notes -> BOOLEAN]
    /\ attempts \in SUBSET Attempt
    /\ place \in [Dispatchers -> {"idle", "claim", "send", "record"}]
    /\ batch \in [Dispatchers -> SUBSET Claimed]
    /\ current \in [Dispatchers -> Claimed \cup {NoClaim}]
    /\ result \in [Dispatchers -> Results \cup {"none"}]

Init ==
    /\ status = [n \in Notes |-> "pending"]
    /\ retryCount = [n \in Notes |-> 0]
    /\ generation = [n \in Notes |-> 0]
    /\ stale = [n \in Notes |-> FALSE]
    /\ attempts = {}
    /\ place = [d \in Dispatchers |-> "idle"]
    /\ batch = [d \in Dispatchers |-> {}]
    /\ current = [d \in Dispatchers |-> NoClaim]
    /\ result = [d \in Dispatchers |-> "none"]

-----------------------------------------------------------------------------
(* dispatch_once *)

(* Mutant: the reset looks at the age of the claim only. *)
ResetOrphansMutant(d) ==
    /\ place[d] = "idle"
    /\ status' = [n \in Notes |-> IF stale[n] THEN "pending" ELSE status[n]]
    /\ stale' = [n \in Notes |-> FALSE]
    /\ place' = [place EXCEPT ![d] = "claim"]
    /\ UNCHANGED <<retryCount, generation, attempts, batch, current, result>>

ResetOrphans(d) ==
    /\ place[d] = "idle"
    /\ status' = [n \in Notes |-> IF status[n] = "attempting" /\ stale[n]
                                  THEN "pending" ELSE status[n]]
    /\ stale' = [n \in Notes |-> FALSE]
    /\ place' = [place EXCEPT ![d] = "claim"]
    /\ UNCHANGED <<retryCount, generation, attempts, batch, current, result>>

AsClaimed(n) == [of |-> n, gen |-> generation[n], no |-> retryCount[n] + 1]

(* One UPDATE over the due rows nobody else has locked. *)
ClaimDue(d, due) ==
    /\ place[d] = "claim"
    /\ \A n \in due : status[n] \in {"pending", "failed"}
    /\ status' = [n \in Notes |-> IF n \in due THEN "attempting" ELSE status[n]]
    /\ batch' = [batch EXCEPT ![d] = {AsClaimed(n) : n \in due}]
    /\ place' = [place EXCEPT ![d] = IF due = {} THEN "idle" ELSE "send"]
    /\ UNCHANGED <<retryCount, generation, stale, attempts, current, result>>

Send(d, c, r) ==
    /\ place[d] = "send"
    /\ c \in batch[d]
    /\ batch' = [batch EXCEPT ![d] = @ \ {c}]
    /\ current' = [current EXCEPT ![d] = c]
    /\ result' = [result EXCEPT ![d] = r]
    /\ place' = [place EXCEPT ![d] = "record"]
    /\ UNCHANGED <<rowVars, attempts>>

Continue(d) ==
    /\ place' = [place EXCEPT ![d] = IF batch[d] = {} THEN "idle" ELSE "send"]
    /\ current' = [current EXCEPT ![d] = NoClaim]
    /\ result' = [result EXCEPT ![d] = "none"]
    /\ UNCHANGED batch

(* Mutant: an attempt is recorded without a look for its key. *)
RecordedMutant(c) == FALSE

(* The idempotency key is in the table. *)
Recorded(c) == \E a \in attempts : a.key = c

DuplicateStored(d) ==
    /\ place[d] = "record"
    /\ Recorded(current[d])
    /\ Continue(d)
    /\ UNCHANGED <<rowVars, attempts>>

(* next_status_after_failure *)
Retry(d) == result[d] = "retryable" /\ current[d].no < MaxAttempts

(* The attempt and the row's new status, in one transaction. *)
RecordAttempt(d) ==
    LET n == current[d].of
        ok == result[d] = "succeeded"
        Store(attemptStatus, newStatus) ==
            /\ attempts' = attempts \cup
                   {[key |-> current[d], status |-> attemptStatus]}
            /\ status' = [status EXCEPT ![n] = newStatus]
    IN
    /\ place[d] = "record"
    /\ ~Recorded(current[d])
    /\ \/ ok /\ Store("succeeded", "sent")
       \/ Retry(d) /\ Store("failed_retryable", "failed")
       \/ ~ok /\ ~Retry(d) /\ Store("failed_permanent", "dead_lettered")
    /\ retryCount' = [retryCount EXCEPT ![n] = IF Retry(d) THEN @ + 1 ELSE @]
    /\ Continue(d)
    /\ UNCHANGED <<generation, stale>>

(* A statement fails - two inserts of one key among them - or the process  *)
(* ends: the rest of the batch stays claimed.                              *)
Abandoned(d) ==
    /\ place[d] # "idle"
    /\ place' = [place EXCEPT ![d] = "idle"]
    /\ batch' = [batch EXCEPT ![d] = {}]
    /\ current' = [current EXCEPT ![d] = NoClaim]
    /\ result' = [result EXCEPT ![d] = "none"]
    /\ UNCHANGED <<rowVars, attempts>>

(* Five minutes pass. *)
GrowStale(n) ==
    /\ status[n] = "attempting" /\ ~stale[n]
    /\ stale' = [stale EXCEPT ![n] = TRUE]
    /\ UNCHANGED <<status, retryCount, generation, attempts, taskVars>>

-----------------------------------------------------------------------------
(* The dead letters, under the row's lock. *)

ReplayDlqItem(n) ==
    /\ status[n] = "dead_lettered"
    /\ generation[n] < MaxReplays
    /\ status' = [status EXCEPT ![n] = "pending"]
    /\ retryCount' = [retryCount EXCEPT ![n] = 0]
    /\ generation' = [generation EXCEPT ![n] = @ + 1]
    /\ UNCHANGED <<stale, attempts, taskVars>>

AbandonDlqItem(n) ==
    /\ status[n] = "dead_lettered"
    /\ status' = [status EXCEPT ![n] = "abandoned"]
    /\ UNCHANGED <<retryCount, generation, stale, attempts, taskVars>>

-----------------------------------------------------------------------------
Next ==
    \/ \E d \in Dispatchers :
         \/ ResetOrphans(d)
         \/ \E due \in SUBSET Notes : ClaimDue(d, due)
         \/ \E c \in batch[d], r \in Results : Send(d, c, r)
         \/ DuplicateStored(d) \/ RecordAttempt(d) \/ Abandoned(d)
    \/ \E n \in Notes : GrowStale(n) \/ ReplayDlqItem(n) \/ AbandonDlqItem(n)

Spec == Init /\ [][Next]_vars

-----------------------------------------------------------------------------
(* Properties.                                                             *)

AttemptsOf(n, s) ==
    {a \in attempts : a.key.of = n /\ a.key.gen = generation[n] /\ a.status = s}

(* Row and attempts agree, however many dispatchers had the row in hand:   *)
(* the retry count is the number of failed attempts of the generation, and *)
(* a success is recorded exactly for what is sent.                         *)
AttemptsAgree ==
    \A n \in Notes :
        /\ retryCount[n] = Cardinality(AttemptsOf(n, "failed_retryable"))
        /\ status[n] = "sent" <=> AttemptsOf(n, "succeeded") # {}

(* No late dispatcher, reset or claim takes a notification out of its      *)
(* final status: only a replay does, from the dead letters.                *)
FinalIsFinal ==
    [][\A n \in Notes :
         status[n] \in Final /\ status'[n] # status[n] =>
             /\ status[n] = "dead_lettered"
             /\ \/ status'[n] = "abandoned"
                \/ status'[n] = "pending" /\ generation'[n] > generation[n]]_vars
=============================================================================
