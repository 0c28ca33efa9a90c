------------------------- MODULE NotificationsProofs -------------------------
(***************************************************************************)
(* Proofs about Notifications for any notifications, dispatchers, attempts *)
(* and replays.                                                            *)
(*                                                                         *)
(* Nothing stops two dispatchers from having one notification in hand, and *)
(* the row is not looked at again before an attempt is recorded.  What     *)
(* makes this sound is the attempt's key: a claim whose key is not in the  *)
(* table yet still says what the row says, generation and count, and its   *)
(* row is in no final status.  Recording one claim records every other one *)
(* that is still current.                                                  *)
(***************************************************************************)
EXTENDS Notifications, FiniteSetTheorems, TLAPS

AnyClaim == [of : Notes, gen : Nat, no : Nat]

Typed ==
    /\ status \in [Notes -> Statuses]
    /\ retryCount \in [Notes -> Nat]
    /\ generation \in [Notes -> Nat]
    /\ batch \in [Dispatchers -> SUBSET AnyClaim]
    /\ current \in [Dispatchers -> AnyClaim \cup {NoClaim}]
    /\ place \in [Dispatchers -> {"idle", "claim", "send", "record"}]
    /\ \A d \in Dispatchers : place[d] = "record" => current[d] \in AnyClaim
    /\ \A a \in attempts : a.key \in AnyClaim

InHand(d, c) == c \in batch[d] \/ (place[d] = "record" /\ c = current[d])

(* A claim nobody has recorded is as good as new. *)
ClaimsCurrent ==
    \A d \in Dispatchers, c \in AnyClaim :
        InHand(d, c) /\ ~Recorded(c) =>
            c = AsClaimed(c.of) /\ status[c.of] \notin Final

(* No attempt is of a generation to come. *)
AttemptsPast == \A a \in attempts : a.key.gen <= generation[a.key.of]

Counted ==
    \A n \in Notes :
        /\ IsFiniteSet(AttemptsOf(n, "failed_retryable"))
        /\ retryCount[n] = Cardinality(AttemptsOf(n, "failed_retryable"))

SuccessIsSent ==
    \A n \in Notes : status[n] = "sent" <=> AttemptsOf(n, "succeeded") # {}

NotifyInv ==
    /\ Typed /\ ClaimsCurrent /\ AttemptsPast /\ Counted /\ SuccessIsSent

-----------------------------------------------------------------------------
LEMMA InitInv == Init => NotifyInv
<1> SUFFICES ASSUME Init PROVE NotifyInv
  OBVIOUS
<1>1. \A n, s : AttemptsOf(n, s) = {}
  BY DEF Init, AttemptsOf
<1>2. Counted
  BY <1>1, FS_EmptySet DEF Init, Counted
<1> QED
  BY <1>1, <1>2 DEF Init, NotifyInv, Typed, ClaimsCurrent, AttemptsPast,
     SuccessIsSent, InHand, Statuses, Final

(* What a step leaves alone that writes no attempt and no generation. *)
LEMMA SameAttempts ==
    ASSUME UNCHANGED <<attempts, generation>>
    PROVE  /\ \A n, s : AttemptsOf(n, s)' = AttemptsOf(n, s)
           /\ \A c : Recorded(c)' <=> Recorded(c)
BY DEF AttemptsOf, Recorded

LEMMA ResetInv ==
    ASSUME NotifyInv, NEW d \in Dispatchers, ResetOrphans(d)
    PROVE  NotifyInv'
<1>1. /\ UNCHANGED <<retryCount, generation, attempts, batch, current>>
      /\ status' = [n \in Notes |-> IF status[n] = "attempting" /\ stale[n]
                                    THEN "pending" ELSE status[n]]
      /\ place' = [place EXCEPT ![d] = "claim"]
  BY DEF ResetOrphans
<1>2. \A n \in Notes : /\ status'[n] \in Final <=> status[n] \in Final
                       /\ status'[n] = "sent" <=> status[n] = "sent"
  BY <1>1 DEF Final
<1>3. Typed'
  BY <1>1 DEF NotifyInv, Typed, Statuses
<1>4. ClaimsCurrent'
  <2>1. \A e \in Dispatchers, c \in AnyClaim : InHand(e, c)' => InHand(e, c)
    BY <1>1 DEF InHand, NotifyInv, Typed
  <2>2. \A c \in AnyClaim : c.of \in Notes
    BY DEF AnyClaim
  <2> QED
    BY <1>1, <1>2, <2>1, <2>2, SameAttempts
    DEF NotifyInv, ClaimsCurrent, AsClaimed
<1> QED
  BY <1>1, <1>2, <1>3, <1>4, SameAttempts
  DEF NotifyInv, AttemptsPast, Counted, SuccessIsSent

(* What is claimed is claimed as it is, and is not final. *)
LEMMA ClaimInv ==
    ASSUME NotifyInv, NEW d \in Dispatchers, NEW due \in SUBSET Notes,
           ClaimDue(d, due)
    PROVE  NotifyInv'
<1>1. /\ UNCHANGED <<retryCount, generation, attempts, current>>
      /\ \A n \in due : status[n] \in {"pending", "failed"}
      /\ status' = [n \in Notes |-> IF n \in due THEN "attempting" ELSE status[n]]
      /\ batch' = [batch EXCEPT ![d] = {AsClaimed(n) : n \in due}]
      /\ place' = [place EXCEPT ![d] = IF due = {} THEN "idle" ELSE "send"]
  BY DEF ClaimDue
<1>2. \A n \in Notes : /\ status'[n] \in Final <=> status[n] \in Final
                       /\ status'[n] = "sent" <=> status[n] = "sent"
  BY <1>1 DEF Final
<1>3. \A n \in Notes : AsClaimed(n) \in AnyClaim /\ AsClaimed(n).of = n
  BY DEF AsClaimed, AnyClaim, NotifyInv, Typed
<1>4. Typed'
  BY <1>1, <1>3 DEF NotifyInv, Typed, Statuses
<1>5. ClaimsCurrent'
  <2> SUFFICES ASSUME NEW e \in Dispatchers, NEW c \in AnyClaim,
                      InHand(e, c)', ~Recorded(c)
               PROVE  c = AsClaimed(c.of) /\ status'[c.of] \notin Final
    BY <1>1, SameAttempts DEF ClaimsCurrent, AsClaimed
  <2>1. c.of \in Notes
    BY DEF AnyClaim
  <2>2. CASE InHand(e, c)
    BY <1>2, <2>1, <2>2 DEF NotifyInv, ClaimsCurrent
  <2>3. CASE ~InHand(e, c)
    <3>1. PICK n \in due : c = AsClaimed(n)
      BY <1>1, <2>3 DEF InHand, NotifyInv, Typed
    <3> QED BY <1>1, <1>3, <3>1 DEF Final
  <2> QED BY <2>2, <2>3
<1> QED
  BY <1>1, <1>2, <1>4, <1>5, SameAttempts
  DEF NotifyInv, AttemptsPast, Counted, SuccessIsSent

(* Claims move from the batch to the hand, or are dropped. *)
LEMMA HandInv ==
    ASSUME NotifyInv, NEW d \in Dispatchers,
           \/ \E c \in batch[d], r \in Results : Send(d, c, r)
           \/ DuplicateStored(d)
           \/ Abandoned(d)
    PROVE  NotifyInv'
<1>1. UNCHANGED <<status, retryCount, generation, attempts>>
  BY DEF Send, DuplicateStored, Abandoned, rowVars
<1>2. Typed'
  BY <1>1 DEF NotifyInv, Typed, Send, DuplicateStored, Continue, Abandoned
<1>3. \A e \in Dispatchers, c \in AnyClaim : InHand(e, c)' => InHand(e, c)
  BY DEF InHand, NotifyInv, Typed, Send, DuplicateStored, Continue, Abandoned
<1> QED
  BY <1>1, <1>2, <1>3, SameAttempts
  DEF NotifyInv, ClaimsCurrent, AsClaimed, AttemptsPast, Counted, SuccessIsSent

(* The recorded claim said what the row said, so the row's new count is the *)
(* number of failures; whoever else holds the same claim finds it recorded. *)
LEMMA RecordInv ==
    ASSUME NotifyInv, NEW d \in Dispatchers, RecordAttempt(d)
    PROVE  NotifyInv'
<1>0. PICK c, n : c = current[d] /\ n = c.of
  OBVIOUS
<1>1. /\ c \in AnyClaim /\ n \in Notes /\ ~Recorded(c)
      /\ UNCHANGED generation
      /\ retryCount' = [retryCount EXCEPT ![n] = IF Retry(d) THEN @ + 1 ELSE @]
  BY <1>0 DEF RecordAttempt, NotifyInv, Typed, AnyClaim
<1>2. c = AsClaimed(n) /\ status[n] \notin Final
  BY <1>0, <1>1 DEF RecordAttempt, NotifyInv, ClaimsCurrent, InHand
<1>3. PICK as, ns :
        /\ \/ as = "succeeded" /\ ns = "sent" /\ ~Retry(d)
           \/ as = "failed_retryable" /\ ns = "failed" /\ Retry(d)
           \/ as = "failed_permanent" /\ ns = "dead_lettered" /\ ~Retry(d)
        /\ attempts' = attempts \cup {[key |-> c, status |-> as]}
        /\ status' = [status EXCEPT ![n] = ns]
  BY <1>0 DEF RecordAttempt, Retry
<1>4. /\ batch' = batch
      /\ current' = [current EXCEPT ![d] = NoClaim]
      /\ place' = [place EXCEPT ![d] = IF batch[d] = {} THEN "idle" ELSE "send"]
  BY DEF RecordAttempt, Continue
<1> DEFINE new == [key |-> c, status |-> as]
<1>5. new \notin attempts /\ new.key = c /\ new.status = as
  BY <1>1 DEF Recorded
<1>6. c.gen = generation[n] /\ c.of = n
  BY <1>0, <1>2 DEF AsClaimed
<1>7. \A m \in Notes \ {n} :
        /\ status'[m] = status[m] /\ retryCount'[m] = retryCount[m]
        /\ \A s : AttemptsOf(m, s)' = AttemptsOf(m, s)
  BY <1>1, <1>3, <1>5, <1>6 DEF NotifyInv, Typed, AttemptsOf
<1>8. \A s : AttemptsOf(n, s)' =
               IF s = as THEN AttemptsOf(n, s) \cup {new} ELSE AttemptsOf(n, s)
  BY <1>1, <1>3, <1>5, <1>6 DEF AttemptsOf
<1>9. new \notin AttemptsOf(n, as)
  BY <1>5 DEF AttemptsOf
<1>10. Typed'
  <2>1. \A a \in attempts' : a.key \in AnyClaim
    BY <1>1, <1>3, <1>5 DEF NotifyInv, Typed
  <2>2. status' \in [Notes -> Statuses]
    BY <1>3 DEF NotifyInv, Typed, Statuses, Final
  <2>3. retryCount' \in [Notes -> Nat]
    BY <1>1 DEF NotifyInv, Typed
  <2> QED BY <1>1, <1>4, <2>1, <2>2, <2>3 DEF NotifyInv, Typed
<1>11. ClaimsCurrent'
  <2> SUFFICES ASSUME NEW e \in Dispatchers, NEW b \in AnyClaim,
                      InHand(e, b)', ~Recorded(b)'
               PROVE  b = AsClaimed(b.of)' /\ status'[b.of] \notin Final
    BY DEF ClaimsCurrent, AsClaimed
  <2>1. InHand(e, b) /\ ~Recorded(b) /\ b # c
    BY <1>0, <1>3, <1>4, <1>5 DEF InHand, Recorded, NotifyInv, Typed
  <2>2. b = AsClaimed(b.of) /\ status[b.of] \notin Final
    BY <2>1 DEF NotifyInv, ClaimsCurrent
  <2>3. b.of \in Notes \ {n}
    BY <1>2, <2>1, <2>2 DEF AnyClaim
  <2> QED BY <1>1, <1>7, <2>2, <2>3 DEF AsClaimed
<1>12. AttemptsPast'
  <2>1. new.key.gen <= generation[new.key.of]
    <3>1. generation[n] \in Nat
      BY <1>1 DEF NotifyInv, Typed
    <3>2. new.key.gen = generation[n] /\ new.key.of = n
      BY <1>6
    <3> QED BY <3>1, <3>2
  <2> HIDE DEF new
  <2>2. attempts' = attempts \cup {new}
    BY <1>3 DEF new
  <2> QED BY <1>1, <2>1, <2>2 DEF NotifyInv, AttemptsPast
<1>13. Counted'
  <2> SUFFICES ASSUME NEW m \in Notes
               PROVE  /\ IsFiniteSet(AttemptsOf(m, "failed_retryable")')
                      /\ retryCount'[m] =
                           Cardinality(AttemptsOf(m, "failed_retryable")')
    BY DEF Counted
  <2>1. CASE m # n
    BY <1>7, <2>1 DEF NotifyInv, Counted
  <2>2. CASE m = n /\ ~Retry(d)
    BY <1>1, <1>3, <1>8, <2>2 DEF NotifyInv, Typed, Counted
  <2>3. CASE m = n /\ Retry(d)
    <3>1. as = "failed_retryable"
      BY <1>3, <2>3
    <3>2. /\ IsFiniteSet(AttemptsOf(n, as) \cup {new})
          /\ Cardinality(AttemptsOf(n, as) \cup {new}) =
               Cardinality(AttemptsOf(n, as)) + 1
      BY <1>1, <1>9, <3>1, FS_AddElement DEF NotifyInv, Counted
    <3>3. retryCount'[n] = retryCount[n] + 1
      BY <1>1, <2>3 DEF NotifyInv, Typed
    <3> QED BY <1>1, <1>8, <2>3, <3>1, <3>2, <3>3 DEF NotifyInv, Counted
  <2> QED BY <2>1, <2>2, <2>3
<1>14. SuccessIsSent'
  <2> SUFFICES ASSUME NEW m \in Notes
               PROVE  status'[m] = "sent" <=> AttemptsOf(m, "succeeded")' # {}
    BY DEF SuccessIsSent
  <2>1. CASE m # n
    BY <1>7, <2>1 DEF NotifyInv, SuccessIsSent
  <2>2. CASE m = n
    <3>1. AttemptsOf(n, "succeeded") = {}
      BY <1>1, <1>2 DEF NotifyInv, SuccessIsSent, Final
    <3>2. status'[n] = ns
      BY <1>1, <1>3 DEF NotifyInv, Typed
    <3> QED BY <1>3, <1>8, <2>2, <3>1, <3>2
  <2> QED BY <2>1, <2>2
<1> QED BY <1>10, <1>11, <1>12, <1>13, <1>14 DEF NotifyInv

(* Nobody's unrecorded claim is of a dead letter, so none becomes wrong by *)
(* the new generation.                                                     *)
LEMMA ReplayInv ==
    ASSUME NotifyInv, NEW n \in Notes, ReplayDlqItem(n)
    PROVE  NotifyInv'
<1>1. /\ status[n] = "dead_lettered"
      /\ status' = [status EXCEPT ![n] = "pending"]
      /\ retryCount' = [retryCount EXCEPT ![n] = 0]
      /\ generation' = [generation EXCEPT ![n] = @ + 1]
      /\ UNCHANGED <<attempts, place, batch, current>>
  BY DEF ReplayDlqItem, taskVars
<1>2. generation[n] \in Nat /\ generation'[n] = generation[n] + 1
  BY <1>1 DEF NotifyInv, Typed
<1>3. \A m \in Notes \ {n} :
        /\ status'[m] = status[m] /\ retryCount'[m] = retryCount[m]
        /\ generation'[m] = generation[m]
        /\ \A s : AttemptsOf(m, s)' = AttemptsOf(m, s)
  BY <1>1 DEF NotifyInv, Typed, AttemptsOf
<1>4. \A s : AttemptsOf(n, s)' = {}
  <2>1. \A a \in attempts : a.key.of = n => a.key.gen \in Nat /\ a.key.gen <= generation[n]
    BY DEF NotifyInv, Typed, AnyClaim, AttemptsPast
  <2> QED BY <1>1, <1>2, <2>1 DEF AttemptsOf
<1>5. Typed'
  BY <1>1, <1>2 DEF NotifyInv, Typed, Statuses
<1>6. ClaimsCurrent'
  <2> SUFFICES ASSUME NEW e \in Dispatchers, NEW b \in AnyClaim,
                      InHand(e, b), ~Recorded(b)
               PROVE  b = AsClaimed(b.of)' /\ status'[b.of] \notin Final
    BY <1>1 DEF ClaimsCurrent, AsClaimed, InHand, Recorded
  <2>1. b = AsClaimed(b.of) /\ status[b.of] \notin Final
    BY DEF NotifyInv, ClaimsCurrent
  <2>2. b.of \in Notes \ {n}
    BY <1>1, <2>1 DEF AnyClaim, Final
  <2> QED BY <1>3, <2>1, <2>2 DEF AsClaimed
<1>7. AttemptsPast'
  <2>1. \A a \in attempts : /\ a.key.of \in Notes /\ a.key.gen \in Nat
                            /\ generation[a.key.of] \in Nat
    BY DEF NotifyInv, Typed, AnyClaim
  <2> QED BY <1>1, <1>2, <1>3, <2>1 DEF NotifyInv, AttemptsPast
<1>8. Counted'
  <2>1. retryCount'[n] = 0
    BY <1>1 DEF NotifyInv, Typed
  <2> QED BY <1>3, <1>4, <2>1, FS_EmptySet DEF NotifyInv, Counted
<1>9. SuccessIsSent'
  <2>1. status'[n] = "pending"
    BY <1>1 DEF NotifyInv, Typed
  <2> QED BY <1>3, <1>4, <2>1 DEF NotifyInv, SuccessIsSent
<1> QED BY <1>5, <1>6, <1>7, <1>8, <1>9 DEF NotifyInv

LEMMA AbandonInv ==
    ASSUME NotifyInv, NEW n \in Notes, AbandonDlqItem(n)
    PROVE  NotifyInv'
<1>1. /\ status[n] = "dead_lettered"
      /\ status' = [status EXCEPT ![n] = "abandoned"]
      /\ UNCHANGED <<retryCount, generation, attempts, place, batch, current>>
  BY DEF AbandonDlqItem, taskVars
<1>2. \A m \in Notes : /\ status'[m] \in Final <=> status[m] \in Final
                       /\ status'[m] = "sent" <=> status[m] = "sent"
  BY <1>1 DEF Final, NotifyInv, Typed
<1>3. Typed'
  BY <1>1 DEF NotifyInv, Typed, Statuses, Final
<1>4. ClaimsCurrent'
  BY <1>1, <1>2, SameAttempts
  DEF NotifyInv, ClaimsCurrent, AsClaimed, InHand, AnyClaim
<1> QED
  BY <1>1, <1>2, <1>3, <1>4, SameAttempts
  DEF NotifyInv, AttemptsPast, Counted, SuccessIsSent

-----------------------------------------------------------------------------
(* The theorems.                                                           *)

LEMMA StepInv == NotifyInv /\ [Next]_vars => NotifyInv'
<1> SUFFICES ASSUME NotifyInv, [Next]_vars PROVE NotifyInv'
  OBVIOUS
<1>1. ASSUME UNCHANGED <<status, retryCount, generation, attempts, taskVars>>
      PROVE  NotifyInv'
  BY <1>1, SameAttempts DEF taskVars, NotifyInv, Typed, ClaimsCurrent,
     AsClaimed, InHand, AttemptsPast, Counted, SuccessIsSent
<1>2. CASE UNCHANGED vars
  BY <1>1, <1>2 DEF vars, rowVars
<1>3. ASSUME NEW n \in Notes, GrowStale(n) PROVE NotifyInv'
  BY <1>1, <1>3 DEF GrowStale
<1> QED
  BY <1>2, <1>3, ResetInv, ClaimInv, HandInv, RecordInv, ReplayInv, AbandonInv
  DEF Next

(* A recorded attempt raises the retry count only where the policy allows  *)
(* another one: what is recorded is the row as it was claimed.             *)
LEMMA TypeRecord ==
    ASSUME MaxAttempts \in Nat \ {0}, TypeOK, NotifyInv,
           NEW d \in Dispatchers, RecordAttempt(d)
    PROVE  TypeOK'
<1> DEFINE c == current[d]
           n == c.of
<1>1. /\ place[d] = "record" /\ ~Recorded(c)
      /\ UNCHANGED <<generation, stale, batch>>
      /\ current' = [current EXCEPT ![d] = NoClaim]
      /\ result' = [result EXCEPT ![d] = "none"]
      /\ place' = [place EXCEPT ![d] = IF batch[d] = {} THEN "idle" ELSE "send"]
      /\ retryCount' =
             [retryCount EXCEPT ![n] = IF Retry(d) THEN @ + 1 ELSE @]
  BY DEF RecordAttempt, Continue
<1>2. PICK a \in {"succeeded", "failed_retryable", "failed_permanent"},
           s \in Statuses :
         /\ attempts' = attempts \cup {[key |-> c, status |-> a]}
         /\ status' = [status EXCEPT ![n] = s]
  BY DEF RecordAttempt, Statuses, Final
<1>3. c \in Claimed /\ n \in Notes
  <2>1. c \in AnyClaim
    BY <1>1 DEF NotifyInv, Typed
  <2>2. c \in Claimed \cup {NoClaim}
    BY DEF TypeOK
  <2>3. c \in Claimed
    <3>1. CASE c = NoClaim
      <4>1. c.no = 0 /\ c.gen = 0 /\ n \in Notes
        BY <2>1, <3>1 DEF AnyClaim, NoClaim
      <4>2. c = AsClaimed(n)
        BY <1>1, <2>1 DEF NotifyInv, ClaimsCurrent, InHand
      <4>3. c.no = retryCount[n] + 1 /\ retryCount[n] \in Nat
        BY <4>1, <4>2 DEF AsClaimed, NotifyInv, Typed
      <4> QED BY <4>1, <4>3
    <3> QED BY <2>2, <3>1
  <2> QED BY <2>3 DEF Claimed
<1>4. retryCount[n] \in 0 .. MaxAttempts - 1 /\ c.no = retryCount[n] + 1
  <2>1. c = AsClaimed(n)
    <3>1. c \in AnyClaim
      BY <1>1 DEF NotifyInv, Typed
    <3> QED BY <1>1, <3>1 DEF NotifyInv, ClaimsCurrent, InHand
  <2> QED BY <1>3, <2>1 DEF AsClaimed, TypeOK
<1>5. Retry(d) => retryCount[n] + 1 \in 0 .. MaxAttempts - 1
  <2>1. c.no \in 1 .. MaxAttempts
    BY <1>3 DEF Claimed
  <2> QED BY <1>4, <2>1 DEF Retry
<1> HIDE DEF c, n
<1>6. retryCount' \in [Notes -> 0 .. MaxAttempts - 1]
  <2>1. CASE Retry(d)
    BY <1>1, <1>3, <1>5, <2>1 DEF TypeOK
  <2>2. CASE ~Retry(d)
    BY <1>1, <1>3, <2>2 DEF TypeOK
  <2> QED BY <2>1, <2>2
<1>7. [key |-> c, status |-> a] \in Attempt
  BY <1>3 DEF Attempt
<1>8. status' \in [Notes -> Statuses] /\ attempts' \in SUBSET Attempt
  BY <1>2, <1>7 DEF TypeOK
<1>9. /\ place' \in [Dispatchers -> {"idle", "claim", "send", "record"}]
      /\ current' \in [Dispatchers -> Claimed \cup {NoClaim}]
      /\ result' \in [Dispatchers -> Results \cup {"none"}]
  BY <1>1 DEF TypeOK
<1> QED
  BY <1>1, <1>6, <1>8, <1>9 DEF TypeOK

(* Every column and task has its type: no row is retried more often than   *)
(* the policy has it.                                                      *)
THEOREM TypeCorrect ==
    ASSUME MaxAttempts \in Nat \ {0}, MaxReplays \in Nat
    PROVE  Spec => []TypeOK
<1>1. Init => TypeOK
  BY DEF Init, TypeOK, Statuses, Final
<1>2. TypeOK /\ NotifyInv /\ [Next]_vars => TypeOK'
  <2> SUFFICES ASSUME TypeOK, NotifyInv, [Next]_vars PROVE TypeOK'
    OBVIOUS
  <2>1. ASSUME NEW d \in Dispatchers, ResetOrphans(d) PROVE TypeOK'
    <3>1. "pending" \in Statuses
      BY DEF Statuses
    <3> QED BY <2>1, <3>1 DEF ResetOrphans, TypeOK
  <2>2. ASSUME NEW d \in Dispatchers, NEW due \in SUBSET Notes, ClaimDue(d, due)
        PROVE  TypeOK'
    <3>1. \A n \in due : AsClaimed(n) \in Claimed
      BY DEF TypeOK, AsClaimed, Claimed
    <3>2. {AsClaimed(n) : n \in due} \in SUBSET Claimed
      BY <3>1
    <3>3. batch' \in [Dispatchers -> SUBSET Claimed]
      BY <2>2, <3>2 DEF ClaimDue, TypeOK
    <3>4. "attempting" \in Statuses
      BY DEF Statuses
    <3>5. status' \in [Notes -> Statuses]
      BY <2>2, <3>4 DEF ClaimDue, TypeOK
    <3>6. place' \in [Dispatchers -> {"idle", "claim", "send", "record"}]
      BY <2>2 DEF ClaimDue, TypeOK
    <3> QED
      BY <2>2, <3>3, <3>5, <3>6 DEF ClaimDue, TypeOK
  <2>3. ASSUME NEW d \in Dispatchers, NEW c \in batch[d], NEW r \in Results,
               Send(d, c, r)
        PROVE  TypeOK'
    BY <2>3 DEF Send, TypeOK, rowVars
  <2>4. ASSUME NEW d \in Dispatchers, DuplicateStored(d) PROVE TypeOK'
    BY <2>4 DEF DuplicateStored, Continue, TypeOK, rowVars
  <2>5. ASSUME NEW d \in Dispatchers, Abandoned(d) PROVE TypeOK'
    BY <2>5 DEF Abandoned, TypeOK, rowVars
  <2>6. ASSUME NEW n \in Notes, ReplayDlqItem(n) PROVE TypeOK'
    <3>1. generation[n] + 1 \in 0 .. MaxReplays /\ 0 \in 0 .. MaxAttempts - 1
      BY <2>6 DEF ReplayDlqItem, TypeOK
    <3>2. "pending" \in Statuses
      BY DEF Statuses
    <3> QED
      BY <2>6, <3>1, <3>2 DEF ReplayDlqItem, TypeOK, taskVars
  <2>7. ASSUME NEW n \in Notes, GrowStale(n) \/ AbandonDlqItem(n) PROVE TypeOK'
    BY <2>7 DEF GrowStale, AbandonDlqItem, TypeOK, taskVars, Statuses, Final
  <2>8. CASE UNCHANGED vars
    BY <2>8 DEF vars, rowVars, taskVars, TypeOK
  <2> QED
    BY <2>1, <2>2, <2>3, <2>4, <2>5, <2>6, <2>7, <2>8, TypeRecord DEF Next
<1> QED BY <1>1, <1>2, InitInv, StepInv, PTL DEF Spec

(* The retry count is the number of failed attempts of the generation and  *)
(* a success is recorded exactly for what is sent, however many            *)
(* dispatchers have one notification in hand.                              *)
THEOREM RowsAgree == Spec => []AttemptsAgree
<1>1. NotifyInv => AttemptsAgree
  BY DEF NotifyInv, Counted, SuccessIsSent, AttemptsAgree
<1> QED BY <1>1, InitInv, StepInv, PTL DEF Spec

(* A final status is left by no late dispatcher, reset or claim, only from *)
(* the dead letters by a replay or to be abandoned.                        *)
THEOREM FinalStays == Spec => FinalIsFinal
<1> DEFINE Kept == \A n \in Notes :
              status[n] \in Final /\ status'[n] # status[n] =>
                  /\ status[n] = "dead_lettered"
                  /\ \/ status'[n] = "abandoned"
                     \/ status'[n] = "pending" /\ generation'[n] > generation[n]
<1>1. NotifyInv /\ [Next]_vars => [Kept]_vars
  <2> SUFFICES ASSUME NotifyInv, Next PROVE Kept
    OBVIOUS
  <2>1. ASSUME NEW d \in Dispatchers, ResetOrphans(d) PROVE Kept
    BY <2>1 DEF ResetOrphans, Final
  <2>2. ASSUME NEW d \in Dispatchers, NEW due \in SUBSET Notes, ClaimDue(d, due)
        PROVE  Kept
    BY <2>2 DEF ClaimDue, Final
  <2>3. ASSUME NEW d \in Dispatchers, RecordAttempt(d) PROVE Kept
    <3>1. current[d] \in AnyClaim /\ status[current[d].of] \notin Final
      BY <2>3 DEF RecordAttempt, NotifyInv, Typed, ClaimsCurrent, InHand
    <3>2. \A n \in Notes : n # current[d].of => status'[n] = status[n]
      BY <2>3 DEF RecordAttempt, NotifyInv, Typed
    <3> QED BY <3>1, <3>2
  <2>4. ASSUME NEW n \in Notes, ReplayDlqItem(n) PROVE Kept
    <3>1. generation[n] \in Nat
      BY DEF NotifyInv, Typed
    <3> QED BY <2>4, <3>1 DEF ReplayDlqItem, NotifyInv, Typed
  <2>5. ASSUME NEW n \in Notes, AbandonDlqItem(n) PROVE Kept
    BY <2>5 DEF AbandonDlqItem, NotifyInv, Typed
  <2>6. ASSUME UNCHANGED status PROVE Kept
    BY <2>6
  <2> QED
    BY <2>1, <2>2, <2>3, <2>4, <2>5, <2>6
    DEF Next, Send, DuplicateStored, Abandoned, GrowStale, rowVars
<1> QED BY <1>1, InitInv, StepInv, PTL DEF Spec, FinalIsFinal
=============================================================================
