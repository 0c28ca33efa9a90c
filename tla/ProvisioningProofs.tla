------------------------- MODULE ProvisioningProofs -------------------------
(***************************************************************************)
(* Proofs about Provisioning, for every set of tenants, workers and retry  *)
(* calls, every number of steps and every bound on faults.                 *)
(*                                                                         *)
(* The argument: `done' only grows, so a fact "these steps are carried     *)
(* out" once established stays.  A worker starts either at step 1 or at    *)
(* the first step that is not recorded as completed, hence knows the steps *)
(* before it to be done; it moves on only after its own step is done, and  *)
(* records completion, activates and writes events only then.              *)
(*                                                                         *)
(* StepsKept is about SerialSpec: while a worker is the only one on its    *)
(* tenant, its place tells which steps the rows call completed (RecordInv). *)
(* LifecycleKept is about any overlap: whoever has a tenant in hand that   *)
(* no other hand holds knows its status (CrossedInv).                      *)
(***************************************************************************)
EXTENDS ProvisioningOverlap, FiniteSetTheorems, WellFoundedInduction, SequenceTheorems, TLAPS

(* A row with a step not completed has a first one, and FirstPending finds *)
(* it: it is not completed and every step before it is.                    *)
LEMMA FirstPendingIsFirst ==
    ASSUME NEW row \in [Steps -> StepStatus],
           ~ \A s \in Steps : row[s] = "completed"
    PROVE  /\ FirstPending(row) \in Steps
           /\ row[FirstPending(row)] # "completed"
           /\ \A r \in 1 .. (FirstPending(row) - 1) : row[r] = "completed"
<1> DEFINE Open == {s \in Steps : row[s] # "completed"}
<1>1. Open \subseteq Nat /\ Open # {}
    BY StepsAssumption DEF Steps
<1>2. PICK x \in Open : \A y \in Open : ~ (<<y, x>> \in OpToRel(<, Nat))
    BY <1>1, NatLessThanWellFounded, WFMin
<1>3. \A y \in Open : ~ (y < x)
    BY <1>1, <1>2 DEF OpToRel
<1>4. \A r \in 1 .. (x - 1) : row[r] = "completed"
    BY <1>3, StepsAssumption DEF Steps
<1> QED
    BY <1>4 DEF FirstPending

(* Appending a row to the outbox, and what the relay takes from it.        *)
LEMMA OutboxGrows ==
    ASSUME TypeOK, NEW e \in Events, Insert(e)
    PROVE  /\ outbox' \in Seq(Events)
           /\ \A i \in 1 .. Len(outbox') :
                \/ outbox'[i] = e
                \/ i \in 1 .. Len(outbox) /\ outbox'[i] = outbox[i]
<1>1. /\ Append(outbox, e) \in Seq(Events)
      /\ Len(Append(outbox, e)) = Len(outbox) + 1
      /\ \A i \in 1 .. Len(outbox) : Append(outbox, e)[i] = outbox[i]
      /\ Append(outbox, e)[Len(outbox) + 1] = e
    BY AppendProperties DEF TypeOK
<1>2. Len(outbox) \in Nat
    BY LenProperties DEF TypeOK
<1> QED
    BY <1>1, <1>2 DEF Insert

LEMMA EventType ==
    ASSUME NEW t \in Tenants, NEW k \in {Started, Provisioned, Failed, Hook},
           NEW s \in 0 .. LastStep
    PROVE  Event(t, k, s) \in Events
BY DEF Event, Events

-----------------------------------------------------------------------------
(* Type correctness. *)

LEMMA InitType == Init => TypeOK
<1> SUFFICES ASSUME Init PROVE TypeOK
    OBVIOUS
<1>1. outbox \in Seq(Events) /\ inbox \in Seq(Tenants)
    BY EmptySeq DEF Init
<1>2. PICK t \in Tenants : /\ cur = [w \in Workers |-> t]
                           /\ callFor = [c \in Callers |-> t]
    BY DEF Init
<1> QED
    BY <1>1, <1>2, StepsAssumption, BoundsAssumption
    DEF Init, TypeOK, TenantStatus, StepStatus, Places, Steps

LEMMA RetryType ==
    ASSUME TypeOK, NEW c \in Callers, RetryCall(c)
    PROVE  TypeOK'
<1>1. ASSUME NEW t \in Tenants, RetryAdmit(c, t) PROVE TypeOK'
    BY <1>1, BoundsAssumption
    DEF RetryAdmit, TypeOK, dbVars, busVars, workerVars
<1>2. CASE RetryReset(c)
    BY <1>2 DEF RetryReset, TypeOK, TenantStatus, busVars, workerVars
<1>3. CASE RetrySteps(c)
    BY <1>3 DEF RetrySteps, TypeOK, StepStatus, busVars, workerVars
<1>4. CASE RetryEvent(c)
    <2>1. outbox' \in Seq(Events)
        BY <1>4, OutboxGrows, EventType, StepsAssumption DEF RetryEvent, TypeOK
    <2> QED
        BY <1>4, <2>1 DEF RetryEvent, TypeOK, dbVars, workerVars
<1>5. CASE RetryError(c)
    BY <1>5, BoundsAssumption
    DEF RetryError, Fault, TypeOK, dbVars, busVars, workerVars
<1> QED
    BY <1>1, <1>2, <1>3, <1>4, <1>5 DEF RetryCall

LEMMA RelayType ==
    ASSUME TypeOK, RelayRow \/ RelayRowUnmarked
    PROVE  TypeOK'
<1> outbox # <<>> /\ Head(outbox) \in Events /\ Tail(outbox) \in Seq(Events)
    BY HeadTailProperties DEF TypeOK, RelayRow, RelayRowUnmarked
<1>1. Head(outbox).tenant \in Tenants
    BY DEF Events
<1>2. Append(inbox, Head(outbox).tenant) \in Seq(Tenants)
    BY <1>1, AppendProperties DEF TypeOK
<1>3. inbox' \in Seq(Tenants)
    BY <1>2 DEF TypeOK, RelayRow, RelayRowUnmarked, Deliver
<1>4. faults' \in 0 .. MaxFaults
    BY BoundsAssumption DEF TypeOK, RelayRow, RelayRowUnmarked, Deliver, Fault
<1> QED
    BY <1>3, <1>4
    DEF TypeOK, RelayRow, RelayRowUnmarked, dbVars, workerVars, callVars

LEMMA TakeUpType ==
    ASSUME TypeOK, NEW w \in Workers, TakeUp(w)
    PROVE  TypeOK'
<1>1. ASSUME NEW t \in Tenants, Begin(w, t)
      PROVE  /\ cur' \in [Workers -> Tenants]
             /\ pc' \in [Workers -> Places]
             /\ step' \in [Workers -> Steps]
             /\ attempt' \in [Workers -> 1 .. MaxAttempts]
    BY <1>1 DEF Begin, TypeOK, Places
<1>2. CASE Consume(w)
    <2>1. Head(inbox) \in Tenants /\ Tail(inbox) \in Seq(Tenants)
        BY <1>2, HeadTailProperties DEF Consume, TypeOK
    <2> QED
        BY <1>1, <1>2, <2>1 DEF Consume, TypeOK, dbVars, callVars
<1>3. CASE Poll(w)
    <2>1. Oldest(Stuck) \subseteq Tenants
        BY DEF Oldest, Stuck
    <2> QED
        BY <1>3, <2>1 DEF Poll, TypeOK, dbVars, busVars, callVars
<1>4. CASE Recover(w)
    <2>1. PICK t \in batch[w] : /\ Begin(w, t)
                                /\ batch' = [batch EXCEPT ![w] = @ \ {t}]
        BY <1>4 DEF Recover
    <2>2. t \in Tenants
        BY DEF TypeOK
    <2> QED
        BY <1>1, <1>4, <2>1, <2>2 DEF Recover, TypeOK, dbVars, busVars, callVars
<1> QED
    BY <1>2, <1>3, <1>4 DEF TakeUp

(* What the helpers of a run do to the variables they write. *)
LEMMA GotoType ==
    ASSUME TypeOK, NEW w \in Workers, NEW place \in Places, Goto(w, place)
    PROVE  pc' \in [Workers -> Places]
BY DEF Goto, TypeOK

LEMMA MarkStepType ==
    ASSUME TypeOK, NEW w \in Workers, NEW st \in StepStatus, MarkStep(w, st)
    PROVE  steps' \in [Tenants -> [Steps -> StepStatus]]
<1>1. /\ cur[w] \in Tenants /\ step[w] \in Steps
      /\ steps \in [Tenants -> [Steps -> StepStatus]]
    BY DEF TypeOK
<1> QED
    BY <1>1 DEF MarkStep

LEMMA FaultCounts ==
    ASSUME TypeOK, NEW k, Fault(k)
    PROVE  faults' \in 0 .. MaxFaults
BY BoundsAssumption DEF Fault, TypeOK

LEMMA StepErrType ==
    ASSUME TypeOK, NEW w \in Workers, StepErr(w)
    PROVE  /\ pc' \in [Workers -> Places]
           /\ attempt' \in [Workers -> 1 .. MaxAttempts]
<1>1. "attempt" \in Places /\ "markFailed" \in Places
    BY DEF Places
<1>2. pc' \in [Workers -> Places]
    BY <1>1, GotoType DEF StepErr
<1>3. /\ attempt \in [Workers -> 1 .. MaxAttempts]
      /\ AttemptsOf(step[w]) \in 1 .. MaxAttempts
    BY StepsAssumption DEF TypeOK, AttemptsOf
<1>4. \/ attempt' = attempt
      \/ attempt' = [attempt EXCEPT ![w] = @ + 1] /\ attempt[w] < AttemptsOf(step[w])
    BY DEF StepErr
<1> QED
    BY <1>2, <1>3, <1>4, StepsAssumption

LEMMA AdvanceType ==
    ASSUME TypeOK, NEW w \in Workers, Advance(w)
    PROVE  /\ pc' \in [Workers -> Places]
           /\ step' \in [Workers -> Steps]
           /\ attempt' \in [Workers -> 1 .. MaxAttempts]
<1>1. "idle" \in Places /\ "attempt" \in Places
    BY DEF Places
<1>2. pc' \in [Workers -> Places]
    BY <1>1, GotoType DEF Advance
<1>3. attempt' \in [Workers -> 1 .. MaxAttempts]
    <2>1. attempt \in [Workers -> 1 .. MaxAttempts] /\ 1 \in 1 .. MaxAttempts
        BY StepsAssumption DEF TypeOK
    <2>2. attempt' = attempt \/ attempt' = [attempt EXCEPT ![w] = 1]
        BY DEF Advance
    <2> QED
        BY <2>1, <2>2
<1>4. step \in [Workers -> Steps] /\ (step[w] # LastStep => step[w] + 1 \in Steps)
    BY StepsAssumption DEF TypeOK, Steps
<1>5. step' \in [Workers -> Steps]
    BY <1>4 DEF Advance
<1> QED
    BY <1>2, <1>3, <1>5

LEMMA RunStepType ==
    ASSUME TypeOK, NEW w \in Workers, RunStep(w)
    PROVE  TypeOK'
<1>0. /\ cur[w] \in Tenants /\ step[w] \in Steps
      /\ 1 \in Steps /\ LastStep \in Steps /\ step[w] \in 0 .. LastStep
    BY StepsAssumption DEF TypeOK, Steps
<1>p. \A q \in {"idle", "resume", "attempt", "execute", "announce", "complete", "hook",
                 "setFailed", "failEvent"} :
        Goto(w, q) => pc' \in [Workers -> Places]
    BY GotoType DEF Places
<1>m. \A st \in {"in_progress", "completed", "failed"} :
        MarkStep(w, st) => steps' \in [Tenants -> [Steps -> StepStatus]]
    BY MarkStepType DEF StepStatus
<1>f. Fault("db") => faults' \in 0 .. MaxFaults
    BY FaultCounts
<1>o. \A k \in {Provisioned, Failed, Hook}, s \in 0 .. LastStep :
        Insert(Event(cur[w], k, s)) => outbox' \in Seq(Events)
    BY <1>0, OutboxGrows, EventType
<1>z. 0 \in 0 .. LastStep
    BY StepsAssumption
<1>1. CASE Transition(w)
    BY <1>1, <1>0, <1>p DEF Transition, TypeOK, TenantStatus, busVars, callVars
<1>2. CASE Resume(w)
    <2> DEFINE row == Seeded(steps[cur[w]], LastStep)
    <2>1. row \in [Steps -> StepStatus]
        BY <1>0 DEF Seeded, StepStatus, TypeOK
    <2>2. ~ (\A s \in Steps : row[s] = "completed") => FirstPending(row) \in Steps
        BY <2>1, FirstPendingIsFirst
    <2>3. pc' \in [Workers -> Places]
        BY <1>2, <1>p DEF Resume
    <2>4. step' \in [Workers -> Steps]
        BY <1>2, <2>2 DEF Resume, TypeOK
    <2>5. attempt' \in [Workers -> 1 .. MaxAttempts]
        BY <1>2, StepsAssumption DEF Resume, TypeOK
    <2>6. steps' \in [Tenants -> [Steps -> StepStatus]]
        BY <1>0, <1>2, <2>1 DEF Resume, TypeOK
    <2>7. UNCHANGED <<status, stale, createdAt, done, busVars, batch, cur, callVars, faults>>
        BY <1>2 DEF Resume
    <2> QED
        BY <2>3, <2>4, <2>5, <2>6, <2>7 DEF TypeOK, busVars, callVars
<1>3. CASE MarkInProgress(w)
    BY <1>3, <1>p, <1>m, <1>f DEF MarkInProgress, TypeOK, busVars, callVars
<1>4. CASE Validate(w)
    <2>1. pc' \in [Workers -> Places] /\ attempt' \in [Workers -> 1 .. MaxAttempts]
        BY <1>4, <1>p, StepErrType DEF Validate, TypeOK
    <2>2. done \in [Tenants -> SUBSET Steps] /\ done[cur[w]] \cup {1} \in SUBSET Steps
        BY <1>0 DEF TypeOK
    <2>3. done' \in [Tenants -> SUBSET Steps]
        BY <1>4, <2>2 DEF Validate
    <2> QED
        BY <1>0, <1>4, <2>1, <2>3 DEF Validate, TypeOK, busVars, callVars
<1>5. CASE Work(w)
    BY <1>0, <1>5, <1>p DEF Work, TypeOK, busVars, callVars
<1>6. CASE Activate(w)
    <2>1. pc' \in [Workers -> Places] /\ attempt' \in [Workers -> 1 .. MaxAttempts]
        BY <1>6, <1>p, StepErrType DEF Activate, TypeOK
    <2>2. done \in [Tenants -> SUBSET Steps] /\ done[cur[w]] \cup {LastStep} \in SUBSET Steps
        BY <1>0 DEF TypeOK
    <2>3. done' \in [Tenants -> SUBSET Steps]
        BY <1>6, <2>2 DEF Activate
    <2> QED
        BY <1>0, <1>6, <2>1, <2>3 DEF Activate, TypeOK, TenantStatus, busVars, callVars
<1>7. CASE Announce(w)
    BY <1>7, <1>p, <1>o, <1>z DEF Announce, TypeOK, dbVars, callVars
<1>8. CASE Complete(w)
    <2>1. /\ pc' \in [Workers -> Places] /\ step' \in [Workers -> Steps]
          /\ attempt' \in [Workers -> 1 .. MaxAttempts]
        BY <1>8, <1>p, AdvanceType DEF Complete, TypeOK
    <2> QED
        BY <1>8, <1>m, <2>1 DEF Complete, TypeOK, busVars, callVars
<1>9. CASE PublishHook(w)
    <2>1. /\ pc' \in [Workers -> Places] /\ step' \in [Workers -> Steps]
          /\ attempt' \in [Workers -> 1 .. MaxAttempts]
        BY <1>9, AdvanceType DEF PublishHook
    <2> QED
        BY <1>0, <1>9, <1>f, <1>o, <2>1 DEF PublishHook, TypeOK, dbVars, callVars
<1>10. CASE MarkFailed(w)
    BY <1>10, <1>p, <1>m, <1>f DEF MarkFailed, TypeOK, busVars, callVars
<1>11. CASE SetFailed(w)
    BY <1>0, <1>11, <1>p, <1>f DEF SetFailed, TypeOK, TenantStatus, busVars, callVars
<1>12. CASE FailEvent(w)
    BY <1>12, <1>p, <1>f, <1>o, <1>z DEF FailEvent, TypeOK, dbVars, callVars
<1> QED
    BY <1>1, <1>2, <1>3, <1>4, <1>5, <1>6, <1>7, <1>8, <1>9, <1>10, <1>11, <1>12
    DEF RunStep

LEMMA FaultType ==
    ASSUME TypeOK,
           Crash \/ \E w \in Workers : RunFault(w)
    PROVE  TypeOK'
<1>1. CASE Crash
    <2>1. inbox' \in Seq(Tenants) /\ faults' \in 0 .. MaxFaults
        BY <1>1, EmptySeq, FaultCounts DEF Crash
    <2> QED
        BY <1>1, <2>1 DEF Crash, TypeOK, Places, dbVars
<1>2. ASSUME NEW w \in Workers, StepFails(w) \/ AnnounceFails(w)
      PROVE  TypeOK'
    <2>1. /\ pc' \in [Workers -> Places]
          /\ attempt' \in [Workers -> 1 .. MaxAttempts]
          /\ faults' \in 0 .. MaxFaults
        BY <1>2, StepErrType, FaultCounts DEF StepFails, AnnounceFails
    <2> QED
        BY <1>2, <2>1 DEF StepFails, AnnounceFails, TypeOK, dbVars, busVars, callVars
<1>3. ASSUME NEW w \in Workers, RunError(w)
      PROVE  TypeOK'
    <2>0. cur[w] \in Tenants
        BY DEF TypeOK
    <2>1. \A n \in 0 .. LastStep : Seeded(steps[cur[w]], n) \in [Steps -> StepStatus]
        BY DEF Seeded, StepStatus, TypeOK
    <2>2. steps' \in [Tenants -> [Steps -> StepStatus]]
        <3>1. steps \in [Tenants -> [Steps -> StepStatus]]
            BY DEF TypeOK
        <3>2. \/ steps' = steps
              \/ \E n \in 0 .. LastStep :
                    steps' = [steps EXCEPT ![cur[w]] = Seeded(steps[cur[w]], n)]
            BY <1>3 DEF RunError
        <3> QED
            BY <2>0, <2>1, <3>1, <3>2
    <2>3. pc' \in [Workers -> Places] /\ faults' \in 0 .. MaxFaults
        BY <1>3, GotoType, FaultCounts DEF RunError, Places
    <2> QED
        BY <1>3, <2>2, <2>3 DEF RunError, TypeOK, busVars, callVars
<1> QED
    BY <1>1, <1>2, <1>3 DEF RunFault

LEMMA NextType == TypeOK /\ [Next]_vars => TypeOK'
<1> SUFFICES ASSUME TypeOK, [Next]_vars PROVE TypeOK'
    OBVIOUS
<1>1. ASSUME NEW t \in Tenants, CreateTenant(t) PROVE TypeOK'
    <2>1. outbox' \in Seq(Events)
        BY <1>1, OutboxGrows, EventType, StepsAssumption DEF CreateTenant
    <2>2. Cardinality({u \in Tenants : status[u] # "none"}) \in Nat
        BY FS_Subset, FS_CardinalityType, TenantsAssumption
    <2> QED
        BY <1>1, <2>1, <2>2
        DEF CreateTenant, TypeOK, TenantStatus, workerVars, callVars
<1>2. ASSUME NEW t \in Tenants, GrowStale(t) PROVE TypeOK'
    BY <1>2 DEF GrowStale, TypeOK, busVars, workerVars, callVars
<1>3. CASE \E c \in Callers : RetryCall(c)
    BY <1>3, RetryType
<1>4. CASE RelayRow \/ RelayRowUnmarked
    BY <1>4, RelayType
<1>5. CASE \E w \in Workers : TakeUp(w)
    BY <1>5, TakeUpType
<1>6. CASE \E w \in Workers : RunStep(w)
    BY <1>6, RunStepType
<1>7. CASE Crash \/ \E w \in Workers : RunFault(w)
    BY <1>7, FaultType
<1>8. CASE UNCHANGED vars
    BY <1>8 DEF TypeOK, vars, dbVars, busVars, workerVars, callVars
<1> QED
    BY <1>1, <1>2, <1>3, <1>4, <1>5, <1>6, <1>7, <1>8 DEF Next

-----------------------------------------------------------------------------
(* What a step can do to each part of the invariant. *)

(* Work once done stays done.  (Only Validate, Work and Activate write it.) *)
LEMMA DoneGrows ==
    ASSUME TypeOK, [Next]_vars
    PROVE  \A t \in Tenants : done[t] \subseteq done'[t]
<1>1. ASSUME NEW w \in Workers, RunStep(w)
      PROVE  \A t \in Tenants : done[t] \subseteq done'[t]
    <2>0. ASSUME NEW S, done' = [done EXCEPT ![cur[w]] = @ \cup S]
          PROVE  \A t \in Tenants : done[t] \subseteq done'[t]
        BY <2>0 DEF TypeOK
    <2>1. CASE Validate(w)
        BY <2>0, <2>1 DEF Validate
    <2>2. CASE Work(w)
        BY <2>0, <2>2 DEF Work
    <2>3. CASE Activate(w)
        BY <2>0, <2>3 DEF Activate
    <2> QED
        BY <1>1, <2>1, <2>2, <2>3
        DEF RunStep, Transition, Resume, MarkInProgress, Announce, Complete,
            PublishHook, MarkFailed, SetFailed, FailEvent, dbVars
<1>2. CASE UNCHANGED vars
    BY <1>2 DEF vars, dbVars
<1> QED
    BY <1>1, <1>2
    DEF Next, CreateTenant, GrowStale, RetryCall, RetryAdmit, RetryReset,
        RetrySteps, RetryEvent, RetryError, RelayRow, RelayRowUnmarked,
        TakeUp, Consume, Poll, Recover, RunFault, StepFails, AnnounceFails,
        RunError, Crash, dbVars

(* Only mark_step_completed completes a step: seeding, retrying and the    *)
(* other marks never turn a row into a completed one.                      *)
LEMMA OnlyCompleteCompletes ==
    ASSUME TypeOK, [Next]_vars, NEW t \in Tenants, NEW s \in Steps,
           steps'[t][s] = "completed", steps[t][s] # "completed"
    PROVE  \E w \in Workers : Complete(w) /\ t = cur[w] /\ s = step[w]
<1> steps \in [Tenants -> [Steps -> StepStatus]] /\ steps' # steps
    BY DEF TypeOK
<1>1. ASSUME NEW w \in Workers, NEW st, st # "completed", MarkStep(w, st)
      PROVE  FALSE
    BY <1>1 DEF MarkStep, TypeOK
<1>2. ASSUME NEW w \in Workers, NEW n,
             steps' = [steps EXCEPT ![cur[w]] = Seeded(steps[cur[w]], n)]
      PROVE  FALSE
    BY <1>2 DEF Seeded, TypeOK
<1>3. ASSUME NEW c \in Callers, RetrySteps(c)
      PROVE  FALSE
    BY <1>3 DEF RetrySteps, TypeOK
<1>4. ASSUME NEW w \in Workers, RunStep(w)
      PROVE  Complete(w) /\ t = cur[w] /\ s = step[w]
    <2>1. CASE Complete(w)
        BY <2>1 DEF Complete, MarkStep, TypeOK
    <2> QED
        BY <1>1, <1>2, <1>4, <2>1
        DEF RunStep, Transition, Resume, MarkInProgress, Validate, Work, Activate,
            Announce, PublishHook, MarkFailed, SetFailed, FailEvent, dbVars
<1>5. ASSUME NEW w \in Workers, RunFault(w)
      PROVE  FALSE
    BY <1>2, <1>5 DEF RunFault, StepFails, AnnounceFails, RunError, dbVars
<1>6. CASE UNCHANGED vars
    BY <1>6 DEF vars, dbVars
<1> QED
    BY <1>3, <1>4, <1>5, <1>6
    DEF Next, CreateTenant, GrowStale, RetryCall, RetryAdmit, RetryReset,
        RetryEvent, RetryError, RelayRow, RelayRowUnmarked,
        TakeUp, Consume, Poll, Recover, Crash, dbVars

(* Only activate_tenant makes a tenant active. *)
LEMMA OnlyActivateActivates ==
    ASSUME TypeOK, [Next]_vars, NEW t \in Tenants,
           status'[t] = "active", status[t] # "active"
    PROVE  \E w \in Workers :
              /\ pc[w] = "execute" /\ step[w] = LastStep /\ t = cur[w]
              /\ done' = [done EXCEPT ![t] = @ \cup {LastStep}]
              /\ pc'[w] = "announce" /\ cur' = cur
<1> status \in [Tenants -> TenantStatus] /\ status' # status
    BY DEF TypeOK
<1>1. ASSUME NEW u, NEW to, to # "active", status' = [status EXCEPT ![u] = to]
      PROVE  FALSE
    BY <1>1
<1>2. ASSUME NEW w \in Workers, Activate(w)
      PROVE  /\ pc[w] = "execute" /\ step[w] = LastStep /\ t = cur[w]
             /\ done' = [done EXCEPT ![t] = @ \cup {LastStep}]
             /\ pc'[w] = "announce" /\ cur' = cur
    BY <1>2 DEF Activate, Goto, TypeOK
<1>3. ASSUME NEW w \in Workers, RunStep(w)
      PROVE  Activate(w)
    BY <1>1, <1>3
    DEF RunStep, Transition, Resume, MarkInProgress, Validate, Work,
        Announce, Complete, PublishHook, MarkFailed, SetFailed, FailEvent, dbVars
<1>4. CASE UNCHANGED vars
    BY <1>4 DEF vars, dbVars
<1>5. ASSUME NEW u, CreateTenant(u)
      PROVE  FALSE
    BY <1>1, <1>5 DEF CreateTenant
<1>6. ASSUME NEW c, RetryReset(c)
      PROVE  FALSE
    BY <1>1, <1>6 DEF RetryReset
<1> QED
    BY <1>2, <1>3, <1>4, <1>5, <1>6
    DEF Next, GrowStale, RetryCall, RetryAdmit,
        RetrySteps, RetryEvent, RetryError, RelayRow, RelayRowUnmarked,
        TakeUp, Consume, Poll, Recover, RunFault, StepFails, AnnounceFails,
        RunError, Crash, dbVars

-----------------------------------------------------------------------------
(* A run's knowledge of what is built survives its own steps ... *)
LEMMA RunStepBuilds ==
    ASSUME TypeOK, NoStepSkipped, NEW w \in Workers, HasBuilt(w), RunStep(w),
           \A t \in Tenants : done[t] \subseteq done'[t]
    PROVE  HasBuilt(w)'
<1> DEFINE t == cur[w]
           s == step[w]
<1>0. /\ t \in Tenants /\ s \in Steps /\ s \in Nat /\ s >= 1
      /\ done[t] \subseteq done'[t] /\ done[t] \subseteq Steps
    BY StepsAssumption DEF TypeOK, Steps
<1>1. cur' = cur
    BY DEF RunStep, Transition, Resume, MarkInProgress, Validate, Work, Activate,
           Announce, Complete, PublishHook, MarkFailed, SetFailed, FailEvent
<1>2. ASSUME NEW q, Goto(w, q) PROVE pc'[w] = q
    BY <1>2 DEF Goto, TypeOK
<1>3. ASSUME StepErr(w), UNCHANGED step, pc[w] = "execute" PROVE HasBuilt(w)'
    BY <1>0, <1>1, <1>2, <1>3 DEF StepErr, HasBuilt
<1>4. ASSUME Advance(w), 1 .. s \subseteq done'[t] PROVE HasBuilt(w)'
    <2>1. CASE s = LastStep
        BY <1>2, <1>4, <2>1 DEF Advance, HasBuilt
    <2>2. CASE s # LastStep
        <3>1. step'[w] = s + 1 /\ pc'[w] = "attempt"
            BY <1>2, <1>4, <2>2 DEF Advance, TypeOK
        <3>2. 1 .. (step'[w] - 1) \subseteq done'[cur'[w]]
            BY <1>0, <1>1, <1>4, <3>1
        <3> QED
            BY <3>1, <3>2 DEF HasBuilt
    <2> QED
        BY <2>1, <2>2
<1>5. ASSUME pc[w] = "execute", done'[t] = done[t] \cup {s}
      PROVE  1 .. s \subseteq done'[t]
    BY <1>0, <1>5 DEF HasBuilt
<1>6. CASE Resume(w)
    <2> DEFINE row == Seeded(steps[t], LastStep)
               first == FirstPending(row)
    <2>1. CASE \A r \in Steps : row[r] = "completed"
        BY <1>2, <1>6, <2>1 DEF Resume, HasBuilt
    <2>2. CASE ~ \A r \in Steps : row[r] = "completed"
        <3>1. row \in [Steps -> StepStatus]
            BY <1>0 DEF Seeded, StepStatus, TypeOK
        <3>2. first \in Steps /\ \A r \in 1 .. (first - 1) : row[r] = "completed"
            BY <2>2, <3>1, FirstPendingIsFirst
        <3>3. \A r \in 1 .. (first - 1) : r \in Steps /\ steps[t][r] = "completed"
            BY <3>2, StepsAssumption DEF Seeded, Steps
        <3>4. \A r \in 1 .. (first - 1) : r \in done[t]
            BY <1>0, <3>3 DEF NoStepSkipped
        <3>5. step'[w] = first /\ pc'[w] = "attempt"
            BY <1>2, <1>6, <2>2 DEF Resume, TypeOK
        <3> HIDE DEF first
        <3> QED
            BY <1>0, <1>1, <3>4, <3>5 DEF HasBuilt
    <2> QED
        BY <2>1, <2>2
<1>7. CASE MarkInProgress(w)
    BY <1>0, <1>1, <1>2, <1>7 DEF MarkInProgress, HasBuilt
<1>8. CASE Validate(w)
    <2>1. CASE status[t] \in {"pending", "provisioning"}
        BY <1>1, <1>2, <1>5, <1>8, <2>1 DEF Validate, HasBuilt, TypeOK
    <2> QED
        BY <1>3, <1>8, <2>1 DEF Validate
<1>9. CASE Work(w)
    BY <1>1, <1>2, <1>5, <1>9 DEF Work, HasBuilt, TypeOK
<1>10. CASE Activate(w)
    <2>1. CASE status[t] = "provisioning"
        BY <1>1, <1>2, <1>5, <1>10, <2>1 DEF Activate, HasBuilt, TypeOK
    <2> QED
        BY <1>3, <1>10, <2>1 DEF Activate
<1>11. CASE Announce(w)
    BY <1>0, <1>1, <1>2, <1>11 DEF Announce, HasBuilt
<1>12. CASE Complete(w)
    <2>1. 1 .. s \subseteq done'[t]
        BY <1>0, <1>12 DEF Complete, HasBuilt
    <2>2. CASE s \in HookSteps
        BY <1>1, <1>2, <1>12, <2>1, <2>2 DEF Complete, HasBuilt
    <2> QED
        BY <1>4, <1>12, <2>1, <2>2 DEF Complete
<1>13. CASE PublishHook(w)
    BY <1>0, <1>4, <1>13 DEF PublishHook, HasBuilt
<1>14. CASE Transition(w) \/ MarkFailed(w) \/ SetFailed(w) \/ FailEvent(w)
    BY <1>2, <1>14 DEF Transition, MarkFailed, SetFailed, FailEvent, HasBuilt
<1> QED
    BY <1>6, <1>7, <1>8, <1>9, <1>10, <1>11, <1>12, <1>13, <1>14 DEF RunStep

(* ... and everybody else's. *)
LEMMA RunStaysBuilt ==
    ASSUME TypeOK, NoStepSkipped, RunHasBuilt, [Next]_vars
    PROVE  RunHasBuilt'
<1>0. \A t \in Tenants : done[t] \subseteq done'[t]
    BY DoneGrows
<1> SUFFICES ASSUME NEW w \in Workers PROVE HasBuilt(w)'
    BY DEF RunHasBuilt
<1>1. HasBuilt(w)
    BY DEF RunHasBuilt
<1>2. ASSUME pc'[w] = pc[w], step'[w] = step[w], cur'[w] = cur[w]
      PROVE  HasBuilt(w)'
    BY <1>0, <1>1, <1>2 DEF HasBuilt, TypeOK
<1>3. ASSUME pc'[w] \in {"idle", "transition", "resume", "markFailed"}
      PROVE  HasBuilt(w)'
    BY <1>3 DEF HasBuilt
<1>4. ASSUME NEW v \in Workers, RunStep(v) PROVE HasBuilt(w)'
    <2>1. CASE v = w
        BY <1>0, <1>1, <1>4, <2>1, RunStepBuilds
    <2>2. CASE v # w
        BY <1>2, <1>4, <2>2
        DEF RunStep, Transition, Resume, MarkInProgress, Validate, Work, Activate,
            Announce, Complete, PublishHook, MarkFailed, SetFailed, FailEvent,
            Goto, StepErr, Advance, TypeOK
    <2> QED
        BY <2>1, <2>2
<1>5. ASSUME NEW v \in Workers, TakeUp(v) PROVE HasBuilt(w)'
    BY <1>2, <1>3, <1>5 DEF TakeUp, Consume, Poll, Recover, Begin, TypeOK
<1>6. ASSUME NEW v \in Workers, RunFault(v) PROVE HasBuilt(w)'
    <2>1. ASSUME StepErr(v), UNCHANGED <<cur, step, done>>, pc[v] \in {"execute", "announce"}
          PROVE  HasBuilt(w)'
        BY <1>1, <1>2, <2>1, StepsAssumption
        DEF StepErr, AttemptsOf, Goto, HasBuilt, TypeOK, Steps
    <2> QED
        BY <1>2, <1>3, <1>6, <2>1
        DEF RunFault, StepFails, AnnounceFails, RunError, Goto, dbVars, TypeOK
<1>7. CASE Crash
    BY <1>3, <1>7 DEF Crash
<1>8. CASE UNCHANGED vars
    BY <1>2, <1>8 DEF vars, workerVars
<1> QED
    BY <1>2, <1>4, <1>5, <1>6, <1>7, <1>8
    DEF Next, CreateTenant, GrowStale, RetryCall, RetryAdmit, RetryReset,
        RetrySteps, RetryEvent, RetryError, RelayRow, RelayRowUnmarked, workerVars

(* An event stays justified, because work is never undone. *)
LEMMA JustifiedStays ==
    ASSUME TypeOK, TypeOK', [Next]_vars, NEW e \in Events, Justified(e, done)
    PROVE  Justified(e, done')
<1>1. e.tenant \in Tenants
    BY DEF Events
<1>2. done[e.tenant] \subseteq done'[e.tenant] /\ done'[e.tenant] \subseteq Steps
    BY <1>1, DoneGrows DEF TypeOK
<1> QED
    BY <1>2 DEF Justified

(* Whatever a step adds to the outbox is justified when it is added, and   *)
(* only the relay publishes, the oldest row.                               *)
LEMMA NewEventJustified ==
    ASSUME TypeOK, RunHasBuilt, NEW w \in Workers,
           Announce(w) \/ PublishHook(w) \/ FailEvent(w),
           outbox' # outbox
    PROVE  \E e \in Events : Insert(e) /\ Justified(e, done)
<1>0. /\ cur[w] \in Tenants /\ step[w] \in Steps /\ done[cur[w]] \subseteq Steps
      /\ 0 \in 0 .. LastStep /\ step[w] \in 0 .. LastStep
    BY StepsAssumption DEF TypeOK, Steps
<1>1. CASE Announce(w)
    <2>1. 1 .. LastStep \subseteq done[cur[w]]
        BY <1>1 DEF Announce, RunHasBuilt, HasBuilt
    <2>2. Justified(Event(cur[w], Provisioned, 0), done)
        BY <1>0, <2>1 DEF Justified, Event, Steps, Hook, Provisioned
    <2> QED
        BY <1>0, <1>1, <2>2, EventType DEF Announce
<1>2. CASE PublishHook(w)
    <2>1. Justified(Event(cur[w], Hook, step[w]), done)
        BY <1>2 DEF PublishHook, RunHasBuilt, HasBuilt, Justified, Event, Hook, Provisioned
    <2> QED
        BY <1>0, <1>2, <2>1, EventType DEF PublishHook
<1>3. CASE FailEvent(w)
    <2>1. Justified(Event(cur[w], Failed, 0), done)
        BY DEF Justified, Event, Hook, Provisioned, Failed
    <2> QED
        BY <1>0, <1>3, <2>1, EventType DEF FailEvent
<1> QED
    BY <1>1, <1>2, <1>3

LEMMA StartedJustified ==
    ASSUME NEW t \in Tenants
    PROVE  Event(t, Started, 0) \in Events /\ Justified(Event(t, Started, 0), done)
<1>1. Event(t, Started, 0) \in Events
    BY EventType, StepsAssumption
<1> QED
    BY <1>1 DEF Justified, Event, Hook, Provisioned, Started

LEMMA OutboxChanges ==
    ASSUME TypeOK, RunHasBuilt, [Next]_vars
    PROVE  \/ outbox' = outbox /\ announced' = announced
           \/ \E e \in Events : Insert(e) /\ Justified(e, done) /\ announced' = announced
           \/ /\ outbox # <<>> /\ outbox' \in {outbox, Tail(outbox)}
              /\ announced' = announced \cup {Head(outbox)}
<1>1. ASSUME NEW t \in Tenants, CreateTenant(t)
      PROVE  \E e \in Events : Insert(e) /\ Justified(e, done) /\ announced' = announced
    BY <1>1, StartedJustified DEF CreateTenant
<1>2. ASSUME NEW c \in Callers, RetryEvent(c)
      PROVE  \E e \in Events : Insert(e) /\ Justified(e, done) /\ announced' = announced
    BY <1>2, StartedJustified DEF RetryEvent, TypeOK
<1>3. ASSUME NEW w \in Workers, Announce(w) \/ PublishHook(w) \/ FailEvent(w)
      PROVE  \/ outbox' = outbox /\ announced' = announced
             \/ \E e \in Events : Insert(e) /\ Justified(e, done) /\ announced' = announced
    BY <1>3, NewEventJustified DEF Announce, PublishHook, FailEvent
<1>4. ASSUME NEW w \in Workers, RunStep(w),
             ~ (Announce(w) \/ PublishHook(w) \/ FailEvent(w))
      PROVE  outbox' = outbox /\ announced' = announced
    BY <1>4
    DEF RunStep, Transition, Resume, MarkInProgress, Validate, Work, Activate,
        Complete, MarkFailed, SetFailed, busVars
<1>5. CASE RelayRow \/ RelayRowUnmarked
    BY <1>5 DEF RelayRow, RelayRowUnmarked
<1>6. CASE UNCHANGED vars
    BY <1>6 DEF vars, busVars
<1> QED
    BY <1>1, <1>2, <1>3, <1>4, <1>5, <1>6
    DEF Next, GrowStale, RetryCall, RetryAdmit, RetryReset, RetrySteps, RetryError,
        TakeUp, Consume, Poll, Recover, RunFault, StepFails, AnnounceFails,
        RunError, Crash, busVars

LEMMA EventsStayTruthful ==
    ASSUME TypeOK, TypeOK', RunHasBuilt, EventsTellTheTruth, [Next]_vars
    PROVE  EventsTellTheTruth'
<1>1. \A e \in Events : Justified(e, done) => Justified(e, done')
    BY JustifiedStays
<1>2. /\ \A i \in 1 .. Len(outbox) : outbox[i] \in Events /\ Justified(outbox[i], done')
      /\ \A e \in announced : e \in Events /\ Justified(e, done')
    <2>1. \A i \in 1 .. Len(outbox) : outbox[i] \in Events
        BY ElementOfSeq DEF TypeOK
    <2>2. \A e \in announced : e \in Events
        BY DEF TypeOK
    <2> QED
        BY <1>1, <2>1, <2>2 DEF EventsTellTheTruth
<1>3. CASE outbox' = outbox /\ announced' = announced
    BY <1>2, <1>3 DEF EventsTellTheTruth
<1>4. ASSUME NEW e \in Events, Insert(e), Justified(e, done), announced' = announced
      PROVE  EventsTellTheTruth'
    <2>1. \A i \in 1 .. Len(outbox') :
             outbox'[i] = e \/ (i \in 1 .. Len(outbox) /\ outbox'[i] = outbox[i])
        BY <1>4, OutboxGrows
    <2>2. Justified(e, done')
        BY <1>1, <1>4
    <2>3. ASSUME NEW i \in 1 .. Len(outbox')
          PROVE  Justified(outbox'[i], done')
        <3>1. CASE outbox'[i] = e
            BY <2>2, <3>1
        <3>2. CASE i \in 1 .. Len(outbox) /\ outbox'[i] = outbox[i]
            BY <1>2, <3>2
        <3> QED
            BY <2>1, <3>1, <3>2
    <2> QED
        BY <1>2, <1>4, <2>3 DEF EventsTellTheTruth
<1>5. CASE /\ outbox # <<>> /\ outbox' \in {outbox, Tail(outbox)}
           /\ announced' = announced \cup {Head(outbox)}
    <2>1. /\ Len(outbox) \in Nat /\ Len(outbox) >= 1 /\ Head(outbox) = outbox[1]
          /\ Len(Tail(outbox)) = Len(outbox) - 1
          /\ \A i \in 1 .. Len(Tail(outbox)) : Tail(outbox)[i] = outbox[i + 1]
        BY <1>5, HeadTailProperties DEF TypeOK
    <2>2. Justified(Head(outbox), done')
        BY <1>2, <2>1
    <2>3. \A i \in 1 .. Len(Tail(outbox)) : Justified(Tail(outbox)[i], done')
        <3> SUFFICES ASSUME NEW i \in 1 .. Len(Tail(outbox))
                     PROVE  Justified(Tail(outbox)[i], done')
            OBVIOUS
        <3>1. i + 1 \in 1 .. Len(outbox) /\ Tail(outbox)[i] = outbox[i + 1]
            BY <2>1
        <3> QED
            BY <1>2, <3>1
    <2>4. \A i \in 1 .. Len(outbox') : Justified(outbox'[i], done')
        BY <1>2, <1>5, <2>3
    <2> QED
        BY <1>2, <1>5, <2>2, <2>4 DEF EventsTellTheTruth
<1> QED
    BY <1>3, <1>4, <1>5, OutboxChanges

-----------------------------------------------------------------------------
(* The invariant is inductive. *)

LEMMA BuiltInvInit == Init => BuiltInv
<1> SUFFICES ASSUME Init PROVE BuiltInv
    OBVIOUS
<1>1. TypeOK
    BY InitType
<1>2. NoStepSkipped /\ ActiveOnlyWhenBuilt /\ RunHasBuilt
    BY DEF Init, NoStepSkipped, ActiveOnlyWhenBuilt, RunHasBuilt, HasBuilt
<1>3. EventsTellTheTruth
    BY EmptySeq DEF Init, EventsTellTheTruth
<1> QED
    BY <1>1, <1>2, <1>3 DEF BuiltInv

LEMMA BuiltInvNext == BuiltInv /\ [Next]_vars => BuiltInv'
<1> SUFFICES ASSUME BuiltInv, [Next]_vars PROVE BuiltInv'
    OBVIOUS
<1> USE DEF BuiltInv
<1>1. TypeOK'
    BY NextType
<1>2. \A t \in Tenants : done[t] \subseteq done'[t]
    BY DoneGrows
<1>3. NoStepSkipped'
    <2> SUFFICES ASSUME NEW t \in Tenants, NEW s \in Steps, steps'[t][s] = "completed"
                 PROVE  1 .. s \subseteq done'[t]
        BY DEF NoStepSkipped
    <2>1. CASE steps[t][s] = "completed"
        BY <1>2, <2>1 DEF NoStepSkipped
    <2>2. CASE steps[t][s] # "completed"
        <3>1. PICK w \in Workers : Complete(w) /\ t = cur[w] /\ s = step[w]
            BY <2>2, OnlyCompleteCompletes
        <3> QED
            BY <1>2, <3>1 DEF Complete, RunHasBuilt, HasBuilt
    <2> QED
        BY <2>1, <2>2
<1>4. RunHasBuilt'
    BY RunStaysBuilt
<1>5. ActiveOnlyWhenBuilt'
    <2> SUFFICES ASSUME NEW t \in Tenants, status'[t] = "active"
                 PROVE  done'[t] = Steps
        BY DEF ActiveOnlyWhenBuilt
    <2>0. done'[t] \subseteq Steps
        BY <1>1 DEF TypeOK
    <2>1. CASE status[t] = "active"
        BY <1>2, <2>0, <2>1 DEF ActiveOnlyWhenBuilt
    <2>2. CASE status[t] # "active"
        <3>1. PICK w \in Workers :
                /\ pc[w] = "execute" /\ step[w] = LastStep /\ t = cur[w]
                /\ done' = [done EXCEPT ![t] = @ \cup {LastStep}]
            BY <2>2, OnlyActivateActivates
        <3>2. 1 .. (LastStep - 1) \subseteq done[t]
            BY <3>1 DEF RunHasBuilt, HasBuilt
        <3>3. done'[t] = done[t] \cup {LastStep}
            BY <3>1 DEF TypeOK
        <3> QED
            BY <2>0, <3>2, <3>3, StepsAssumption DEF Steps
    <2> QED
        BY <2>1, <2>2
<1>6. EventsTellTheTruth'
    BY <1>1, EventsStayTruthful
<1> QED
    BY <1>1, <1>3, <1>4, <1>5, <1>6

-----------------------------------------------------------------------------
(* Every value of every variable is of its kind, in every reachable state. *)
THEOREM TypeCorrect == Spec => []TypeOK
<1>1. Init => TypeOK
    BY InitType
<1>2. TypeOK /\ [Next]_vars => TypeOK'
    BY NextType
<1> QED
    BY <1>1, <1>2, PTL DEF Spec

THEOREM BuiltInvariant == Spec => []BuiltInv
<1> QED
    BY BuiltInvInit, BuiltInvNext, PTL DEF Spec

(* Resume-from-last never jumps over work that was not carried out.        *)
THEOREM NothingSkipped == Spec => []NoStepSkipped
<1>1. BuiltInv => NoStepSkipped
    BY DEF BuiltInv
<1> QED
    BY <1>1, BuiltInvariant, PTL

(* A tenant the registry calls active has had every step carried out.      *)
THEOREM ActiveMeansBuilt == Spec => []ActiveOnlyWhenBuilt
<1>1. BuiltInv => ActiveOnlyWhenBuilt
    BY DEF BuiltInv
<1> QED
    BY <1>1, BuiltInvariant, PTL

(* Hooks and tenant.provisioned, queued or published, claim what is true.  *)
THEOREM EventsAreTrue == Spec => []EventsTellTheTruth
<1>1. BuiltInv => EventsTellTheTruth
    BY DEF BuiltInv
<1> QED
    BY <1>1, BuiltInvariant, PTL

-----------------------------------------------------------------------------
(* The properties of SerialSpec: no two workers on the same tenant.        *)

(* Exactly the first n steps of t are recorded as completed. *)
Recorded(t, n) == \A s \in Steps : steps[t][s] = "completed" <=> s <= n

(* What a worker's place says of its tenant's step rows. *)
KnowsRecord(w) ==
    /\ pc[w] \in {"attempt", "execute", "announce", "complete", "markFailed"} =>
           Recorded(cur[w], step[w] - 1)
    /\ pc[w] = "hook" => Recorded(cur[w], step[w])

(* The completed steps are always the first ones, and a worker knows which. *)
RecordInv ==
    /\ TypeOK
    /\ OneWorkerPerTenant
    /\ \A t \in Tenants : \E n \in 0 .. LastStep : Recorded(t, n)
    /\ \A w \in Workers : KnowsRecord(w)

(* A worker's place changes by its own action or by a crash. *)
LEMMA OwnMove ==
    ASSUME TypeOK, [Next]_vars, NEW w \in Workers
    PROVE  \/ pc'[w] = pc[w] /\ cur'[w] = cur[w] /\ step'[w] = step[w]
           \/ pc'[w] = "idle"
           \/ TakeUp(w) \/ RunStep(w) \/ RunFault(w)
<1>1. ASSUME NEW v \in Workers, v # w, TakeUp(v) \/ RunStep(v) \/ RunFault(v)
      PROVE  pc'[w] = pc[w] /\ cur'[w] = cur[w] /\ step'[w] = step[w]
    <2>1. CASE TakeUp(v)
        BY <1>1, <2>1 DEF TakeUp, Consume, Poll, Recover, Begin, TypeOK
    <2>2. CASE RunStep(v)
        BY <1>1, <2>2
        DEF RunStep, Transition, Resume, MarkInProgress, Validate, Work, Activate,
            Announce, Complete, PublishHook, MarkFailed, SetFailed, FailEvent,
            Goto, StepErr, Advance, TypeOK
    <2>3. CASE RunFault(v)
        BY <1>1, <2>3
        DEF RunFault, StepFails, AnnounceFails, RunError, Goto, StepErr, TypeOK
    <2> QED
        BY <1>1, <2>1, <2>2, <2>3
<1>2. CASE Crash
    BY <1>2 DEF Crash
<1>3. CASE UNCHANGED workerVars
    BY <1>3 DEF workerVars
<1> QED
    BY <1>1, <1>2, <1>3
    DEF Next, CreateTenant, GrowStale, RetryCall, RetryAdmit, RetryReset,
        RetrySteps, RetryEvent, RetryError, RelayRow, RelayRowUnmarked, vars

(* A worker that is taking up a tenant or resuming has made no claim yet.  *)
LEMMA TakeUpPlace ==
    ASSUME TypeOK, NEW w \in Workers, TakeUp(w)
    PROVE  pc'[w] \in {"idle", "transition", "resume"}
BY DEF TakeUp, Consume, Poll, Recover, Begin, TypeOK

(* A completed step stays completed: a row is overwritten with another     *)
(* status only by a worker that knows the step not to be completed.        *)
LEMMA RecordKept ==
    ASSUME TypeOK, \A w \in Workers : KnowsRecord(w), [Next]_vars,
           NEW t \in Tenants, NEW s \in Steps, steps[t][s] = "completed"
    PROVE  steps'[t][s] = "completed"
<1>0. steps \in [Tenants -> [Steps -> StepStatus]]
    BY DEF TypeOK
<1>1. ASSUME NEW w \in Workers, NEW st, MarkStep(w, st),
             pc[w] \in {"attempt", "markFailed"}
      PROVE  steps'[t][s] = "completed"
    <2>1. cur[w] \in Tenants /\ step[w] \in Steps
        BY DEF TypeOK
    <2>2. Recorded(cur[w], step[w] - 1)
        BY <1>1 DEF KnowsRecord
    <2>3. steps[cur[w]][step[w]] # "completed"
        BY <2>1, <2>2 DEF Recorded, Steps
    <2> QED
        BY <1>0, <1>1, <2>1, <2>3 DEF MarkStep
<1>2. ASSUME NEW w \in Workers, MarkStep(w, "completed")
      PROVE  steps'[t][s] = "completed"
    BY <1>0, <1>2 DEF MarkStep, TypeOK
<1>3. ASSUME NEW w \in Workers, NEW n,
             steps' = [steps EXCEPT ![cur[w]] = Seeded(steps[cur[w]], n)]
      PROVE  steps'[t][s] = "completed"
    BY <1>0, <1>3 DEF Seeded, TypeOK
<1>4. ASSUME NEW c \in Callers, RetrySteps(c)
      PROVE  steps'[t][s] = "completed"
    BY <1>0, <1>4 DEF RetrySteps, TypeOK
<1>5. CASE UNCHANGED steps
    BY <1>5
<1>6. ASSUME NEW w \in Workers, RunStep(w)
      PROVE  steps'[t][s] = "completed"
    BY <1>1, <1>2, <1>3, <1>5, <1>6
    DEF RunStep, Transition, Resume, MarkInProgress, Validate, Work, Activate,
        Announce, Complete, PublishHook, MarkFailed, SetFailed, FailEvent, dbVars
<1>7. ASSUME NEW w \in Workers, RunFault(w)
      PROVE  steps'[t][s] = "completed"
    BY <1>3, <1>5, <1>7 DEF RunFault, StepFails, AnnounceFails, RunError, dbVars
<1> QED
    BY <1>4, <1>5, <1>6, <1>7
    DEF Next, CreateTenant, GrowStale, RetryCall, RetryAdmit, RetryReset,
        RetryEvent, RetryError, RelayRow, RelayRowUnmarked,
        TakeUp, Consume, Poll, Recover, Crash, dbVars, vars

(* Only completing a step changes which ones are completed, by one.        *)
LEMMA RecordUnchanged ==
    ASSUME TypeOK, \A w \in Workers : KnowsRecord(w), [Next]_vars,
           NEW t \in Tenants, ~ \E w \in Workers : Complete(w) /\ t = cur[w]
    PROVE  \A s \in Steps : steps'[t][s] = "completed" <=> steps[t][s] = "completed"
BY OnlyCompleteCompletes, RecordKept

LEMMA RecordAdvances ==
    ASSUME TypeOK, NEW w \in Workers, KnowsRecord(w), Complete(w)
    PROVE  \A s \in Steps : steps'[cur[w]][s] = "completed" <=> s <= step[w]
<1>1. /\ cur[w] \in Tenants /\ step[w] \in Steps
      /\ steps \in [Tenants -> [Steps -> StepStatus]]
    BY DEF TypeOK
<1>2. Recorded(cur[w], step[w] - 1)
    BY DEF Complete, KnowsRecord
<1>3. \A s \in Steps : steps'[cur[w]][s] = IF s = step[w] THEN "completed"
                                             ELSE steps[cur[w]][s]
    BY <1>1 DEF Complete, MarkStep
<1>4. \A s \in Steps : steps[cur[w]][s] = "completed" <=> s <= step[w] - 1
    BY <1>2 DEF Recorded
<1>5. \A s \in Steps : s <= step[w] <=> s = step[w] \/ s <= step[w] - 1
    BY <1>1, StepsAssumption DEF Steps
<1> QED
    BY <1>3, <1>4, <1>5

(* A run's own step carries its knowledge along. *)
LEMMA RunStepKnows ==
    ASSUME TypeOK, \A v \in Workers : KnowsRecord(v), [Next]_vars,
           \A t \in Tenants : \E n \in 0 .. LastStep : Recorded(t, n),
           NEW w \in Workers, RunStep(w),
           \A v \in Workers : Complete(v) /\ cur[v] = cur[w] => v = w
    PROVE  KnowsRecord(w)'
<1> DEFINE t == cur[w]
           s == step[w]
<1>0. t \in Tenants /\ s \in Steps /\ s \in Nat /\ s >= 1
    BY StepsAssumption DEF TypeOK, Steps
<1>1. cur' = cur
    BY DEF RunStep, Transition, Resume, MarkInProgress, Validate, Work, Activate,
           Announce, Complete, PublishHook, MarkFailed, SetFailed, FailEvent
<1>2. ASSUME NEW q, Goto(w, q) PROVE pc'[w] = q
    BY <1>2 DEF Goto, TypeOK
<1>3. CASE Complete(w)
    <2>1. \A r \in Steps : steps'[t][r] = "completed" <=> r <= s
        BY <1>3, RecordAdvances
    <2>2. CASE s \in HookSteps
        <3>1. pc'[w] = "hook" /\ step'[w] = s
            BY <1>2, <1>3, <2>2 DEF Complete
        <3> QED
            BY <1>1, <2>1, <3>1 DEF KnowsRecord, Recorded
    <2>3. CASE s \notin HookSteps /\ s = LastStep
        BY <1>2, <1>3, <2>3 DEF Complete, Advance, KnowsRecord
    <2>4. CASE s \notin HookSteps /\ s # LastStep
        <3>1. pc'[w] = "attempt" /\ step'[w] = s + 1
            BY <1>2, <1>3, <2>4 DEF Complete, Advance, TypeOK
        <3>2. step'[w] - 1 = s
            BY <1>0, <3>1
        <3> QED
            BY <1>1, <2>1, <3>1, <3>2 DEF KnowsRecord, Recorded
    <2> QED
        BY <2>2, <2>3, <2>4
<1>4. CASE ~ Complete(w)
    <2>0. \A r \in Steps : steps'[t][r] = "completed" <=> steps[t][r] = "completed"
        BY <1>0, <1>4, RecordUnchanged
    <2>1. ASSUME step'[w] = s, pc[w] \in {"attempt", "execute", "announce", "complete"},
                 pc'[w] \in {"attempt", "execute", "announce", "complete", "markFailed"}
          PROVE  KnowsRecord(w)'
        <3>1. Recorded(t, s - 1)
            BY <2>1 DEF KnowsRecord
        <3> QED
            BY <1>1, <2>0, <2>1, <3>1 DEF KnowsRecord, Recorded
    <2>2. ASSUME StepErr(w) PROVE pc'[w] \in {"attempt", "markFailed"}
        BY <1>2, <2>2 DEF StepErr
    <2>3. CASE MarkInProgress(w) \/ Validate(w) \/ Work(w) \/ Activate(w) \/ Announce(w)
        BY <1>2, <2>1, <2>2, <2>3
        DEF MarkInProgress, Validate, Work, Activate, Announce
    <2>4. CASE Resume(w)
        <3> DEFINE row == Seeded(steps[t], LastStep)
                   first == FirstPending(row)
        <3>1. CASE \A r \in Steps : row[r] = "completed"
            BY <1>2, <2>4, <3>1 DEF Resume, KnowsRecord
        <3>2. CASE ~ \A r \in Steps : row[r] = "completed"
            <4>1. row \in [Steps -> StepStatus]
                BY <1>0 DEF Seeded, StepStatus, TypeOK
            <4>2. \A r \in Steps : row[r] = "completed" <=> steps[t][r] = "completed"
                BY <1>0 DEF Seeded
            <4>3. PICK n \in 0 .. LastStep : Recorded(t, n)
                BY <1>0
            <4>4. /\ first \in Steps /\ row[first] # "completed"
                  /\ \A r \in 1 .. (first - 1) : row[r] = "completed"
                BY <3>2, <4>1, FirstPendingIsFirst
            <4>6. pc'[w] = "attempt" /\ step'[w] = first
                BY <1>2, <2>4, <3>2 DEF Resume, TypeOK
            <4>7. \A r \in Steps : r <= first - 1 => row[r] = "completed"
                BY <4>4 DEF Steps
            <4>8. first > n
                BY <4>2, <4>3, <4>4 DEF Recorded, Steps
            <4>9. \A r \in Steps : steps[t][r] = "completed" <=> r <= first - 1
                BY <4>2, <4>3, <4>4, <4>7, <4>8 DEF Recorded, Steps
            <4> HIDE DEF first, row
            <4> QED
                BY <1>1, <2>0, <4>6, <4>9 DEF KnowsRecord, Recorded
        <3> QED
            BY <3>1, <3>2
    <2>5. CASE PublishHook(w)
        <3>1. Recorded(t, s)
            BY <2>5 DEF PublishHook, KnowsRecord
        <3>2. CASE s = LastStep
            BY <1>2, <2>5, <3>2 DEF PublishHook, Advance, KnowsRecord
        <3>3. CASE s # LastStep
            <4>1. pc'[w] = "attempt" /\ step'[w] = s + 1
                BY <1>2, <2>5, <3>3 DEF PublishHook, Advance, TypeOK
            <4>2. step'[w] - 1 = s
                BY <1>0, <4>1
            <4> QED
                BY <1>1, <2>0, <3>1, <4>1, <4>2 DEF KnowsRecord, Recorded
        <3> QED
            BY <3>2, <3>3
    <2>6. CASE Transition(w) \/ MarkFailed(w) \/ SetFailed(w) \/ FailEvent(w)
        BY <1>2, <2>6 DEF Transition, MarkFailed, SetFailed, FailEvent, KnowsRecord
    <2> QED
        BY <1>4, <2>3, <2>4, <2>5, <2>6 DEF RunStep
<1> QED
    BY <1>3, <1>4

LEMMA RecordInvInit == Init => RecordInv
<1> SUFFICES ASSUME Init PROVE RecordInv
    OBVIOUS
<1>1. TypeOK
    BY InitType
<1>2. \A t \in Tenants : Recorded(t, 0)
    BY StepsAssumption DEF Init, Recorded, Steps
<1>3. 0 \in 0 .. LastStep
    BY StepsAssumption
<1> QED
    BY <1>1, <1>2, <1>3 DEF Init, RecordInv, OneWorkerPerTenant, KnowsRecord

LEMMA RecordInvNext == RecordInv /\ [Serially(Next)]_vars => RecordInv'
<1> SUFFICES ASSUME RecordInv, [Serially(Next)]_vars PROVE RecordInv'
    OBVIOUS
<1> USE DEF RecordInv
<1>0. [Next]_vars
    BY DEF Serially
<1>1. TypeOK'
    BY <1>0, NextType
<1>2. OneWorkerPerTenant'
    <2>1. CASE UNCHANGED vars
        BY <2>1 DEF vars, workerVars, OneWorkerPerTenant
    <2> QED
        BY <2>1 DEF Serially
<1>3. \A t \in Tenants : \E n \in 0 .. LastStep : Recorded(t, n)'
    <2> SUFFICES ASSUME NEW t \in Tenants
                 PROVE  \E n \in 0 .. LastStep : Recorded(t, n)'
        OBVIOUS
    <2>1. ASSUME NEW w \in Workers, Complete(w), t = cur[w]
          PROVE  \E n \in 0 .. LastStep : Recorded(t, n)'
        <3>1. step[w] \in 0 .. LastStep
            BY StepsAssumption DEF TypeOK, Steps
        <3>2. \A s \in Steps : steps'[t][s] = "completed" <=> s <= step[w]
            BY <2>1, RecordAdvances
        <3> QED
            BY <3>1, <3>2 DEF Recorded
    <2>2. CASE ~ \E w \in Workers : Complete(w) /\ t = cur[w]
        <3>1. \A s \in Steps : steps'[t][s] = "completed" <=> steps[t][s] = "completed"
            BY <1>0, <2>2, RecordUnchanged
        <3> QED
            BY <3>1 DEF Recorded
    <2> QED
        BY <2>1, <2>2
<1>4. ASSUME NEW w \in Workers PROVE KnowsRecord(w)'
    <2>0. pc[w] # "idle" => \A v \in Workers : Complete(v) /\ cur[v] = cur[w] => v = w
        BY DEF OneWorkerPerTenant, Complete
    <2>1. CASE pc'[w] \in {"idle", "transition", "resume"}
        BY <2>1 DEF KnowsRecord
    <2>2. CASE pc[w] # "idle" /\ pc'[w] = pc[w] /\ cur'[w] = cur[w] /\ step'[w] = step[w]
               /\ ~ Complete(w)
        <3>1. cur[w] \in Tenants
            BY DEF TypeOK
        <3>2. \A s \in Steps :
                 steps'[cur[w]][s] = "completed" <=> steps[cur[w]][s] = "completed"
            BY <1>0, <2>0, <2>2, <3>1, RecordUnchanged
        <3> QED
            BY <2>2, <3>2 DEF KnowsRecord, Recorded
    <2>3. CASE RunStep(w)
        <3>1. pc[w] # "idle"
            BY <2>3
            DEF RunStep, Transition, Resume, MarkInProgress, Validate, Work, Activate,
                Announce, Complete, PublishHook, MarkFailed, SetFailed, FailEvent
        <3> QED
            BY <1>0, <2>0, <2>3, <3>1, RunStepKnows
    <2>4. CASE RunFault(w)
        <3>1. \/ /\ UNCHANGED <<cur, step, steps>> /\ StepErr(w)
                 /\ pc[w] \in {"execute", "announce"}
              \/ pc'[w] = "idle"
            BY <2>4 DEF RunFault, StepFails, AnnounceFails, RunError, Goto, dbVars, TypeOK
        <3>2. StepErr(w) => pc'[w] \in {"attempt", "markFailed"}
            BY DEF StepErr, Goto, TypeOK
        <3> QED
            BY <2>1, <3>1, <3>2 DEF KnowsRecord, Recorded
    <2>5. CASE Complete(w)
        BY <2>3, <2>5 DEF RunStep
    <2> QED
        BY <1>0, <2>1, <2>2, <2>3, <2>4, <2>5, OwnMove, TakeUpPlace
<1> QED
    BY <1>1, <1>2, <1>3, <1>4

(* A completed step is never reopened, by a resumed run, a failing one or  *)
(* the retry endpoint, as long as no two workers are on one tenant.        *)
THEOREM StepsKept == SerialSpec => CompletedStepsKept
<1>1. RecordInv /\ [Serially(Next)]_vars =>
        [\A t \in Tenants : \A s \in Steps :
            steps[t][s] = "completed" => steps'[t][s] = "completed"]_vars
    <2> SUFFICES ASSUME RecordInv, [Serially(Next)]_vars,
                        NEW t \in Tenants, NEW s \in Steps, steps[t][s] = "completed"
                 PROVE  steps'[t][s] = "completed"
        OBVIOUS
    <2> QED
        BY RecordKept DEF RecordInv, Serially
<1> QED
    BY <1>1, RecordInvInit, RecordInvNext, PTL DEF SerialSpec, CompletedStepsKept

-----------------------------------------------------------------------------
(* The registry's lifecycle, whatever overlaps: nothing is assumed of the  *)
(* workers, the retry calls or the faults.                                 *)

(* What a worker's place says of its tenant's status. *)
KnowsStatus(w) ==
    /\ pc[w] = "transition" => status[cur[w]] = "pending"
    /\ pc[w] \in {"resume", "attempt", "execute", "hook", "markFailed", "setFailed"} =>
           status[cur[w]] = "provisioning"
    /\ pc[w] = "announce" => step[w] = LastStep /\ status[cur[w]] = "active"
    /\ pc[w] = "complete" =>
           status[cur[w]] = IF step[w] = LastStep THEN "active" ELSE "provisioning"
    /\ pc[w] = "hook" => step[w] \in HookSteps

(* Nobody moves a failed tenant between the retry call's read and its write. *)
KnowsFailed(c) == callPc[c] = "reset" => status[callFor[c]] = "failed"

(* Who has an uncrossed tenant in hand is alone and knows its status. *)
CrossedInv ==
    /\ TypeOK
    /\ \A t \in Tenants : Contended(t) => t \in crossed
    /\ \A w \in Workers : cur[w] \in crossed \/ KnowsStatus(w)
    /\ \A c \in Callers : callFor[c] \in crossed \/ KnowsFailed(c)

(* Five actions write a tenant's status. *)
LEMMA StatusWrites ==
    ASSUME TypeOK, [Next]_vars, NEW t \in Tenants, status'[t] # status[t]
    PROVE  \/ status[t] = "none" /\ status'[t] = "pending"
           \/ \E c \in Callers :
                 RetryReset(c) /\ Resetting(c, t) /\ status'[t] = "pending"
           \/ \E w \in Workers :
                 /\ RunStep(w) /\ AtWork(w, t)
                 /\ \/ pc[w] = "transition" /\ status'[t] = "provisioning"
                    \/ pc[w] = "execute" /\ status'[t] = "active"
                    \/ pc[w] = "setFailed" /\ status'[t] = "failed"
<1>0. status \in [Tenants -> TenantStatus]
    BY DEF TypeOK
<1>1. ASSUME NEW w \in Workers, RunStep(w)
      PROVE  /\ AtWork(w, t)
             /\ \/ pc[w] = "transition" /\ status'[t] = "provisioning"
                \/ pc[w] = "execute" /\ status'[t] = "active"
                \/ pc[w] = "setFailed" /\ status'[t] = "failed"
    <2>1. CASE Transition(w)
        BY <1>0, <2>1 DEF Transition, AtWork
    <2>2. CASE Activate(w)
        BY <1>0, <2>2 DEF Activate, AtWork
    <2>3. CASE SetFailed(w)
        BY <1>0, <2>3 DEF SetFailed, AtWork
    <2> QED
        BY <1>1, <2>1, <2>2, <2>3
        DEF RunStep, Resume, MarkInProgress, Validate, Work, Announce, Complete,
            PublishHook, MarkFailed, FailEvent, dbVars
<1>2. ASSUME NEW c \in Callers, RetryReset(c)
      PROVE  Resetting(c, t) /\ status'[t] = "pending"
    BY <1>0, <1>2 DEF RetryReset, Resetting
<1>3. ASSUME NEW u \in Tenants, CreateTenant(u)
      PROVE  status[t] = "none" /\ status'[t] = "pending"
    BY <1>0, <1>3 DEF CreateTenant
<1> QED
    BY <1>1, <1>2, <1>3
    DEF Next, GrowStale, RetryCall, RetryAdmit, RetrySteps, RetryEvent, RetryError,
        RelayRow, RelayRowUnmarked, TakeUp, Consume, Poll, Recover, RunFault,
        StepFails, AnnounceFails, RunError, Crash, dbVars, vars

(* A worker with an uncrossed tenant in hand leaves none and failed alone. *)
LEMMA HeldStatus ==
    ASSUME CrossedInv, NEW w \in Workers, NEW t \in Tenants, AtWork(w, t), t \notin crossed
    PROVE  KnowsStatus(w) /\ status[t] \in {"pending", "provisioning", "active"}
<1>1. KnowsStatus(w) /\ pc[w] \in Places \ {"idle", "failEvent"} /\ cur[w] = t
    BY DEF CrossedInv, AtWork, TypeOK
<1> QED
    BY <1>1 DEF KnowsStatus, Places

(* A retry call on an uncrossed tenant finds it failed when it resets it.  *)
LEMMA HeldFailed ==
    ASSUME CrossedInv, NEW c \in Callers, NEW t \in Tenants, Resetting(c, t), t \notin crossed
    PROVE  status[t] = "failed"
BY DEF CrossedInv, Resetting, KnowsFailed

(* Nobody moves an uncrossed tenant under a worker's hands ... *)
LEMMA StatusHeld ==
    ASSUME CrossedInv, [Next]_vars, NEW w \in Workers, NEW t \in Tenants,
           AtWork(w, t), t \notin crossed, ~ RunStep(w)
    PROVE  status'[t] = status[t]
<1> SUFFICES ASSUME status'[t] # status[t] PROVE FALSE
    OBVIOUS
<1>0. status[t] \notin {"none", "failed"}
    BY HeldStatus
<1>1. ASSUME NEW c \in Callers, Resetting(c, t) PROVE FALSE
    BY <1>0, <1>1, HeldFailed
<1>2. ASSUME NEW v \in Workers, RunStep(v), AtWork(v, t) PROVE FALSE
    <2>1. Contended(t)
        BY <1>2 DEF Contended
    <2> QED
        BY <2>1 DEF CrossedInv
<1> QED
    BY <1>0, <1>1, <1>2, StatusWrites DEF CrossedInv

(* ... or between a retry call's read and its write. *)
LEMMA FailedHeld ==
    ASSUME CrossedInv, [Next]_vars, NEW c \in Callers, NEW t \in Tenants,
           Resetting(c, t), t \notin crossed, ~ RetryReset(c)
    PROVE  status'[t] = "failed"
<1>0. status[t] = "failed"
    BY HeldFailed
<1> SUFFICES ASSUME status'[t] # status[t] PROVE FALSE
    BY <1>0
<1>1. ASSUME NEW d \in Callers, RetryReset(d), Resetting(d, t) PROVE FALSE
    <2>1. Contended(t)
        BY <1>1 DEF Contended
    <2> QED
        BY <2>1 DEF CrossedInv
<1>2. ASSUME NEW v \in Workers, AtWork(v, t) PROVE FALSE
    BY <1>0, <1>2, HeldStatus
<1> QED
    BY <1>0, <1>1, <1>2, StatusWrites DEF CrossedInv

(* A run's own step leaves it at a place that fits the status. *)
LEMMA RunStepKnowsStatus ==
    ASSUME TypeOK, NEW w \in Workers, KnowsStatus(w), RunStep(w)
    PROVE  KnowsStatus(w)'
<1> DEFINE t == cur[w]
           s == step[w]
<1>0. /\ t \in Tenants /\ s \in Steps /\ status \in [Tenants -> TenantStatus]
      /\ 1 # LastStep /\ LastStep \notin 2 .. (LastStep - 1) /\ LastStep \notin HookSteps
    BY StepsAssumption DEF TypeOK
<1>1. cur' = cur
    BY DEF RunStep, Transition, Resume, MarkInProgress, Validate, Work, Activate,
           Announce, Complete, PublishHook, MarkFailed, SetFailed, FailEvent
<1>2. ASSUME NEW q, Goto(w, q) PROVE pc'[w] = q
    BY <1>2 DEF Goto, TypeOK
<1>3. ASSUME status'[t] = "provisioning",
             pc'[w] \in {"idle", "resume", "attempt", "execute", "markFailed", "setFailed"}
      PROVE  KnowsStatus(w)'
    BY <1>1, <1>3 DEF KnowsStatus
<1>4. ASSUME status'[t] = "provisioning", s # LastStep, step'[w] = s, pc'[w] = "complete"
      PROVE  KnowsStatus(w)'
    BY <1>1, <1>4 DEF KnowsStatus
<1>5. ASSUME Advance(w)
      PROVE  pc'[w] \in {"idle", "attempt"} /\ (s = LastStep => pc'[w] = "idle")
    BY <1>2, <1>5 DEF Advance
<1>6. ASSUME pc'[w] = "idle" PROVE KnowsStatus(w)'
    BY <1>6 DEF KnowsStatus
<1>7. CASE Transition(w)
    BY <1>0, <1>2, <1>3, <1>7 DEF Transition
<1>8. CASE Resume(w) \/ MarkInProgress(w) \/ MarkFailed(w)
    <2>1. status'[t] = "provisioning"
        BY <1>8 DEF Resume, MarkInProgress, MarkFailed, KnowsStatus
    <2>2. pc'[w] \in {"idle", "attempt", "execute", "setFailed"}
        BY <1>2, <1>8 DEF Resume, MarkInProgress, MarkFailed
    <2> QED
        BY <1>3, <2>1, <2>2
<1>9. CASE Validate(w) \/ Work(w)
    <2>1. status[t] = "provisioning" /\ status' = status /\ s # LastStep /\ step'[w] = s
        BY <1>0, <1>9 DEF Validate, Work, KnowsStatus
    <2>2. pc'[w] = "complete"
        BY <1>2, <1>9, <2>1 DEF Validate, Work
    <2> QED
        BY <1>4, <2>1, <2>2
<1>10. CASE Activate(w)
    <2>1. status[t] = "provisioning" /\ s = LastStep /\ step'[w] = s
        BY <1>10 DEF Activate, KnowsStatus
    <2>2. pc'[w] = "announce" /\ status'[t] = "active"
        BY <1>0, <1>2, <1>10, <2>1 DEF Activate
    <2> QED
        BY <1>1, <2>1, <2>2 DEF KnowsStatus
<1>11. CASE Announce(w)
    <2>1. status'[t] = "active" /\ s = LastStep /\ step'[w] = s
        BY <1>11 DEF Announce, KnowsStatus, dbVars
    <2>2. pc'[w] = "complete"
        BY <1>2, <1>11 DEF Announce
    <2> QED
        BY <1>1, <2>1, <2>2 DEF KnowsStatus
<1>12. CASE Complete(w)
    <2>1. status'[t] = IF s = LastStep THEN "active" ELSE "provisioning"
        BY <1>12 DEF Complete, KnowsStatus
    <2>2. CASE s \in HookSteps
        <3>1. pc'[w] = "hook" /\ step'[w] = s /\ s # LastStep
            BY <1>0, <1>2, <1>12, <2>2 DEF Complete
        <3> QED
            BY <1>1, <2>1, <2>2, <3>1 DEF KnowsStatus
    <2>3. CASE s \notin HookSteps
        BY <1>3, <1>5, <1>6, <1>12, <2>1, <2>3 DEF Complete
    <2> QED
        BY <2>2, <2>3
<1>13. CASE PublishHook(w)
    <2>1. status'[t] = "provisioning"
        BY <1>13 DEF PublishHook, KnowsStatus, dbVars
    <2> QED
        BY <1>3, <1>5, <1>13, <2>1 DEF PublishHook
<1>14. CASE SetFailed(w) \/ FailEvent(w)
    <2>1. pc'[w] \in {"failEvent", "idle"}
        BY <1>2, <1>14 DEF SetFailed, FailEvent
    <2> QED
        BY <2>1 DEF KnowsStatus
<1> QED
    BY <1>7, <1>8, <1>9, <1>10, <1>11, <1>12, <1>13, <1>14 DEF RunStep

LEMMA CrossedInvInit == OverlapInit => CrossedInv
<1> SUFFICES ASSUME OverlapInit PROVE CrossedInv
    OBVIOUS
<1>1. TypeOK
    BY InitType DEF OverlapInit
<1> QED
    BY <1>1
    DEF OverlapInit, Init, CrossedInv, Contended, AtWork, Resetting, KnowsStatus,
        KnowsFailed

(* A run that cannot announce is out of attempts. *)
LEMMA AnnouncingStops ==
    ASSUME TypeOK, NEW w \in Workers, KnowsStatus(w), AnnounceFails(w)
    PROVE  FailsToAnnounce(cur[w])
<1>1. step[w] = LastStep /\ pc[w] = "announce" /\ StepErr(w)
    BY DEF AnnounceFails, KnowsStatus
<1>2. attempt[w] \in 1 .. MaxAttempts /\ AttemptsOf(step[w]) = 1
    BY <1>1 DEF AttemptsOf, TypeOK
<1>3. Goto(w, "markFailed")
    BY <1>1, <1>2, StepsAssumption DEF StepErr
<1>4. pc'[w] = "markFailed"
    BY <1>3 DEF Goto, TypeOK
<1> QED
    BY <1>1, <1>4 DEF FailsToAnnounce

(* A worker that has an uncrossed tenant in hand after a step knows its    *)
(* status.                                                                 *)
LEMMA KnowsStatusNext ==
    ASSUME CrossedInv, Next, NEW w \in Workers, NEW t \in Tenants, cur'[w] = t,
           t \notin crossed, ~ FailsToAnnounce(t)
    PROVE  KnowsStatus(w)'
<1>0. [Next]_vars /\ TypeOK
    BY DEF CrossedInv
<1>1. CASE RunStep(w)
    <2>1. cur[w] = t
        BY <1>1
        DEF RunStep, Transition, Resume, MarkInProgress, Validate, Work, Activate,
            Announce, Complete, PublishHook, MarkFailed, SetFailed, FailEvent
    <2> QED
        BY <1>0, <1>1, <2>1, RunStepKnowsStatus DEF CrossedInv
<1>2. CASE /\ ~ RunStep(w)
           /\ pc'[w] = pc[w] /\ cur'[w] = cur[w] /\ step'[w] = step[w]
    <2>1. CASE pc[w] \in {"idle", "failEvent"}
        BY <1>2, <2>1 DEF KnowsStatus
    <2>2. CASE pc[w] \notin {"idle", "failEvent"}
        <3>1. AtWork(w, t)
            BY <1>2, <2>2 DEF AtWork
        <3>2. KnowsStatus(w) /\ status'[t] = status[t]
            BY <1>0, <1>2, <3>1, HeldStatus, StatusHeld
        <3> QED
            BY <1>2, <3>2 DEF KnowsStatus
    <2> QED
        BY <2>1, <2>2
<1>3. CASE pc'[w] = "idle"
    BY <1>3 DEF KnowsStatus
<1>4. CASE TakeUp(w)
    <2>1. ASSUME NEW u \in Tenants, Begin(w, u), status' = status PROVE KnowsStatus(w)'
        <3>1. cur'[w] = u
            BY <1>0, <2>1 DEF Begin, TypeOK
        <3>2. \/ pc'[w] = "transition" /\ status[u] = "pending"
              \/ pc'[w] = "resume" /\ status[u] = "provisioning"
              \/ pc'[w] = "idle"
            BY <1>0, <2>1 DEF Begin, TypeOK
        <3> QED
            BY <2>1, <3>1, <3>2 DEF KnowsStatus
    <2>2. CASE Poll(w)
        BY <1>3, <2>2 DEF Poll
    <2>3. CASE Consume(w)
        <3>1. Head(inbox) \in Tenants
            BY <1>0, <2>3, HeadTailProperties DEF Consume, TypeOK
        <3> QED
            BY <2>1, <2>3, <3>1 DEF Consume, dbVars
    <2>4. CASE Recover(w)
        BY <1>0, <2>1, <2>4 DEF Recover, dbVars, TypeOK
    <2> QED
        BY <1>4, <2>2, <2>3, <2>4 DEF TakeUp
<1>5. CASE RunFault(w)
    <2>1. cur' = cur
        BY <1>5 DEF RunFault, StepFails, AnnounceFails, RunError
    <2>2. KnowsStatus(w)
        BY <2>1 DEF CrossedInv
    <2>3. CASE StepFails(w)
        <3>1. status'[cur'[w]] = "provisioning"
            BY <2>2, <2>3 DEF StepFails, KnowsStatus, dbVars
        <3>2. pc'[w] \in {"attempt", "markFailed"}
            BY <1>0, <2>3 DEF StepFails, StepErr, Goto, TypeOK
        <3> QED
            BY <3>1, <3>2 DEF KnowsStatus
    <2>4. ~ AnnounceFails(w)
        BY <1>0, <2>1, <2>2, AnnouncingStops
    <2>5. CASE RunError(w)
        BY <1>0, <1>3, <2>5 DEF RunError, Goto, TypeOK
    <2> QED
        BY <1>5, <2>3, <2>4, <2>5 DEF RunFault
<1> QED
    BY <1>0, <1>1, <1>2, <1>3, <1>4, <1>5, OwnMove

(* A retry call moves by its own action or by a crash. *)
LEMMA CallMoves ==
    ASSUME TypeOK, Next, NEW c \in Callers
    PROVE  \/ callPc'[c] = callPc[c] /\ callFor'[c] = callFor[c]
           \/ callPc'[c] # "reset"
           \/ \E t \in Tenants : RetryAdmit(c, t)
<1>1. ASSUME NEW d \in Callers, RetryCall(d)
      PROVE  \/ callPc'[c] = callPc[c] /\ callFor'[c] = callFor[c]
             \/ callPc'[c] # "reset"
             \/ \E t \in Tenants : RetryAdmit(c, t)
    <2>1. CASE d = c
        BY <1>1, <2>1 DEF RetryCall, RetryReset, RetrySteps, RetryEvent, RetryError, TypeOK
    <2>2. CASE d # c
        BY <1>1, <2>2
        DEF RetryCall, RetryAdmit, RetryReset, RetrySteps, RetryEvent, RetryError, TypeOK
    <2> QED
        BY <2>1, <2>2
<1>2. CASE Crash
    BY <1>2 DEF Crash
<1>3. CASE UNCHANGED callVars
    BY <1>3 DEF callVars
<1>4. ASSUME NEW w \in Workers, TakeUp(w) \/ RunStep(w) \/ RunFault(w)
      PROVE  UNCHANGED callVars
    BY <1>4
    DEF TakeUp, Consume, Poll, Recover, RunStep, Transition, Resume,
        MarkInProgress, Validate, Work, Activate, Announce, Complete,
        PublishHook, MarkFailed, SetFailed, FailEvent, RunFault, StepFails,
        AnnounceFails, RunError
<1> QED
    BY <1>1, <1>2, <1>3, <1>4 DEF Next, CreateTenant, GrowStale, RelayRow, RelayRowUnmarked

(* A retry call on an uncrossed tenant still finds it failed after a step. *)
LEMMA KnowsFailedNext ==
    ASSUME CrossedInv, Next, NEW c \in Callers, NEW t \in Tenants, callFor'[c] = t,
           t \notin crossed
    PROVE  KnowsFailed(c)'
<1>0. [Next]_vars /\ TypeOK
    BY DEF CrossedInv
<1> SUFFICES ASSUME callPc'[c] = "reset" PROVE status'[t] = "failed"
    BY DEF KnowsFailed
<1>1. CASE callPc'[c] = callPc[c] /\ callFor'[c] = callFor[c]
    <2>1. Resetting(c, t)
        BY <1>1 DEF Resetting
    <2>2. ~ RetryReset(c)
        BY <1>0 DEF RetryReset, TypeOK
    <2> QED
        BY <1>0, <2>1, <2>2, FailedHeld
<1>2. ASSUME NEW u \in Tenants, RetryAdmit(c, u) PROVE status'[t] = "failed"
    BY <1>0, <1>2 DEF RetryAdmit, dbVars, TypeOK
<1> QED
    BY <1>0, <1>1, <1>2, CallMoves

LEMMA CrossedInvNext == CrossedInv /\ [OverlapNext]_overlapVars => CrossedInv'
<1> SUFFICES ASSUME CrossedInv, [OverlapNext]_overlapVars PROVE CrossedInv'
    OBVIOUS
<1>1. CASE UNCHANGED overlapVars
    <2>1. TypeOK'
        BY <1>1, NextType DEF overlapVars, CrossedInv
    <2> QED
        BY <1>1, <2>1
        DEF overlapVars, vars, workerVars, callVars, dbVars, CrossedInv, Contended,
            AtWork, Resetting, KnowsStatus, KnowsFailed
<1>2. CASE OverlapNext
    <2>0. Next /\ Watch
        BY <1>2 DEF OverlapNext
    <2>1. TypeOK'
        BY <2>0, NextType DEF CrossedInv
    <2>2. ASSUME NEW t \in Tenants, Contended(t)' PROVE t \in crossed'
        BY <2>0, <2>2 DEF Watch
    <2>3. ASSUME NEW w \in Workers, NEW t \in Tenants, cur'[w] = t, t \notin crossed'
          PROVE  KnowsStatus(w)'
        <3>2. CASE pc'[w] \in {"idle", "failEvent"}
            BY <3>2 DEF KnowsStatus
        <3>3. CASE pc'[w] \notin {"idle", "failEvent"}
            <4>1. InHand(t)'
                BY <2>3, <3>3 DEF InHand, AtWork
            <4>2. t \notin crossed /\ ~ FailsToAnnounce(t)
                BY <2>0, <2>3, <4>1 DEF Watch
            <4> QED
                BY <2>0, <2>3, <4>2, KnowsStatusNext
        <3> QED
            BY <3>2, <3>3
    <2>4. ASSUME NEW c \in Callers, NEW t \in Tenants, callFor'[c] = t, t \notin crossed'
          PROVE  KnowsFailed(c)'
        <3>2. CASE callPc'[c] # "reset"
            BY <3>2 DEF KnowsFailed
        <3>3. CASE callPc'[c] = "reset"
            <4>1. InHand(t)'
                BY <2>4, <3>3 DEF InHand, Resetting
            <4>2. t \notin crossed
                BY <2>0, <2>4, <4>1 DEF Watch
            <4> QED
                BY <2>0, <2>4, <4>2, KnowsFailedNext
        <3> QED
            BY <3>2, <3>3
    <2>5. /\ \A w \in Workers : cur'[w] \in Tenants
          /\ \A c \in Callers : callFor'[c] \in Tenants
        BY <2>1 DEF TypeOK
    <2> QED
        BY <2>1, <2>2, <2>3, <2>4, <2>5 DEF CrossedInv
<1> QED
    BY <1>1, <1>2

(* A status written to an uncrossed tenant follows the one it knows. *)
LEMMA UncrossedMoves ==
    ASSUME CrossedInv, [Next]_vars, NEW t \in Tenants, t \notin crossed,
           status'[t] # status[t]
    PROVE  <<status[t], status'[t]>> \in
               Lifecycle!ValidTransition \cup Lifecycle!ApiTransition
<1>1. ASSUME NEW c \in Callers, Resetting(c, t) PROVE status[t] = "failed"
    BY <1>1, HeldFailed
<1>2. ASSUME NEW w \in Workers, AtWork(w, t)
      PROVE  /\ pc[w] = "transition" => status[t] = "pending"
             /\ pc[w] \in {"execute", "setFailed"} => status[t] = "provisioning"
    BY <1>2, HeldStatus DEF KnowsStatus, AtWork
<1>3. TypeOK
    BY DEF CrossedInv
<1> QED
    BY <1>1, <1>2, <1>3, StatusWrites
    DEF Lifecycle!ValidTransition, Lifecycle!ApiTransition

(* With any number of workers and retry calls, and any faults, a tenant    *)
(* that is not in two hands moves along the registry's lifecycle only.     *)
THEOREM LifecycleKept == OverlapSpec => LifecycleUnlessCrossed
<1>1. OverlapInit => CrossedInv
    BY CrossedInvInit
<1>2. CrossedInv /\ [OverlapNext]_overlapVars => CrossedInv'
    BY CrossedInvNext
<1>3. CrossedInv /\ [OverlapNext]_overlapVars =>
        [\A t \in Tenants : t \notin crossed /\ status'[t] # status[t] =>
            <<status[t], status'[t]>> \in
                Lifecycle!ValidTransition \cup Lifecycle!ApiTransition]_overlapVars
    BY UncrossedMoves DEF OverlapNext
<1> QED
    BY <1>1, <1>2, <1>3, PTL DEF OverlapSpec, LifecycleUnlessCrossed

-----------------------------------------------------------------------------
(* Whether an active tenant is announced.                                  *)

(* An event once published stays so; a queued one stays until it is.       *)
LEMMA EventStays ==
    ASSUME BuiltInv, [Next]_vars, NEW e \in Events,
           e \in announced \/ \E i \in 1 .. Len(outbox) : outbox[i] = e
    PROVE  e \in announced' \/ \E i \in 1 .. Len(outbox') : outbox'[i] = e
<1>0. TypeOK /\ RunHasBuilt /\ outbox \in Seq(Events)
    BY DEF BuiltInv, TypeOK
<1>1. CASE outbox' = outbox /\ announced' = announced
    BY <1>1
<1>2. ASSUME NEW f \in Events, Insert(f), announced' = announced
      PROVE  e \in announced' \/ \E i \in 1 .. Len(outbox') : outbox'[i] = e
    <2>1. /\ Len(outbox) \in Nat /\ Len(outbox') = Len(outbox) + 1
          /\ \A i \in 1 .. Len(outbox) : outbox'[i] = outbox[i]
        BY <1>0, <1>2, AppendProperties DEF Insert
    <2>2. \A i \in 1 .. Len(outbox) : i \in 1 .. Len(outbox')
        BY <2>1
    <2> QED
        BY <1>2, <2>1, <2>2
<1>3. CASE /\ outbox # <<>> /\ outbox' \in {outbox, Tail(outbox)}
           /\ announced' = announced \cup {Head(outbox)}
    <2>1. /\ Len(outbox) \in Nat /\ Head(outbox) = outbox[1]
          /\ Len(Tail(outbox)) = Len(outbox) - 1
          /\ \A i \in 1 .. Len(Tail(outbox)) : Tail(outbox)[i] = outbox[i + 1]
        BY <1>0, <1>3, HeadTailProperties
    <2>2. ASSUME NEW i \in 1 .. Len(outbox), outbox[i] = e, i # 1, outbox' = Tail(outbox)
          PROVE  \E j \in 1 .. Len(outbox') : outbox'[j] = e
        <3>1. i - 1 \in 1 .. Len(Tail(outbox)) /\ Tail(outbox)[i - 1] = outbox[(i - 1) + 1]
            BY <2>1, <2>2
        <3>2. (i - 1) + 1 = i
            BY <2>1
        <3> QED
            BY <2>2, <3>1, <3>2
    <2> QED
        BY <1>3, <2>1, <2>2
<1> QED
    BY <1>0, <1>1, <1>2, <1>3, OutboxChanges

(* A run that is about to announce its tenant does so or is cut off.       *)
LEMMA AnnouncingGoesOn ==
    ASSUME TypeOK, Next, NEW w \in Workers, pc[w] = "announce",
           pc'[w] \in {"announce", "complete"}
    PROVE  \/ cur'[w] = cur[w] /\ pc'[w] = "announce"
           \/ Insert(Event(cur[w], Provisioned, 0))
<1>1. ~ TakeUp(w)
    BY DEF TakeUp, Consume, Poll, Recover
<1>2. CASE RunStep(w)
    BY <1>2
    DEF RunStep, Transition, Resume, MarkInProgress, Validate, Work, Activate,
        Announce, Complete, PublishHook, MarkFailed, SetFailed, FailEvent
<1>3. ~ RunFault(w)
    BY DEF RunFault, StepFails, AnnounceFails, RunError, StepErr, Goto, TypeOK
<1> QED
    BY <1>1, <1>2, <1>3, OwnMove

AnnouncedInv == BuiltInv /\ AnnouncedUnlessCut

LEMMA AnnouncedNext == AnnouncedInv /\ [OverlapNext]_overlapVars => AnnouncedInv'
<1> SUFFICES ASSUME AnnouncedInv, [OverlapNext]_overlapVars PROVE AnnouncedInv'
    OBVIOUS
<1>0. BuiltInv /\ TypeOK /\ [Next]_vars
    BY DEF AnnouncedInv, BuiltInv, OverlapNext, overlapVars
<1>1. BuiltInv'
    BY <1>0, BuiltInvNext
<1>2. CASE UNCHANGED overlapVars
    BY <1>1, <1>2
    DEF AnnouncedInv, AnnouncedUnlessCut, Told, overlapVars, vars, dbVars, busVars, workerVars
<1>3. ASSUME OverlapNext, NEW t \in Tenants, status'[t] = "active", t \notin cut'
      PROVE  Told(t)'
    <2>0. Next /\ Watch
        BY <1>3 DEF OverlapNext
    <2>1. CASE status[t] # "active"
        <3>1. PICK w \in Workers : cur[w] = t /\ pc'[w] = "announce" /\ cur' = cur
            BY <1>0, <1>3, <2>1, OnlyActivateActivates
        <3> QED
            BY <3>1 DEF Told
    <2>2. CASE status[t] = "active"
        <3>0. t \notin cut /\ ~ CutOff(t)
            BY <1>3, <2>0, <2>2 DEF Watch
        <3>1. Told(t)
            BY <2>2, <3>0 DEF AnnouncedInv, AnnouncedUnlessCut
        <3>2. Event(t, Provisioned, 0) \in Events
            BY EventType, StepsAssumption
        <3>3. ASSUME NEW w \in Workers, cur[w] = t, pc[w] = "announce" PROVE Told(t)'
            <4>1. pc'[w] \in {"announce", "complete"}
                BY <3>0, <3>3 DEF CutOff
            <4>2. CASE cur'[w] = t /\ pc'[w] = "announce"
                BY <4>2 DEF Told
            <4>3. CASE Insert(Event(t, Provisioned, 0))
                <5>1. /\ Len(outbox) \in Nat /\ Len(outbox') = Len(outbox) + 1
                      /\ outbox'[Len(outbox) + 1] = Event(t, Provisioned, 0)
                    BY <1>0, <3>2, <4>3, AppendProperties DEF Insert, TypeOK
                <5>2. Len(outbox) + 1 \in 1 .. Len(outbox')
                    BY <5>1
                <5> QED
                    BY <5>1, <5>2 DEF Told
            <4> QED
                BY <1>0, <2>0, <3>3, <4>1, <4>2, <4>3, AnnouncingGoesOn
        <3>4. CASE \/ Event(t, Provisioned, 0) \in announced
                   \/ \E i \in 1 .. Len(outbox) : outbox[i] = Event(t, Provisioned, 0)
            <4>1. \/ Event(t, Provisioned, 0) \in announced'
                  \/ \E i \in 1 .. Len(outbox') : outbox'[i] = Event(t, Provisioned, 0)
                BY <1>0, <3>2, <3>4, EventStays
            <4>2. Event(t, Provisioned, 0)' = Event(t, Provisioned, 0)
                BY DEF Event, Provisioned
            <4> QED
                BY <4>1, <4>2 DEF Told
        <3> QED
            BY <3>1, <3>3, <3>4 DEF Told
    <2> QED
        BY <2>1, <2>2
<1> QED
    BY <1>1, <1>2, <1>3 DEF AnnouncedInv, AnnouncedUnlessCut

(* Only a run that ends between activate_tenant's two statements leaves an *)
(* active tenant without its tenant.provisioned event, for any number of   *)
(* tenants, workers, retry calls and faults.                               *)
THEOREM AnnouncementKept == OverlapSpec => []AnnouncedUnlessCut
<1>1. OverlapInit => AnnouncedInv
    BY BuiltInvInit DEF OverlapInit, AnnouncedInv, AnnouncedUnlessCut, Init
<1>2. AnnouncedInv /\ [OverlapNext]_overlapVars => AnnouncedInv'
    BY AnnouncedNext
<1>3. AnnouncedInv => AnnouncedUnlessCut
    BY DEF AnnouncedInv
<1> QED
    BY <1>1, <1>2, <1>3, PTL DEF OverlapSpec
=============================================================================
