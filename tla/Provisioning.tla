---------------------------- MODULE Provisioning ----------------------------
(***************************************************************************)
(* Tenant provisioning in the control plane (platform/control-plane).      *)
(*                                                                         *)
(* POST /tenants inserts a pending tenant and a tenant.provisioning_started *)
(* row in provisioning_outbox.  A relay publishes outbox rows on NATS.  A  *)
(* worker - the NATS consumer or the recovery poller, both tasks of the    *)
(* control-plane process - drives the tenant through an ordered sequence   *)
(* of steps, recording each step's status in provisioning_steps, and       *)
(* activates the tenant in the last one.  A failed tenant is put back to   *)
(* pending by the retry endpoint.                                          *)
(*                                                                         *)
(* Every SQL statement outside a transaction is an action of its own: the  *)
(* statements of two workers, of retry calls and of the relay interleave,  *)
(* and the process may crash between any two of them.                      *)
(***************************************************************************)
EXTENDS Integers, Sequences, FiniteSets

CONSTANTS
    Tenants,      \* tenant ids
    Consumers,    \* tasks that consume tenant.provisioning_started from NATS
    Pollers,      \* recovery_loop tasks
    Callers,      \* concurrent requests to the retry endpoint
    LastStep,     \* number of provisioning steps (7 in the code)
    HookSteps,    \* steps after which a hook event is written (2, 3 and 4)
    MaxAttempts,  \* MAX_RETRIES (3)
    BatchLimit,   \* LIMIT of find_stuck_tenants (5)
    FaultKinds,   \* which faults the environment produces
    MaxFaults,    \* bound: number of faults in a behaviour
    MaxRetries    \* bound: number of retry calls accepted in a behaviour

ASSUME TenantsAssumption == IsFiniteSet(Tenants)

ASSUME StepsAssumption ==
    /\ LastStep \in Nat /\ LastStep >= 2
    /\ HookSteps \subseteq 2 .. (LastStep - 1)
    /\ MaxAttempts \in Nat \ {0}
    /\ BatchLimit \in Nat \ {0}

ASSUME BoundsAssumption ==
    /\ FaultKinds \subseteq {"crash", "step", "db", "bus"}
    /\ MaxFaults \in Nat
    /\ MaxRetries \in Nat

Workers == Consumers \cup Pollers

Steps == 1 .. LastStep

VARIABLES
    status,     \* tenants.status ("none": no row)
    stale,      \* updated_at is more than 10 seconds old
    createdAt,  \* tenants.created_at, as the rank of the creation (0: no row)
    steps,      \* provisioning_steps.status of each step
    done,       \* steps whose work has really been carried out
    outbox,     \* unpublished rows of provisioning_outbox, oldest first
    announced,  \* events published on NATS so far
    inbox,      \* provisioning_started messages in the consumer's subscription
    batch,      \* tenants a poller has fetched and not yet taken up
    pc, cur, step, attempt,   \* each worker's place in provision_tenant
    callPc, callFor,          \* each retry call's place and its tenant
    faults, retries           \* counters of the bounds

dbVars == <<status, stale, createdAt, steps, done>>
busVars == <<outbox, announced, inbox>>
workerVars == <<batch, pc, cur, step, attempt>>
callVars == <<callPc, callFor, retries>>
vars == <<dbVars, busVars, workerVars, callVars, faults>>

-----------------------------------------------------------------------------
(* Events.  A hook event is identified by the step it announces.           *)

Started == "tenant.provisioning_started"
Provisioned == "tenant.provisioned"
Failed == "tenant.provisioning_failed"
Hook == "tenant.provisioning.hook"

(* A row of provisioning_outbox; "of" is the step a hook announces, else 0. *)
Event(t, type, of) == [tenant |-> t, type |-> type, of |-> of]

Events == [tenant : Tenants, type : {Started, Provisioned, Failed, Hook},
           of : 0 .. LastStep]

Insert(e) == outbox' = Append(outbox, e)

(* One fault of kind k, as long as the bound allows one. *)
Fault(k) ==
    /\ k \in FaultKinds
    /\ faults < MaxFaults
    /\ faults' = faults + 1

-----------------------------------------------------------------------------
StepStatus == {"absent", "pending", "in_progress", "completed", "failed"}

TenantStatus == {"none", "pending", "provisioning", "active", "failed"}

Places == {"idle", "transition", "resume", "attempt", "execute", "announce",
           "complete", "hook", "markFailed", "setFailed", "failEvent"}

TypeOK ==
    /\ status \in [Tenants -> TenantStatus]
    /\ stale \in [Tenants -> BOOLEAN]
    /\ createdAt \in [Tenants -> Nat]
    /\ steps \in [Tenants -> [Steps -> StepStatus]]
    /\ done \in [Tenants -> SUBSET Steps]
    /\ outbox \in Seq(Events)
    /\ announced \in SUBSET Events
    /\ inbox \in Seq(Tenants)
    /\ batch \in [Workers -> SUBSET Tenants]
    /\ pc \in [Workers -> Places]
    /\ cur \in [Workers -> Tenants]
    /\ step \in [Workers -> Steps]
    /\ attempt \in [Workers -> 1 .. MaxAttempts]
    /\ callPc \in [Callers -> {"idle", "reset", "steps", "event"}]
    /\ callFor \in [Callers -> Tenants]
    /\ faults \in 0 .. MaxFaults
    /\ retries \in 0 .. MaxRetries

Init ==
    /\ status = [t \in Tenants |-> "none"]
    /\ stale = [t \in Tenants |-> FALSE]
    /\ createdAt = [t \in Tenants |-> 0]
    /\ steps = [t \in Tenants |-> [s \in Steps |-> "absent"]]
    /\ done = [t \in Tenants |-> {}]
    /\ outbox = <<>>
    /\ announced = {}
    /\ inbox = <<>>
    /\ batch = [w \in Workers |-> {}]
    /\ pc = [w \in Workers |-> "idle"]
    /\ \E t \in Tenants :
        /\ cur = [w \in Workers |-> t]
        /\ callFor = [c \in Callers |-> t]
    /\ step = [w \in Workers |-> 1]
    /\ attempt = [w \in Workers |-> 1]
    /\ callPc = [c \in Callers |-> "idle"]
    /\ faults = 0
    /\ retries = 0

-----------------------------------------------------------------------------
(* The API.                                                                *)

(* POST /tenants: tenant, idempotency key, bundle, entitlements and the    *)
(* outbox row commit in one transaction.  A second request for the tenant  *)
(* or the key changes nothing (guards, and the tables' unique keys).       *)
CreateTenant(t) ==
    /\ status[t] = "none"
    /\ status' = [status EXCEPT ![t] = "pending"]
    /\ createdAt' = [createdAt EXCEPT
            ![t] = Cardinality({u \in Tenants : status[u] # "none"}) + 1]
    /\ Insert(Event(t, Started, 0))
    /\ UNCHANGED <<stale, steps, done, announced, inbox, workerVars, callVars, faults>>

(* The retry endpoint reads the status and admits only a failed tenant ... *)
RetryAdmit(c, t) ==
    /\ callPc[c] = "idle"
    /\ retries < MaxRetries
    /\ status[t] = "failed"
    /\ callPc' = [callPc EXCEPT ![c] = "reset"]
    /\ callFor' = [callFor EXCEPT ![c] = t]
    /\ retries' = retries + 1
    /\ UNCHANGED <<dbVars, busVars, workerVars, faults>>

(* ... sets it to pending without looking at the status again, ...         *)
RetryReset(c) ==
    /\ callPc[c] = "reset"
    /\ status' = [status EXCEPT ![callFor[c]] = "pending"]
    /\ stale' = [stale EXCEPT ![callFor[c]] = FALSE]
    /\ callPc' = [callPc EXCEPT ![c] = "steps"]
    /\ UNCHANGED <<createdAt, steps, done, busVars, workerVars, callFor, retries, faults>>

RetryStepsMutant(c) ==   \* every step is reset
    /\ callPc[c] = "steps"
    /\ steps' = [steps EXCEPT ![callFor[c]] = [s \in Steps |-> "pending"]]
    /\ callPc' = [callPc EXCEPT ![c] = "event"]
    /\ UNCHANGED <<status, stale, createdAt, done, busVars, workerVars, callFor, retries, faults>>

(* ... puts its failed and unfinished steps back to pending, ...           *)
RetrySteps(c) ==
    LET t == callFor[c] IN
    /\ callPc[c] = "steps"
    /\ steps' = [steps EXCEPT ![t] = [s \in Steps |->
            IF steps[t][s] \in {"failed", "in_progress"}
            THEN "pending" ELSE steps[t][s]]]
    /\ callPc' = [callPc EXCEPT ![c] = "event"]
    /\ UNCHANGED <<status, stale, createdAt, done, busVars, workerVars, callFor, retries, faults>>

(* ... and asks for a new run through the outbox.                          *)
RetryEvent(c) ==
    /\ callPc[c] = "event"
    /\ Insert(Event(callFor[c], Started, 0))
    /\ callPc' = [callPc EXCEPT ![c] = "idle"]
    /\ UNCHANGED <<dbVars, announced, inbox, workerVars, callFor, retries, faults>>

(* A statement of the retry call fails: the call returns 500 and leaves    *)
(* what it has written.                                                    *)
RetryError(c) ==
    /\ callPc[c] # "idle"
    /\ Fault("db")
    /\ callPc' = [callPc EXCEPT ![c] = "idle"]
    /\ UNCHANGED <<dbVars, busVars, workerVars, callFor, retries>>

-----------------------------------------------------------------------------
(* The outbox relay.  Nobody else reads published_at, so publishing a row  *)
(* and marking it is one action; a crash or an error between the two       *)
(* leaves the row to be published again.                                   *)

(* NATS hands a started event to the consumer's subscription if it is up.  *)
Deliver(e) ==
    \/ /\ inbox' = IF e.type = Started THEN Append(inbox, e.tenant) ELSE inbox
       /\ UNCHANGED faults
    \/ e.type = Started /\ Fault("bus") /\ UNCHANGED inbox

RelayRowMutant ==   \* every waiting row is marked, not the published one
    /\ outbox # <<>>
    /\ announced' = announced \cup {Head(outbox)}
    /\ Deliver(Head(outbox))
    /\ outbox' = <<>>
    /\ UNCHANGED <<dbVars, workerVars, callVars>>

RelayRow ==
    /\ outbox # <<>>
    /\ announced' = announced \cup {Head(outbox)}
    /\ Deliver(Head(outbox))
    /\ outbox' = Tail(outbox)
    /\ UNCHANGED <<dbVars, workerVars, callVars>>

RelayRowUnmarked ==
    /\ outbox # <<>>
    /\ announced' = announced \cup {Head(outbox)}
    /\ inbox' = IF Head(outbox).type = Started
                THEN Append(inbox, Head(outbox).tenant) ELSE inbox
    /\ Fault("db")
    /\ UNCHANGED <<outbox, dbVars, workerVars, callVars>>

-----------------------------------------------------------------------------
(* How a worker takes up a tenant: provision_tenant's first statement      *)
(* reads the status and skips an active or a failed tenant.                *)

BeginMutant(w, t) ==   \* only an active tenant is skipped
    /\ cur' = [cur EXCEPT ![w] = t]
    /\ pc' = [pc EXCEPT ![w] =
            CASE status[t] \in {"pending", "failed"} -> "transition"
              [] status[t] = "provisioning" -> "resume"
              [] OTHER -> "idle"]
    /\ UNCHANGED <<step, attempt>>

Begin(w, t) ==
    /\ cur' = [cur EXCEPT ![w] = t]
    /\ pc' = [pc EXCEPT ![w] =
            CASE status[t] = "pending" -> "transition"
              [] status[t] = "provisioning" -> "resume"
              [] OTHER -> "idle"]
    /\ UNCHANGED <<step, attempt>>

(* consume_events: one message at a time. *)
Consume(w) ==
    /\ w \in Consumers
    /\ pc[w] = "idle"
    /\ inbox # <<>>
    /\ Begin(w, Head(inbox))
    /\ inbox' = Tail(inbox)
    /\ UNCHANGED <<dbVars, outbox, announced, batch, callVars, faults>>

StuckMutant ==   \* a tenant left in provisioning is not looked for
    {t \in Tenants : status[t] = "pending" /\ stale[t]}

(* find_stuck_tenants *)
Stuck == {t \in Tenants : status[t] \in {"pending", "provisioning"} /\ stale[t]}

Oldest(S) == {t \in S :
    Cardinality({u \in S : createdAt[u] < createdAt[t]}) < BatchLimit}

(* recovery_loop: fetch the oldest stuck tenants ... *)
Poll(w) ==
    /\ w \in Pollers
    /\ pc[w] = "idle"
    /\ batch[w] = {}
    /\ Stuck # {}
    /\ batch' = [batch EXCEPT ![w] = Oldest(Stuck)]
    /\ UNCHANGED <<dbVars, busVars, pc, cur, step, attempt, callVars, faults>>

(* ... then provision them one after another, oldest first.                *)
Recover(w) ==
    /\ w \in Pollers
    /\ pc[w] = "idle"
    /\ \E t \in batch[w] :
        /\ \A u \in batch[w] : createdAt[t] <= createdAt[u]
        /\ Begin(w, t)
        /\ batch' = [batch EXCEPT ![w] = @ \ {t}]
    /\ UNCHANGED <<dbVars, busVars, callVars, faults>>

(* Ten seconds pass without a write to the tenant's row. *)
GrowStale(t) ==
    /\ status[t] \in {"pending", "provisioning"}
    /\ ~stale[t]
    /\ stale' = [stale EXCEPT ![t] = TRUE]
    /\ UNCHANGED <<status, createdAt, steps, done, busVars, workerVars, callVars, faults>>

-----------------------------------------------------------------------------
(* provision_tenant, statement by statement.                               *)

Goto(w, place) == pc' = [pc EXCEPT ![w] = place]

(* pending -> provisioning, whatever the status has become since the read. *)
Transition(w) ==
    /\ pc[w] = "transition"
    /\ status' = [status EXCEPT ![cur[w]] = "provisioning"]
    /\ stale' = [stale EXCEPT ![cur[w]] = FALSE]
    /\ Goto(w, "resume")
    /\ UNCHANGED <<createdAt, steps, done, busVars, batch, cur, step, attempt, callVars, faults>>

(* Rows seeded up to step n; ON CONFLICT DO NOTHING keeps the others.      *)
Seeded(row, n) ==
    [s \in Steps |-> IF row[s] = "absent" /\ s <= n THEN "pending" ELSE row[s]]

FirstPendingMutant(row) ==   \* forgets failed and interrupted steps
    IF \E s \in Steps : row[s] = "pending"
    THEN CHOOSE s \in Steps : row[s] = "pending"
                              /\ \A r \in 1 .. (s - 1) : row[r] # "pending"
    ELSE LastStep

FirstPending(row) ==
    CHOOSE s \in Steps : row[s] # "completed"
                         /\ \A r \in 1 .. (s - 1) : row[r] = "completed"

(* Seed the step rows and resume from the first step not completed.  (No   *)
(* one but a seeding worker touches an absent row, so the inserts and the  *)
(* query make one action.)  When every step is completed the run ends.     *)
Resume(w) ==
    LET row == Seeded(steps[cur[w]], LastStep) IN
    /\ pc[w] = "resume"
    /\ steps' = [steps EXCEPT ![cur[w]] = row]
    /\ IF \A s \in Steps : row[s] = "completed"
       THEN Goto(w, "idle") /\ UNCHANGED <<step, attempt>>
       ELSE /\ step' = [step EXCEPT ![w] = FirstPending(row)]
            /\ attempt' = [attempt EXCEPT ![w] = 1]
            /\ Goto(w, "attempt")
    /\ UNCHANGED <<status, stale, createdAt, done, busVars, batch, cur, callVars, faults>>

(* is_fatal_step: the first and the last step are tried once.              *)
AttemptsOf(s) == IF s \in {1, LastStep} THEN 1 ELSE MaxAttempts

MarkStep(w, st) == steps' = [steps EXCEPT ![cur[w]][step[w]] = st]

(* mark_step_in_progress, whose failure is ignored.                        *)
MarkInProgress(w) ==
    /\ pc[w] = "attempt"
    /\ \/ MarkStep(w, "in_progress") /\ UNCHANGED faults
       \/ UNCHANGED steps /\ Fault("db")
    /\ Goto(w, "execute")
    /\ UNCHANGED <<status, stale, createdAt, done, busVars, batch, cur, step, attempt, callVars>>

StepErrMutant(w) ==   \* a step out of attempts is taken for done
    IF attempt[w] < AttemptsOf(step[w])
    THEN attempt' = [attempt EXCEPT ![w] = @ + 1] /\ Goto(w, "attempt")
    ELSE Goto(w, "complete") /\ UNCHANGED attempt

(* A step that returned Err is retried or fails the tenant.                *)
StepErr(w) ==
    IF attempt[w] < AttemptsOf(step[w])
    THEN attempt' = [attempt EXCEPT ![w] = @ + 1] /\ Goto(w, "attempt")
    ELSE Goto(w, "markFailed") /\ UNCHANGED attempt

(* validate_tenant *)
Validate(w) ==
    /\ pc[w] = "execute" /\ step[w] = 1
    /\ IF status[cur[w]] \in {"pending", "provisioning"}
       THEN /\ done' = [done EXCEPT ![cur[w]] = @ \cup {1}]
            /\ Goto(w, "complete") /\ UNCHANGED attempt
       ELSE StepErr(w) /\ UNCHANGED done
    /\ UNCHANGED <<status, stale, createdAt, steps, busVars, batch, cur, step, callVars, faults>>

(* create_tenant_databases .. verify_schema_versions: work outside the     *)
(* registry, idempotent.  verify_schema_versions also writes the tenant's  *)
(* row.                                                                    *)
Work(w) ==
    /\ pc[w] = "execute" /\ step[w] \in 2 .. (LastStep - 1)
    /\ done' = [done EXCEPT ![cur[w]] = @ \cup {step[w]}]
    /\ stale' = IF step[w] = LastStep - 1
                THEN [stale EXCEPT ![cur[w]] = FALSE] ELSE stale
    /\ Goto(w, "complete")
    /\ UNCHANGED <<status, createdAt, steps, busVars, batch, cur, step, attempt, callVars, faults>>

(* A module's database cannot be reached, a migration fails, ...           *)
StepFails(w) ==
    /\ pc[w] = "execute"
    /\ Fault("step")
    /\ StepErr(w)
    /\ UNCHANGED <<dbVars, busVars, batch, cur, step, callVars>>

ActivateMutant(w) ==   \* rows_affected is not looked at
    /\ pc[w] = "execute" /\ step[w] = LastStep
    /\ IF status[cur[w]] = "provisioning"
       THEN /\ status' = [status EXCEPT ![cur[w]] = "active"]
            /\ stale' = [stale EXCEPT ![cur[w]] = FALSE]
            /\ done' = [done EXCEPT ![cur[w]] = @ \cup {LastStep}]
       ELSE UNCHANGED <<status, stale, done>>
    /\ Goto(w, "announce")
    /\ UNCHANGED <<createdAt, steps, busVars, batch, cur, step, attempt, callVars, faults>>

(* activate_tenant, first statement: provisioning -> active or InvalidState. *)
Activate(w) ==
    /\ pc[w] = "execute" /\ step[w] = LastStep
    /\ IF status[cur[w]] = "provisioning"
       THEN /\ status' = [status EXCEPT ![cur[w]] = "active"]
            /\ stale' = [stale EXCEPT ![cur[w]] = FALSE]
            /\ done' = [done EXCEPT ![cur[w]] = @ \cup {LastStep}]
            /\ Goto(w, "announce") /\ UNCHANGED attempt
       ELSE StepErr(w) /\ UNCHANGED <<status, stale, done>>
    /\ UNCHANGED <<createdAt, steps, busVars, batch, cur, step, callVars, faults>>

(* activate_tenant, second statement: the tenant.provisioned row.          *)
Announce(w) ==
    /\ pc[w] = "announce"
    /\ Insert(Event(cur[w], Provisioned, 0))
    /\ Goto(w, "complete")
    /\ UNCHANGED <<dbVars, announced, inbox, batch, cur, step, attempt, callVars, faults>>

AnnounceFails(w) ==
    /\ pc[w] = "announce"
    /\ Fault("db")
    /\ StepErr(w)
    /\ UNCHANGED <<dbVars, busVars, batch, cur, step, callVars>>

(* On to the next step, or the end of the run.                             *)
Advance(w) ==
    IF step[w] = LastStep
    THEN Goto(w, "idle") /\ UNCHANGED <<step, attempt>>
    ELSE /\ step' = [step EXCEPT ![w] = @ + 1]
         /\ attempt' = [attempt EXCEPT ![w] = 1]
         /\ Goto(w, "attempt")

(* mark_step_completed *)
Complete(w) ==
    /\ pc[w] = "complete"
    /\ MarkStep(w, "completed")
    /\ IF step[w] \in HookSteps
       THEN Goto(w, "hook") /\ UNCHANGED <<step, attempt>>
       ELSE Advance(w)
    /\ UNCHANGED <<status, stale, createdAt, done, busVars, batch, cur, callVars, faults>>

(* publish_hook_if_needed, whose failure is ignored.                       *)
PublishHook(w) ==
    /\ pc[w] = "hook"
    /\ \/ Insert(Event(cur[w], Hook, step[w])) /\ UNCHANGED faults
       \/ UNCHANGED outbox /\ Fault("db")
    /\ Advance(w)
    /\ UNCHANGED <<dbVars, announced, inbox, batch, cur, callVars>>

(* mark_step_failed, whose failure is ignored; then fail_tenant's two      *)
(* statements, whose failures are logged.                                  *)
MarkFailed(w) ==
    /\ pc[w] = "markFailed"
    /\ \/ MarkStep(w, "failed") /\ UNCHANGED faults
       \/ UNCHANGED steps /\ Fault("db")
    /\ Goto(w, "setFailed")
    /\ UNCHANGED <<status, stale, createdAt, done, busVars, batch, cur, step, attempt, callVars>>

SetFailed(w) ==
    /\ pc[w] = "setFailed"
    /\ \/ /\ status' = [status EXCEPT ![cur[w]] = "failed"]
          /\ stale' = [stale EXCEPT ![cur[w]] = FALSE]
          /\ UNCHANGED faults
       \/ UNCHANGED <<status, stale>> /\ Fault("db")
    /\ Goto(w, "failEvent")
    /\ UNCHANGED <<createdAt, steps, done, busVars, batch, cur, step, attempt, callVars>>

FailEvent(w) ==
    /\ pc[w] = "failEvent"
    /\ \/ Insert(Event(cur[w], Failed, 0)) /\ UNCHANGED faults
       \/ UNCHANGED outbox /\ Fault("db")
    /\ Goto(w, "idle")
    /\ UNCHANGED <<dbVars, announced, inbox, batch, cur, step, attempt, callVars>>

(* A failing statement that provision_tenant answers with "?": the run     *)
(* ends and the tenant keeps its status.  Seeding may stop halfway.        *)
RunError(w) ==
    /\ pc[w] \in {"transition", "resume", "complete"}
    /\ Fault("db")
    /\ IF pc[w] = "resume"
       THEN \E n \in 0 .. LastStep :
              steps' = [steps EXCEPT ![cur[w]] = Seeded(@, n)]
       ELSE UNCHANGED steps
    /\ Goto(w, "idle")
    /\ UNCHANGED <<status, stale, createdAt, done, busVars, batch, cur, step, attempt, callVars>>

(* The control-plane process dies and restarts: workers, retry calls and   *)
(* the in-memory subscription are gone, the database stays.                *)
Crash ==
    /\ Fault("crash")
    /\ pc' = [w \in Workers |-> "idle"]
    /\ batch' = [w \in Workers |-> {}]
    /\ callPc' = [c \in Callers |-> "idle"]
    /\ inbox' = <<>>
    /\ UNCHANGED <<dbVars, outbox, announced, cur, step, attempt, callFor, retries>>

-----------------------------------------------------------------------------
TakeUp(w) == Consume(w) \/ Poll(w) \/ Recover(w)

(* One statement of a run that meets no fault of its own making.           *)
RunStep(w) ==
    \/ Transition(w) \/ Resume(w) \/ MarkInProgress(w)
    \/ Validate(w) \/ Work(w) \/ Activate(w) \/ Announce(w)
    \/ Complete(w) \/ PublishHook(w)
    \/ MarkFailed(w) \/ SetFailed(w) \/ FailEvent(w)

RunFault(w) == StepFails(w) \/ AnnounceFails(w) \/ RunError(w)

RetryCall(c) ==
    \/ \E t \in Tenants : RetryAdmit(c, t)
    \/ RetryReset(c) \/ RetrySteps(c) \/ RetryEvent(c) \/ RetryError(c)

Next ==
    \/ \E t \in Tenants : CreateTenant(t) \/ GrowStale(t)
    \/ \E c \in Callers : RetryCall(c)
    \/ RelayRow \/ RelayRowUnmarked
    \/ \E w \in Workers : TakeUp(w) \/ RunStep(w) \/ RunFault(w)
    \/ Crash

Spec == Init /\ [][Next]_vars

-----------------------------------------------------------------------------
(* Whether the age filter of find_stuck_tenants does what its comment says *)
(* ("avoid racing with the NATS event path"): no two workers are ever on   *)
(* the same tenant.  The code does not enforce it; SerialSpec assumes it.  *)
OneWorkerPerTenant ==
    \A v, w \in Workers :
        v # w /\ pc[v] # "idle" /\ pc[w] # "idle" => cur[v] # cur[w]

Serially(A) == A /\ OneWorkerPerTenant'

SerialSpec == Init /\ [][Serially(Next)]_vars

(* A run keeps going, the relay and the poller loop for ever, time passes. *)
Fairness ==
    /\ \A w \in Workers : WF_vars(RunStep(w)) /\ WF_vars(TakeUp(w))
    /\ WF_vars(RelayRow)
    /\ \A t \in Tenants : WF_vars(GrowStale(t))

FairSpec == Spec /\ Fairness

FairSerialSpec ==
    /\ SerialSpec
    /\ \A w \in Workers : WF_vars(Serially(RunStep(w))) /\ WF_vars(Serially(TakeUp(w)))
    /\ WF_vars(Serially(RelayRow))
    /\ \A t \in Tenants : WF_vars(Serially(GrowStale(t)))

-----------------------------------------------------------------------------
(* Resuming never jumps over work: a step recorded as completed has really *)
(* been carried out, and so has every step before it, however many workers *)
(* overwrite each other's rows, fail or crash.  (provision_tenant's        *)
(* resume-from-last.)                                                      *)
NoStepSkipped ==
    \A t \in Tenants : \A s \in Steps :
        steps[t][s] = "completed" => 1 .. s \subseteq done[t]

(* An active tenant has been built: every step of the sequence has been    *)
(* carried out for it at least once.  (activate_tenant as the last step.)  *)
ActiveOnlyWhenBuilt ==
    \A t \in Tenants : status[t] = "active" => done[t] = Steps

(* What a worker's place says: the steps before its own are carried out,   *)
(* and its own too once it is past executing it.                           *)
HasBuilt(w) ==
    /\ pc[w] \in {"attempt", "execute"} => 1 .. (step[w] - 1) \subseteq done[cur[w]]
    /\ pc[w] \in {"announce", "complete", "hook"} => 1 .. step[w] \subseteq done[cur[w]]
    /\ pc[w] = "announce" => step[w] = LastStep
    /\ pc[w] = "hook" => step[w] \in HookSteps

RunHasBuilt == \A w \in Workers : HasBuilt(w)

(* What e claims of the work carried out, built: a hook that its step and  *)
(* all before it are done, tenant.provisioned that the tenant was activated. *)
Justified(e, built) ==
    /\ e.type = Hook => 1 .. e.of \subseteq built[e.tenant]
    /\ e.type = Provisioned => built[e.tenant] = Steps

(* No event, queued or published, claims more than was done: a vertical    *)
(* that reacts to a hook or to tenant.provisioned finds the databases.     *)
EventsTellTheTruth ==
    /\ \A i \in 1 .. Len(outbox) : Justified(outbox[i], done)
    /\ \A e \in announced : Justified(e, done)

(* The inductive invariant behind the four properties above. *)
BuiltInv ==
    TypeOK /\ NoStepSkipped /\ RunHasBuilt /\ ActiveOnlyWhenBuilt /\ EventsTellTheTruth

(* A completed step is never reopened ("Completed steps will be skipped",  *)
(* the retry endpoint's answer).                                           *)
CompletedStepsKept ==
    [][\A t \in Tenants : \A s \in Steps :
        steps[t][s] = "completed" => steps'[t][s] = "completed"]_vars

(* A tenant whose provisioning is asked for settles: it becomes active or  *)
(* failed.  (Recovery poll and NATS path together.)                        *)
SettlesEventually ==
    \A t \in Tenants :
        status[t] \in {"pending", "provisioning"} ~> status[t] \in {"active", "failed"}
=============================================================================
