# A TLA+ verification of the 7D Solutions Platform

The platform is a set of Rust services: shared runtime infrastructure (`platform/`) and business
modules (`modules/`), each with a PostgreSQL database of its own, which talk over HTTP and through
events on NATS JetStream. This directory holds TLA+ modules of its core protocols, the TLC
configurations that check them on small instances, and theorems that TLAPS checks for every value
of their constants.

Modelled are tenant **provisioning**, the outbox **publisher**, the event **consumer**, the
**pipeline** the last two form, the **general ledger**, and nine further business components:
**numbering**, **inventory**, the **collection** of invoices by accounts receivable and payments,
**dunning**, **accounts payable**, **session leases**, subscription **bill runs**, **usage billing** and
**notifications**. Section 1 inventories the whole system, section 2 says how the project is built and
what an extension would take, sections 3 to 9 describe what is there.

To check a module: `tlc -config MCX.cfg MCX`; to check proofs: `tlapm XProofs.tla`.

## 1. Inventory

### How the parts interact

* **HTTP.** Front ends and other services call a module's handlers. A call is retried by its caller,
  so handlers with an effect take an idempotency key or are guarded by a unique index.
* **Outbox and stream.** A handler changes its tables and inserts an event row in one transaction. A
  publisher task of the service polls the outbox table, publishes on NATS and marks the rows. Subjects
  under a JetStream stream are kept; a subscriber's durable consumer redelivers what is not
  acknowledged within `ack_wait`.
* **Deduplication.** Subscribers remember event ids (`event_dedupe`, `processed_events`, a projection
  cursor), each in its own way and at its own place relative to the handler's transaction.
* **Shared tables.** Inside one service, HTTP handlers, consumers and background loops meet in the
  same PostgreSQL tables under READ COMMITTED, with row locks, unique indexes and guarded UPDATEs.
* **Processes.** Several replicas of a service may run over one database and one durable consumer.

### Platform components

| component | state | operations | what is hard | what makes it correct |
|---|---|---|---|---|
| Control plane, provisioning | `tenants`, `provisioning_steps`, `provisioning_outbox` | create, relay, consume, poll, seven steps, retry, fail | two drivers of one tenant, crash between statements, stale reads | no step skipped, active means built, events are true, every tenant settles |
| Control plane, retention and billing | `cp_retention_policies`; a billing run calls AR | upsert; loop of idempotent calls | partial failure of a run | one invoice per tenant and period |
| Tenant registry | `tenants`, plans, bundles, entitlements | CRUD, lifecycle transitions | callers that do not ask it | status moves along the lifecycle only |
| Platform SDK, outbox publisher | `events_outbox`; the NATS client's buffer | select, publish, mark | replicas, failing UPDATE, out-of-order visibility, restart with a full buffer | only committed events sent, marked means sent, cause first, delivered in the end |
| Event consumer | `event_dedupe`, `event_dlq`; a durable consumer | claim, route, retry, dead-letter, acknowledge | redelivery to another worker, crash around the claim | applied at most once, acknowledged only when resolved |
| Platform SDK consumer, registry and DLQ | `event_dedupe`, `failed_events` | the same, in another order | two transactions that may commit apart | as above |
| Projections | read models, `projection_cursors`, shadow tables | apply under a cursor, rebuild, swap | out-of-order redelivery, events applied during the swap | each event counted once, no cursor behind its table |
| Event bus | none of its own | publish, in-memory double, envelopes | - | - |
| Identity and sessions | `refresh_tokens`, `session_leases`, roles | login, rotate, revoke, seat leases | two rotations of one token, seat count under concurrent logins | a rotated token is not used twice, seats stay within the limit |
| Security, audit, doc-mgmt | rate counters; `audit_events`; `documents`, `revisions`, `legal_holds` | filters; append; revise, hold, dispose | disposal racing a hold | nothing on hold is disposed of |
| Blob storage, tax core, contracts, health, config, auth proxy, SDK startup | none or configuration | pure or a client of another service | - | - |

### Business modules

| component | state | operations | what is hard | what makes it correct |
|---|---|---|---|---|
| General ledger | `journal_entries`, `account_balances`, `accounting_periods`, `period_summary_snapshots`, `period_reopen_requests` | post, reverse, accrue, recognize, close, reopen | duplicates, shared balance rows, close against posting | one entry per event, balances equal entries, a closed period is sealed |
| Accounts payable | `vendor_bills`, `ap_allocations`, `payment_runs` | bill, match, select, execute, allocate | two runs, an allocation and a void on one bill | status follows the allocations, a completed run leaves nothing open |
| Accounts receivable | `ar_invoices`, `processed_events`, `ar_dunning_states` | finalize, collect, apply payments, dun | statuses read before and written after a payment, several schedulers | paid only on a confirmed payment, a success is not lost, due rows are escalated |
| Payments | `processed_events`; `payment_attempts` | charge and report, webhook, reconcile, retry | a charge whose outcome is not recorded | one charge per request |
| Subscriptions | `subscriptions`, `subscription_invoice_attempts` | transitions, bill runs | two runs of one cycle | one invoice per cycle |
| Trade and transaction billing (ttp) | `ttp_billing_runs`, `ttp_billing_run_items`, charges | run, bill, mark | crash between item and mark | each charge billed once |
| Numbering | `sequences`, `issued_numbers` | allocate, confirm, expire, recycle | concurrent allocation, expiry racing confirmation | unique, and gap-free where asked |
| Inventory | `inventory_ledger`, layers, `inventory_reservations`, on-hand | reserve, release, fulfil, receive, issue, transfer | compensation read outside its transaction | reserved equals open reservations, never more than available |
| Notifications | `scheduled_notifications`, attempts | claim, send, record, reset orphans | crash between send and record, slow claims | each notification ends, claims are exclusive |
| Reporting, consolidation, treasury, fixed assets | caches, checkpoints, match tables, schedules | ingest, compute, match, depreciate | mostly arithmetic and batches | idempotent runs |
| Production, maintenance, quality, shipping, workflow, timekeeping, workforce | one state machine per row | guarded transitions | several services reacting to one event | legal transitions only |
| Party, bills of material, portal, integrations, pdf-editor | master data, webhook deliveries, file jobs | CRUD, deliver, ingest | retries of deliveries | each delivery attempted and ended |
| Smoke test, vertical proof, apps, clients, packages, tools | - | front ends, generated clients, scripts | - | - |

`PROJECT.json` lists every component with the files that implement it, and the hazards of the code,
each at its line.

## 2. How the project is built, and what is left

Each module is written for proof: named assumptions where a proof needs one, one action per statement
or handler, no recursive operators.

| module | about | composed of / refines |
|---|---|---|
| `Provisioning` | the control plane's tenant provisioning | - |
| `ProvisioningOverlap` | the same, with what two drivers of a tenant and a cut announcement leave behind | extends it; held to `TenantLifecycle` |
| `OutboxPublisher` | the SDK's publisher over NATS | implements `EventDelivery` |
| `EventConsumer` | the JetStream consumer | - |
| `EventPipeline` | publisher, stream and consumer together | composes the two; implements `EventDelivery` end to end |
| `GeneralLedger` | posting, balances, close and reopen | - |
| `Numbering` | allocation, recycling and confirmation of numbers | - |
| `Inventory` | receipts, reservations, issues | - |
| `Collection` | accounts receivable and payments, over the SDK's consumer tasks | composes both services |
| `Dunning` | dunning rows, polls and manual transitions | - |
| `Payables` | vendor bills, allocations, payment runs | - |
| `SessionLeases` | seats and refresh tokens | - |
| `BillRuns` | subscription bill runs and the cycle gate | - |
| `UsageBilling` | billing runs of ttp | - |
| `Notifications` | scheduled notifications and their dead letters | - |
| `Components` | the last nine, and the pipeline's two ends, side by side | one instance of each |

Every module has an `MC` module or is a part of `MCComponents`; the proofs are in the `Proofs` modules
(section 6), those of the components without one of their own in `ComponentsProofs`.

`TenantLifecycle` is the registry's transition table, `EventDelivery` the abstract specification of what an
outbox, and the pipeline as a whole, are for.

What an extension would take, in this order: an append-only ledger that `GeneralLedger` refines and a
counter that `Numbering` refines; `doc-mgmt`'s holds against disposal; shipping's and production's
reactions to each other's events, composed over `EventPipeline`.

## 3. The modules and the code

Every SQL statement outside a transaction is an action of its own, and so is every publish, claim,
acknowledgement and handler; statements inside one transaction are split where another transaction
can see or block them (the ledger's locks). `PROJECT.json` maps each definition to its lines.

### Provisioning (`platform/control-plane`)

| in the model | in the code |
|---|---|
| `status`, `stale`, `createdAt` | `tenants.status`, `updated_at` older than 10 s, `created_at` |
| `steps` | `provisioning_steps.status` |
| `outbox`, `announced`, `inbox` | unpublished rows of `provisioning_outbox`; what went out on NATS; the consumer's subscription |
| `pc`, `cur`, `step`, `attempt`, `batch` | a task's place inside `provision_tenant` and `recovery_loop` |
| `done` | history: steps whose work was carried out |
| `CreateTenant` | `create_tenant` (one transaction) |
| `RetryAdmit`, `RetryReset`, `RetrySteps`, `RetryEvent`, `RetryError` | the statements of `retry_provisioning`, and one of them failing |
| `RelayRow`, `RelayRowUnmarked` | `relay_batch`; a crash or failing UPDATE after the publish |
| `Consume`, `Poll`, `Recover`, `Begin` | `consume_events`, `find_stuck_tenants`, the loop over its rows, the status read |
| `Transition`, `Resume` | the UPDATE to `provisioning`; `seed_provisioning_steps` and `first_pending_step` |
| `MarkInProgress`, `Validate`, `Work`, `Activate`, `Announce`, `StepFails`, `AnnounceFails` | `execute_step_with_retry` and the steps of `steps.rs` |
| `Complete`, `PublishHook` | `mark_step_completed`, `publish_hook_if_needed` |
| `MarkFailed`, `SetFailed`, `FailEvent` | `mark_step_failed`, `fail_tenant` |
| `RunError`, `Crash` | a statement answered with `?`; the end of the process |

`TenantLifecycle` is the transition table of `tenant-registry/src/lifecycle.rs` with creation and retry.
`ProvisioningOverlap` leaves every step as it is and adds two history variables. `crossed` is the tenants
that two workers, or two retry calls, have had in hand at once since they were last put down, or whose
announcement just failed; `cut` is the active tenants whose run ended between the activation and the
INSERT of `tenant.provisioned`. With them one can say what the code keeps although nothing in it excludes the
overlap or the crash.

Abstracted: the work of a step is one action that may fail, whatever databases it loops over; the
relay's publish and mark are one action unless something goes wrong between them (nobody else reads
the mark), in the order of insertion; seeding and the resume query are one action (only a seeding
worker touches absent rows); a crash ends all tasks of the process; a failing first read is a lost
message.

### OutboxPublisher (`platform/platform-sdk/src/publisher.rs`, `platform/event-bus/src/nats_bus.rs`)

| in the model | in the code |
|---|---|
| `row`, `createdAt`, `prior` | the event's row: not there, in an open transaction, rolled back, unpublished, published; its `created_at` (the start of its transaction); history: what was committed before it |
| `todo`, `sent` | the rows of the batch, `published_ids` |
| `buffer`, `stream`, `lost` | messages in the NATS client, on the server; history: lost with a client |
| `Begin`, `Commit`, `Abort` | the handler's transaction around `enqueue` |
| `Select`, `Publish`, `PublishFails`, `EndBatch`, `Mark`, `MarkFails` | the phases of `publish_batch` |
| `Flush` | external: the client's connection task writes what `publish` has queued |
| `Crash` | restart or shutdown of the process |

`EventDelivery` is what an outbox is for: only committed events are delivered, and they stay
delivered. Abstracted: one event per transaction; distinct `created_at`; payloads, subjects and
headers. `NatsBus::publish` calls the client's core `publish`, which queues the message for the
connection task; that client is outside the repository and modelled from this use.

### EventConsumer (`platform/event-consumer`)

| in the model | in the code |
|---|---|
| `stream`, `acked`, `waiting`, `queue` | the stream, its durable consumer, the pull stream of each instance |
| `claimed`, `dlq`, `applied` | `event_dedupe`, `event_dlq`; history: commits of the handler's effect |
| `Produce`, `Deliver`, `Expire` | the server: arrival, (re)delivery, end of `ack_wait` |
| `Receive`, `Poison` | `process_message`: decode, `validate_incoming`, poison to the DLQ |
| `Claim`, `ClaimFails`, `Unclaim` | the statements of `with_dedupe` |
| `HandleOk`, `HandleTransient`, `HandlePermanent`, `Skip`, `Fatal` | `handle_routed` and the router's outcomes |
| `NextAttempt`, `Exhaust` | the retry loop and its end |
| `Ack`, `Crash` | the acknowledgement, possibly lost; the end of the process |

Abstracted: a handler's effect is one transaction, committed exactly when it returns `Ok`; backoff is
the time in which `Expire` may happen; health counters, `last_seen_at` and redaction are left out.

### EventPipeline

`ProducerStep` is any step of `OutboxPublisher`, `ConsumerStep` any step of `EventConsumer` except
the arrival of a message, which is the producer's `Flush`: the variable `stream` is shared, everything
else belongs to one side.

### GeneralLedger (`modules/gl`)

| in the model | in the code |
|---|---|
| `posted` | how many `journal_entries` have a `source_event_id` |
| `processed` | `processed_events` |
| `balance`, `staged`, `holder` | `account_balances`: the committed version, the newest one, and the transaction that wrote it |
| `closed`, `closeHash` | `accounting_periods.closed_at`, `close_hash`: the entries it covers, the balance rows it counts |
| `summary`, `request` | `period_summary_snapshots`, `period_reopen_requests` |
| `periodLock`, `keyShare` | `FOR UPDATE` on a period; the foreign key's share lock of a new balance row |
| `Begin`, `FindPeriod`, `PeriodClosed` | the checks of `process_gl_posting_request` and `create_reversal_entry` before and in their transaction |
| `InsertEntry`, `DuplicateEntry`, `SameEvent` | `insert_entry` and the unique index on `source_event_id` |
| `UpsertBalance`, `NextRows` | `update_balances_from_journal` and `tx_upsert_rollup`, in the order of `compute_deltas` |
| `Commit`, `Abort`, `Release`, `Install` | the end of a transaction |
| `PostDirect` | `create_accrual_instance`, `accruals_reversal`, `recognize_single_line` |
| `BeginClose`, `Revalue`, `CommitClose` | `close_period`, `revalue_foreign_balances` |
| `Snapshot`, `CountRows` | the two reads of `create_close_snapshot`: the totals of the entries, and then the number of balance rows |
| `RequestReopen`, `ApproveReopen`, `RejectReopen` | `period_reopen_service.rs` |

Abstracted: amounts and currencies. A balance row is how often it counts each entry, which is what the
properties ask; a close hash is the set of entries and of balance rows it was computed from (the code's
covers their numbers and totals), as two statements of one transaction read them: a posting may commit in
between. The revaluation is posted at most once per period and skipped when a period is closed again.
Retries and dead-lettering of the GL consumers are a request that begins again. What may only refuse -
account validation, the close checklist, the DLQ gate - is `Abort`. A reversal's period is a constant: the
two readings of the clock fall into one period.

### Numbering (`modules/numbering`)

| in the model | in the code |
|---|---|
| `counter`, `gapFree` | `sequences.current_value`, `gap_free` |
| `issued` | rows of `issued_numbers`: reserved, expired (a reserved row past its `expires_at`) or confirmed |
| `pc`, `req`, `number`, `recycled` | an allocation's or confirmation's transaction |
| `Ask`, `NoSequence`, `Recycle`, `Advance`, `IsGapFree`, `Record`, `Abort` | `allocate`, with `allocate_next_value` |
| `FindReservation`, `Confirm` | `confirm` |
| `Expire` | time |

No index makes a number unique; the row locks do (`SequenceLocked`, `RowLocked`).

### Inventory (`modules/inventory`)

| in the model | in the code |
|---|---|
| `layers`, `onHand`, `reserved` | sum of `inventory_layers.quantity_remaining`; `item_on_hand` of the null location |
| `primary`, `compensated`, `returned` | rows of `inventory_reservations`: what a key reserved, how many rows compensate it, and by how much |
| `stored` | `inv_idempotency_keys` |
| `Receive` | `process_receipt` |
| `CheckAvailable`, `Reserve` | `process_reserve`: the locked check, and the commit |
| `CheckOpen`, `Release`, `Fulfill` | `process_release`, `process_fulfill`: the check outside the transaction, and the transaction |
| `CheckLayers`, `Issue` | `process_issue`: the layers are locked, the projection is only read |

### Collection (`modules/ar`, `modules/payments`, `platform-sdk/src/consumer.rs`)

| in the model | in the code |
|---|---|
| `status`, `byHand`, `announced` | `ar_invoices.status`; history: set to paid by a request; outbox rows of `ar.invoice_paid` |
| `asked`, `outcomes` | `payment.collection.requested` and `payment.succeeded` / `failed` events, each delivered in any order and any number of times |
| `intents` | payment intents the provider has confirmed, each of a request: succeeded, still processing, or failed after it |
| `handled`, `task` | `processed_events` of each service; its consumer task with event and attempt |
| `CreateInvoice`, `ReadInvoice`, `UpdateInvoice`, `FinalizeInvoice` | the HTTP operations, which read the status before their transaction |
| `Take`, `Duplicate`, `Fail`, `Crash` | `wire_consumers` and `retry_with_backoff` |
| `Charge`, `Report` | `process_payment`, which takes `succeeded` and `processing` for a success (`processor.rs:135`), and the outbox row of its outcome |
| `Settle` | external: the provider ends the processing, with the money or without |
| `ApplyPayment`, `Mark` | `handle_payment_succeeded`, the record of the event |

### Dunning (`modules/ar/src/dunning*`)

`state` is `ar_dunning_states.state`; time is kept as the order of `next_attempt_at` (`queue`) and how much
of it is past (`due`). `InitDunning`, `TransitionDunning` are the engine's operations; `Claim` (FOR UPDATE
SKIP LOCKED of the earliest due row), `Escalate`, `LeaveAlone` and `Fail` are `claim_and_execute_one` and
`poll_and_execute_batch`; `Tick` is the clock.

### Payables (`modules/ap`)

| in the model | in the code |
|---|---|
| `status`, `allocated` | `vendor_bills.status`, the rows of `ap_allocations` |
| `run`, `items` | `payment_runs.status`, `payment_run_items.bill_ids` |
| `added`, `paid` | what an execution has inserted and updated and not committed |
| `Match`, `Approve`, `Void` | `run_match`, `approve_bill`, `void_bill`, each under the bill's lock |
| `Ask`, `LockBill`, `Apply` | `apply_allocation` |
| `SelectBills`, `InsertRun` | `create_payment_run` |
| `LockRun`, `ReadBalance`, `InsertAllocation`, `MarkBillPaid`, `CompleteRun` | `execute_payment_run`, one transaction |

An execution is all or nothing, so the committed `executing` and `failed` never appear. `Free` and `Shared`
are the locks: a foreign key's share of the bill keeps FOR UPDATE waiting, and is kept waiting by it.

### SessionLeases (`platform/identity-auth`)

`tokens` and `leases` are `refresh_tokens` and `session_leases`; `revived`, which no column records, marks a
lease refreshed after it had lapsed. `AcquireTenantLock`, `CountLeases`, `CreateLease` are a login under the
tenant's advisory lock; `ReadToken`, `RotateLease` a refresh; `RevokeToken`, `RevokeLease` a logout;
`ResetPassword`, `DeleteLeases`, `DeleteTokens` a reset; `Lapse` the 30 minutes.

### BillRuns (`modules/subscriptions`)

`nextBill` and `attempt` are `subscriptions.next_bill_date` and `subscription_invoice_attempts`; `invoiced` and
`finalized` are what accounts receivable has. `Start`, `Gate`, `Skip`, `CreateInvoice`, `FinalizeInvoice`,
`MarkSucceeded`, `MarkFailed`, `AdvanceNextBill`, `StatementFails` and `Over` are the steps of
`execute_bill_run` and `create_gated_invoice`. A call to accounts receivable is done or not, and answered
or not; a run may end anywhere (its caller's `?`, or the process).

### UsageBilling (`modules/ttp`)

`run`, `item`, `charge` are the tables of the same names, `invoices` what accounts receivable has. The
actions are the statements of `run_billing`, `execute_run` and `bill_party`, each of which commits by itself;
two callers may drive one run.

### Notifications (`modules/notifications`)

`status`, `retryCount`, `generation`, `stale` are columns of `scheduled_notifications`, `attempts` is
`notification_delivery_attempts`. `ResetOrphans`, `ClaimDue`, `Send`, `RecordAttempt`, `DuplicateStored` and
`Abandoned` are `dispatch_once`; `ReplayDlqItem` and `AbandonDlqItem` the operations on dead letters;
`GrowStale` the five minutes after which a claim counts as an orphan, whether or not its dispatcher lives.

### Components and MCComponents

The components above from `Numbering` on do not share a variable, so exploring them together would only
multiply their states. `part`, chosen by the initial state, says whose steps are taken; the others stay
as they begin. Each property speaks of one component, so a run or a theorem about this system says of each
component what one about it alone would, and the product adds nothing. `Numbering` is extended, the others are
instances; where a component has a proof module, that is instantiated, so that its theorems can be cited.
Two parts are the publisher and the consumer; in the run they have one process each, which is what
`CauseFirst`, `EventuallyDelivered` and `EventuallyResolved` need.

## 4. The runs

Faults are counted: each behaviour has at most `MaxFaults` of the kinds in `FaultKinds`. Deadlock
checking is off everywhere because a system whose work and bounds are used up may rest.

| run | specification and bounds | states | shows |
|---|---|---|---|
| `provisioning` | `OverlapSpec`: one tenant, NATS consumer, recovery poller, two retry calls, 3 steps, 2 attempts, 1 fault of crash, step and statement | 3 057 609 | `NoStepSkipped`, `ActiveOnlyWhenBuilt`, `EventsTellTheTruth`, `AnnouncedUnlessCut`, `LifecycleUnlessCrossed` over every interleaving of two drivers and two retry calls |
| `provisioning_serial` | `FairSerialSpec`: one retry call, step 2 with a hook, 2 faults of crash, step, statement and bus | 36 145 | `CompletedStepsKept`, `SettlesEventually` when the drivers do not overlap |
| `provisioning_stuck` | `FairSpec`: no fault at all | violation | a tenant that never settles |
| `outbox` | `Spec`: 2 events, 2 publishers, batch of 2, 2 faults of bus, statement, crash | 546 903 | `MarkedWasSent`, `CopiesBounded`, `DeliverySpec` |
| `outbox_loss` | `Spec`: 1 event, 1 crash | violation | a marked event that is lost |
| `consumer` | `Spec`: two events to be handled, one of each other kind, 2 workers, 2 messages, 2 attempts, 3 faults of ack, crash, statement, slowness | 4 675 526 | `OneHandler`, `AppliedOnce`, `FatalNotApplied`, `LossesBounded` |
| `consumer_crash` | `Spec`: 1 event, 1 crash | violation | an acknowledged event nobody handled |
| `pipeline` | `FairSpec`: 1 event, 2 publishers, 2 workers, 2 messages, 2 attempts, 1 fault on each side | 325 017 | `EffectSpec`, `EventuallyHandled` |
| `ledger` | `Spec`: 2 open transactions, 2 postings, a reversal, an accrual, 2 periods, 2 accounts, 2 reopen requests | 1 493 963 | the six ledger properties below |
| `ledger_sealed` | the same instance | violation | a closed period that changes |
| `components` | `SystemSpec`: the parts below, one at a time | 470 703 | the properties of the parts |
| `collection_double` | `Spec` of `Collection`: one invoice, one request | violation | a request that is charged twice |

The parts of `components`:

| part | bounds | shows |
|---|---|---|
| numbering | 1 entity, 3 keys, 2 workers | `NoGapNoDuplicate`, `ConfirmedKept` |
| inventory | 4 keys, 2 workers, 2 units received | `ReservedIsSumOfRows`, `ReservationCovered` |
| collection | 1 invoice, 1 HTTP request, 2 attempts of an event, 1 request for collection, 2 outcomes, 2 intents | `PaidMeansConfirmed`, `HandledMeansAnnounced` |
| dunning | 2 invoices, 2 workers, 1 fault | `EscalatedUnlessBlocked` |
| paying | 2 bills of 2 and 1 units, of 2 vendors, 2 allocations by hand, 1 run | `PaymentsAgree` |
| sessions | 1 user, limit of 1, 3 tokens, 2 workers | `SeatsNotOversold` |
| bill runs | a monthly and a weekly subscription, 2 runs, months of 2 weeks, dates 0 to 3 | `InvoicedOncePerCycle`, `NoPeriodSkipped` |
| usage billing | 2 parties, one with an agreement, 1 charge, 1 period, 2 callers, 3 invoices | `CompletedIsInvoiced` |
| notifications | 1 notification, 2 dispatchers, 2 attempts, 1 replay | `AttemptsAgree`, `FinalIsFinal` |
| relay | 3 events, one unsendable, 1 publisher, batch of 2, 1 failing statement | `CauseFirst`, `EventuallyDelivered` |
| subscriber | an event of each kind, 1 worker, 2 messages, 2 faults of ack and slowness | `EventuallyResolved` |

`TypesOK` is the conjunction of their type invariants.

Why these bounds are enough to mean something:

* *Provisioning.* The seven steps differ only in being first (fatal, reads the status), last
  (fatal, activates) or between (retried, hook or not); three steps have all of these. Overlap needs two
  workers; two retry calls race each other and the workers, which `provisioning` has with a single fault and
  no hook, and `provisioning_serial` without the race but with a hook and two faults, a crash during the
  recovery from another fault. That hooks tell the truth when drivers overlap is left to the theorem
  (`EventsAreTrue`). Tenants share only the batch of the poller, so one tenant suffices for what the
  properties say; the theorems hold for any number.
* *Outbox.* Two rows make a batch partly sent and order visible, two replicas read the same rows,
  two faults allow a failed UPDATE on top of a failed publish or a restart. In the relay part, the third
  row is one that can never be sent, with a batch that holds one more.
* *Consumer.* Two positions of one event are a copy, and each may be redelivered; two workers meet
  at the claim; two attempts have a first, a retry and an end. Three faults let a slow handler, a lost ack
  and a crash meet. Of the two ordinary events one may be lost while the other is copied.
* *Ledger.* Every lock conflict is between two transactions; the two postings share both of their
  balance rows; the reversal is in another period than its target; two requests allow a period to be
  closed, reopened, closed and requested again.
* *Numbering, inventory.* Two transactions meet at a lock; a third key lets a number be issued, expire and
  be taken over while another is asked for. Two units are enough to reserve, compensate and issue in any
  order, and a fourth key to compensate one reservation twice.
* *Collection.* Two attempts are one that fails and its repetition; two intents and two outcomes let a
  payment fail and succeed, be still processing, be reported twice and be applied out of order. Intents of
  one request are bounded because the code does not bound them, which is what `collection_double` shows. Two
  finalizations that ask twice are left to the theorem (`PaidIsConfirmed`).
* *Dunning, payables, sessions, billing.* Each has one contended row more than it needs to be
  contended: two due rows for two schedulers, a bill that takes two payments, a seat and two logins, two
  kinds of cycle for two runs, two callers of one billing run. `BillRuns` has dates up to 3, two months. The
  payment run meets two allocations by hand; runs that meet each other are left to the theorem
  (`PaymentsConsistent`), which has any number of them.

The six ledger properties: `PostedOnce` (one entry per event), `BalancesAgree` (each balance row counts each
entry posted with it once), `RowsSealedAtClose` (the balance rows a hash counts are those of the period when
the close commits, though postings that found it open go on), `PendingRequestIsCurrent` (a pending reopen
request is alone and names the current close), `PostingsNeverDeadlock`, and `CloseIsFinal` (a close is
undone only by approving a request that names it).

What the other properties say:

* `NoGapNoDuplicate`: the numbers of an entity are 1 to its counter, each issued once.
  `ConfirmedKept`: a confirmed number stays with its key.
* `ReservedIsSumOfRows`: `quantity_reserved` is what the rows say, as long as no reservation is compensated
  twice. `ReservationCovered`: what is reserved is on hand when a reservation commits, not only when checked.
* `AnnouncedUnlessCut`: an active tenant is announced, unless its run ended between the two statements.
  `LifecycleUnlessCrossed`: only two workers or two retry calls on one tenant, or the failing announcement,
  move it off the registry's lifecycle, and it keeps to it again once it has been put down.
* `LossesBounded`: an event is lost to a consumer only by a fault, and each fault loses at most one.
* `PaidMeansConfirmed`: an invoice is announced as paid, or paid otherwise than by hand, only after the
  provider confirmed a payment intent of it. The intent may still be processing and fail later: that the
  money came is not something the code keeps.
  `HandledMeansAnnounced`: a success recorded as processed was announced, unless the invoice was set to paid
  by hand.
* `EscalatedUnlessBlocked`: a row that is due does not stay so for ever, unless a suspended row is before it.
* `PaymentsAgree`: a bill's status follows from its allocations, allocations by hand stay within the bill,
  and a completed run leaves nothing open of the bills it picked.
* `SeatsNotOversold`: active leases, those refreshed after they had lapsed aside, are within the limit.
* `InvoicedOncePerCycle`, `NoPeriodSkipped`: a subscription has at most one invoice per month, and its date
  passes only dates that were billed and finalized.
* `CompletedIsInvoiced`: a completed run has invoiced every agreement.
* `AttemptsAgree`: the retry count is the number of failed attempts of this generation, and a success is on
  record exactly for what is sent. `FinalIsFinal`: only dead letters leave their status, replayed or abandoned.

## 5. Fairness

| assumed | because |
|---|---|
| `RunStep`, `TakeUp` of every provisioning worker | both tasks loop for ever and every call in them returns |
| `RelayRow` | the relay loop ticks for ever |
| `GrowStale` | time passes |
| a publisher's batch steps and `Flush` | the interval ticks for ever, every statement and publish ends in a result, the client's task keeps writing |
| a consumer's `WorkerStep` | the loop runs for ever and every call returns |
| `Claim`, `Escalate`, `LeaveAlone` of every dunning worker | polls are called for ever and a transaction ends |
| `Deliver`, and `Expire` of a message nobody holds | the server redelivers what is neither acknowledged nor waiting, and `ack_wait` ends |

All of it is weak fairness. Nothing is assumed of transactions (they need not commit), of callers
(nobody must create or retry), of handlers (they may fail at every attempt), or of faults.

`FairSerialSpec` assumes in addition that no two workers are on one tenant at a time. A comment at
`provisioning/mod.rs:119` says that the age filter is there to avoid this race; it makes it unlikely and
does not exclude it. What the overlap breaks is recorded rather than hidden: without the assumption
the drivers move a tenant back to `provisioning` (`mod.rs:169` updates unconditionally after a read), and
`provisioning_stuck` shows what follows. Two retry calls at once break the lifecycle in the same way
(`retry_provisioning.rs:66`). `LifecycleUnlessCrossed` is about `OverlapSpec`, which assumes none of this.

## 6. What is proved

Theorems are of `Spec`, those of `ComponentsProofs` of `SystemSpec`, two of provisioning's of `OverlapSpec` and
one of `SerialSpec`, for every value of the constants that satisfies the named assumptions
(`TenantsAssumption`, `StepsAssumption`, `BoundsAssumption`,
`OutboxAssumption`, `ConsumerAssumption`, `PipelineAssumption`, `LedgerAssumption`, `SystemAssumption`): any
number of tenants, steps, replicas, events, workers, attempts, periods, accounts, entities, keys, invoices,
charges, bills, runs, notifications, faults. The assumptions say what is a number, that what the database
holds is finite, that bounds of attempts are positive, and that sets which the code keeps in tables of their
own are disjoint; TLC evaluates each on a run. Collection and Notifications have theirs as hypotheses of the
theorems, because `Components`, which gives them their constants, has them in `SystemAssumption`.

Every invariant, action property and refinement that a passing run checks is stated by a theorem.

* **`ProvisioningProofs`** - `TypeCorrect`, `NothingSkipped`, `ActiveMeansBuilt`, `EventsAreTrue`.
  None of these is inductive: a worker that overwrites a step's row with `completed` is right because of
  what it did before. `RunHasBuilt` says what a worker's place implies: the steps before its own are
  carried out, and its own too once it is past executing it. It survives the other workers because
  `done` only grows (`DoneGrows`), however they overwrite statuses. `BuiltInv` is the conjunction; one
  lemma says which action can complete a step (`OnlyCompleteCompletes`), activate a tenant
  (`OnlyActivateActivates`) and write an event (`NewEventJustified`).

  `StepsKept` is of `SerialSpec` (section 5), without which it is false. `RecordInv`: the completed steps of
  a tenant are its first ones, and a worker's place tells how many (`KnowsRecord`), so it marks a row in
  progress or failed only where that row is not completed.

  `LifecycleKept` and `AnnouncementKept` are of `OverlapSpec` and have no hypotheses: any number of workers and
  retry calls on any tenants, and any faults. `CrossedInv`: a tenant in two hands is crossed, and
  whoever has an uncrossed one knows its status, a worker by its place (`KnowsStatus`), a retry call because
  it found the tenant failed (`KnowsFailed`); he is alone with it, so nobody has written it since
  (`StatusWrites`, `StatusHeld`, `FailedHeld`). `AnnouncedInv`: only an activation makes a tenant active, and
  it leaves its worker about to announce (`OnlyActivateActivates`); from there the event goes on to
  the outbox and to the stream (`EventStays`, `AnnouncingGoesOn`) or the tenant is cut.
* **`OutboxPublisherProofs`** - `TypeCorrect`, `MarkedWasHandedOver`, `UncommittedNeverSent`,
  `ImplementsDelivery`. `MarkInv` adds that `published_ids` holds only what was handed to the client, which
  never becomes false (`HandedStable`: in the buffer, then in the stream, or lost). `CommitInv` adds that
  fetched rows are committed, and committed rows stay so (`CommittedStable`). The refinement maps `Commit`
  to `Accept`, `Flush` to `Deliver` and all else to a stutter.
  `BoundedCopies` has `CopiesInv`: each message of an event, on the stream or still in a buffer, is owed to
  another publisher that will not publish it again (it is in `published_ids`, or the row is marked and out of
  the batch) or to a fault. `CauseBeforeEffect` is under `OnePublisher` (one publisher, and no fault but
  failing statements), without which it is false; `CauseInv` says that what is in the batch, in the buffer
  or in the
  stream has its causes in front of it, which holds because `created_at` orders them in every batch.
* **`EventConsumerProofs`** - `TypeCorrect`, `HandlerExclusive`, `AppliedAtMostOnce`, `FatalIsFinal`,
  `LossesAreBounded`.
  `ClaimInv`: a worker at the handler owns the event's claim, owners are unique, and an applied or
  fatally dead-lettered event is settled: claimed, and with no owner. A settled event stays settled
  (`SettledStable`), because only an owner removes a claim. `DeadInv`: what is claimed is in the stream, and
  the events in the stream that nothing will be done about any more are no more than the faults; each
  action leaves an event alive that was so, but for a fault, which is in the hands of one worker.
* **`EventPipelineProofs`** - `VanishedAreBounded`, `ImplementsDelivery`. The composition implements each
  side (`ProducerSpec`, `ConsumerSpec`), so their invariants carry over; an effect comes from a message in
  the stream, which only holds committed events, and an event whose messages are all acknowledged without
  effect is one the consumer has lost (`LossesAreBounded`).
* **`GeneralLedgerProofs`** - `TypeCorrect`, `NeverPostedTwice`, `BalancesNeverDrift`, `SealsAreSound`,
  `RowsAreSealed`, `RequestsAreCurrent`, `ClosesAreFinal`, `NoDeadlock`. The invariant is `Inv == TypeOK /\
  Balances /\ Sealing`. `Balances`: a balance row has at most one uncommitted version, its holder's, and it
  is the committed one plus the holder's event where that is done (`Versions`, `Updated`); of transactions
  with one event only one is writing (`Exclusive`), and it is not posted yet. Two lemmas do the work: a
  rollback and a commit keep it (`RollbackKeepsBalances`, `InstallKeepsBalances`). `Sealing`: a close holds
  the lock of its period from its look at `closed_at` to its commit, so neither another close nor a reopen
  comes between; what it has seen stays posted (`EntriesStay`). `RowsAreSealed` has `Counting`: who has
  written a new balance row holds a key share of its period, so while a close holds the period, no row
  appears but its own. `NoDeadlock` rests on `Ordered`: a transaction has updated the rows before those it
  still has to, so of a group in which each waits for another, the one that waits for the highest account
  waits for a holder that is past it and would have to wait for a higher one (`NoCycle`).
* **`CollectionProofs`** - `TypeCorrect`, `PaidIsConfirmed`, `HandledIsAnnounced`. `CollectInv` follows the
  causes backwards over both services and the stream: a task past the charge has a confirmed intent
  (`TasksSound`), a success has one (`SuccessConfirmed`), an announced or paid invoice has one or was set by
  hand (`AnnouncedConfirmed`, `PaidAccounted`), and a task about to record an outcome has announced it
  (`MarkSound`). An intent changes its status, but no step takes it or an announcement back.
* **`NotificationsProofs`** - `TypeCorrect`, `RowsAgree`, `FinalStays`. `NotifyInv`: of several dispatchers
  with one row in hand, those
  whose attempt is not on record have the row as it is, and it is not final (`ClaimsCurrent`): recording an
  attempt is what changes the row, and the others find it on record. Attempts are of no later generation
  than the row (`AttemptsPast`), and the failed ones are the retry count (`Counted`).
* **`ComponentsProofs`** - one theorem for each invariant and action property of the `components` run, and
  `TypeCorrect`. Whichever component moves, each behaves as its own specification (`StockRuns` and its like: its
  steps, or a stutter), so each is proved by itself and cited at the end. Collection, Notifications,
  publisher and
  consumer are cited from their modules, the others have a section here:
  * *Numbering*, `NumbersAreDense`, `ConfirmedStays`: `NumberInv`. Beside density
    and uniqueness of what is issued, the row of an entity's counter is locked by one transaction
    (`LockExclusive`), so the number it holds is the next one and no row has it (`NextInHand`); a recycled row
    is expired and locked until its new holder is written (`ChosenExpired`), and no confirmation has it in
    hand (`ChosenNotHeld`).
  * *Inventory*, `ReservedIsSum`, `ReservationsCovered`: `StockInv`. Between check and commit a reservation
    holds the row lock of the stock and an issue those of the layers (`OneAt`), so what it checked still holds
    (`StockJob`); a compensation gives back no more than its reservation took, unless it is the second
    one (`StockRow`).
  * *Sessions*, `SeatsBounded`: `SeatInv`. Under the tenant's advisory lock at most one login counts and
    inserts, and what the others do meanwhile only frees seats, revived leases aside (`Occupied`).
  * *Bill runs*, `InvoicedOnce`, `NothingSkipped`: `BillInv`. The gate of a month stays shut from the first
    attempt on (`GateShut`), so one run at most is past it with a subscription (`OneRunEach`) and at its next
    date (`AtNextDate`); dates behind were billed (`BilledUpTo`).
  * *Usage billing*, `BilledOnInvoice`, `CompletedOnInvoice`: `UsageInv`. Of a call that is still going on,
    every agreement without an item is in its remaining work or in its hands (`Covers`), and the invoice in
    its hands is of its party and its charges (`CallInvoice`).
  * *Payables*, `PaymentsConsistent`: `PayInv`. An allocation by hand holds the lock of its bill, so that its
    balance stays as read (`HoldsBill`); a run's bills are served one by one (`Served`), by rows
    that cover what is open whatever others pay meanwhile (`Inserted`), and an uncommitted status is the only
    one (`Updating`). Only the last step of either changes committed tables.
  * *Dunning*: only its types; its property is a liveness property.

  *Sums over sets.* `ReservedIsSumOfRows`, `InvoicedOncePerCycle` and `PaymentsAgree` are about sums, which
  `SumFunctionOnSet` defines by recursion over a set. That the recursion has a solution, and that a sum
  does not depend on the order, is not an induction here but a smallest counterexample: among the subsets
  for which the fact would fail one has no failing subset of its own (`MinimalSubset`, from the well-founded
  order of subsets), and that one cannot fail. `SumUpdate`, `SumRemove` and their neighbours are what the
  components cite.
  The finite-set lemmas of an instance are about its own copies of the operators, which
  `StockSum`, `BillSum` and their like identify. The module takes tlapm about eleven minutes.

Each inductive invariant was checked by TLC on the instances above before it was proved.

## 7. What is only model-checked

Liveness (`SettlesEventually`, `EventuallyDelivered`, `EventuallyResolved`, `EventuallyHandled`,
`EscalatedUnlessBlocked`) is out of the prover's reach.

Proved and not run, because a proved statement is not worth a second search: `SealedEntriesExist` (a hash
covers committed entries of its period), `VanishedBounded` (an event vanishes from the pipeline only by a
fault of its consumer), `BilledIsInvoiced` (a charge marked billed is on a finalized invoice of its party) and
`TypeOK` of provisioning, publisher,
consumer, ledger, `Collection` and `Notifications` by themselves.

## 8. Where the code departs from what it says

* **`provisioning_stuck`** (`control-plane/src/provisioning/mod.rs:215`). Consumer and poller take up one
  tenant; one activates it; the other, which has read `pending` before, sets it back to `provisioning` and
  finds every step completed. It logs "all steps completed - activating" and returns without doing so.
  Every later poll does the same.
* **`outbox_loss`** (`event-bus/src/nats_bus.rs:53`). Rows are marked while their messages are in the
  client's memory; a restart there loses them. `platform/event-bus/README.md:24` promises at-least-once
  delivery. What holds is `MarkedWasSent`: handed over, or lost with a client.
* **`consumer_crash`** (`event-consumer/src/idempotency.rs:45`). The claim commits before the handler
  runs. A crash in between leaves it, and the redelivered message is acknowledged as a duplicate;
  `idempotency.rs:22` says exactly once, `jetstream.rs:9` that a message is acknowledged only when resolved.
  What holds is at most once and at most one loss per fault (both proved), and resolution as long as no
  process ends and no guarding
  statement fails (`EventuallyResolved`).
* **`ledger_sealed`** (`gl/src/accruals.rs:269`, `accruals_reversal.rs:154`, `revrec/recognition_run.rs:195`).
  These paths insert entries without looking at the period. `GL-MODULE-SPEC.md:337` and `:93` say a closed
  period takes none.
* **`collection_double`** (`payments/src/handlers.rs:29`). The handler charges and then writes the outcome, and
  the event is recorded as processed last. A failure in between makes the SDK's consumer run it again, and
  neither an idempotency key nor a row of `payment_attempts` stops the second charge.
  `PAYMENTS-MODULE-SPEC.md:74` says that deterministic keys are sent to the provider and a payment cannot be
  charged twice, `:105` that processing is idempotent. What holds is `PaidMeansConfirmed` (proved).

Known behaviours of the code that no run is devoted to:

* Rows that can never be sent starve the publisher once they fill a batch (`publisher.rs:257`): no
  attempt counter, no dead-lettering. `EventuallyDelivered` holds with fewer.
* A crash between activation and its outbox row leaves an active tenant nobody hears of (`steps.rs:366`);
  where that row cannot be written, `fail_tenant` fails the tenant that is active already.
* Two retry calls that both found a tenant failed move it out of `provisioning` or `active`
  (`retry_provisioning.rs:66`), as does a second driver (`mod.rs:169`).
* The results of writing the DLQ row and of removing the claim are discarded (`jetstream.rs:280`,
  `idempotency.rs:79`); the message is acknowledged all the same.
* A posting that found its period open may commit after the close (`journal_service.rs:91`): its key
  share of the period is taken only when a balance row is new.
* Summaries keep the first close's totals after a reopen and a second close
  (`period_close_snapshot.rs:194`).
* An entry may be reversed twice by two requests (`reversal_service.rs:77`).
* A close and a posting may deadlock (the revaluation takes balance rows in another order); the
  database ends one of them, which is `Abort`.
* `account_balances` never counts entries made by the direct paths; `BalancesAgree` says so.
* Two requests may compensate one reservation (`reservation_service.rs:300`); `GREATEST(0, ...)` hides the
  second. A partial fulfilment leaves the rest of the reservation counted. An issue reads `reserved`
  without a lock and overwrites the on-hand row.
* An invoice paid between the read and the update of an HTTP request may be written back to open, and two
  finalizations that both find a draft each ask for the payment (`ar/src/domain/invoices/service.rs:268`).
* A payment intent that is still processing counts as a success (`payments/src/processor.rs:135`; `:198` of
  the same file calls that status unknown), and a decline that follows is never learnt.
* A payment event whose attempts are exhausted is only logged (`ar/src/main.rs:42`).
* A suspended dunning row is claimed first by every poll and keeps later rows waiting.
* Refreshing a lease that has lapsed revives it without counting seats.
* A cycle whose gate row was left by a failed or crashed run is never billed again; the gate's key is the
  month, also for weekly subscriptions.
* Charges left pending by a crash after their item was invoiced are billed again, and so is an agreement
  whose finalization was made and not answered (`ttp/src/domain/billing.rs:236`).
* A notification whose dispatcher crashed after the send is sent again.
* Two runs, or a run and an allocation, may overpay one bill: the run reads the open balance without a
  lock (`payment_runs/execute.rs:110`). A run also pays a bill voided after it was picked, although
  `bills/void.rs:3` says that voiding prevents further allocations. A run with an item whose bills were all
  paid otherwise can never complete (`execute.rs:143`): it records the amount 0, which a CHECK refuses.

## 9. What is not modelled

* *Library code no service calls*: the projections' cursor and swap, the SDK's event registry and
  dead-letter helpers, payments' lifecycle, webhook and reconciliation functions
  (`payments/src/lifecycle.rs`). Only tests run them, so the order of their calls is not in this code.
* *Of a shape already modelled*: document management's relay and the audit bridge (the publisher's batch,
  the consumer's loop), reporting's checkpoints (projections), depreciation runs (billing runs).
* *One guarded row at a time*: production, maintenance, quality, shipping, workflow, timekeeping,
  workforce, party, bills of material, portal, registry CRUD. A unit test reaches their transitions.
* *Pure computation or another system's client*: tax core, treasury matching, consolidation, blob
  storage, pdf-editor, password hashing and tokens, health, configuration.
* *Of the modelled parts*: the idempotency-key replay of `create_tenant`, the multi-tenant loop of the
  publisher (the same batch once per table), listing the DLQ, and the ledger's reports, exports, rates,
  schedules and contracts.
