# Binance Pay connector: specification and proofs

TLA+ models of the connector, TLC runs that check them on small instances, and
TLAPS proofs for every value of the constants. `src/` below is the repository.

## 1. Inventory

The connector takes payment, cancel and refund commands from the DinaPay routing
service, carries them out at Binance Pay, learns the status of each order by
webhooks and by polling, and sends normalized events to the orchestrator. All
state that outlives a request is in PostgreSQL; any number of replicas may run
on the same database.

| Component | State it keeps | Operations | Talks to |
|---|---|---|---|
| HTTP transport `internal/transport/httpapi/server.go` | none | the routes; authentication, correlation ids, error mapping | calls the service, verifies webhooks |
| Payment creation `app/service.go` Create, `postgres/store.go` | `binancepay_v2_operations`, insert into `binancepay_v2_orders` | ReserveCreate, FailCreate, CompleteCreate | provider CreateOrder |
| Payment status: Get, Cancel, `app/webhook.go`, `app/reconciler.go` | `binancepay_v2_orders`, `binancepay_v2_inbound_events`, insert into `binancepay_v2_event_outbox` | UpdateStatus, UpdatePaymentObservation, Claim, Retry, RecordProviderEvent | provider QueryOrder, CloseOrder, its notifications |
| Worker pool `parallelEach` | one channel, one WaitGroup | hand over, work, cancel, return | the reconciler |
| Publisher `adapters/publisher/publisher.go` | `binancepay_v2_event_outbox` | PendingEvents, MarkPublished, MarkFailed | orchestrator |
| Refunds `app/service.go`, `postgres/store.go` | `binancepay_v2_refunds` | ReserveRefund, CompleteRefund, FailRefund, FindRefund | provider RefundOrder, QueryRefund |
| Provider client, webhook verification `internal/binancepay` | none | signed calls; VerifyWebhook, ParseWebhook, AmountsEqual | Binance Pay |
| Lifecycle `cmd/connector/main.go` | the root context | start (with the migration), shutdown | everything |
| Metrics `internal/observability/metrics.go` | six maps behind one RWMutex | the observations, SetPersistent, Handler | told by every component, read by /metrics |
| Core types and ports `internal/core` | none | | |

What is hard here:

- *Nothing locks a row across a provider call.* GET, cancel, the webhook handler
  and every replica's reconciler read the provider (or a notification) in one
  step and write the row in a later one. A slow writer may overwrite what
  another has stored in between.
- *Every call may be lost half way.* The provider may have acted although the
  connector sees an error; a commit may succeed although its result is lost;
  many errors of the store are dropped on purpose; a replica may die anywhere.
- *Two sources tell of the same outcome* with different event ids, out of
  order, repeatedly, before the row exists, or after it was settled.
- *The queue has no lock*: replicas read the same outbox rows.
- *Progress rests on timestamps in the tables*: a claim reserves a row for one
  minute, a failure puts it off, and nothing else brings it back. Batches may
  last longer than that minute.
- *A signal may come at any moment of start, service and shutdown*, and main
  waits neither for the loops nor for Shutdown.
- *Plain maps are shared* by handlers, loops and scrapes; Go ends the process
  for one access outside the lock.

What makes each component correct:

- creation: one provider order per idempotency key; what a 201 says is stored
  and stays so;
- status: open rows stay scheduled, settled rows are not polled; nothing is
  stored or emitted that the provider did not report; sources agree; an
  acknowledged notification is durable; an outcome is learnt in the end;
- publisher: at-least-once delivery, duplicates only for a reason, no
  starvation by refused events;
- pool: each item handled once, no worker outlives the call, the call returns;
- refunds: no refund of the provider without a row; answers, rows and GET agree
  with the provider; a settled row is not touched again;
- webhook route: exactly the genuine notifications pass, what contradicts the
  row is refused, what agrees is not;
- lifecycle: a signal ends the process, and a shutdown is not itself taken for a
  failure;
- metrics: no map is touched while it is written, a page is one snapshot, and
  nobody waits for ever.

PROJECT.json lists the hazards one by one, each at its line.

## 2. Modules

| Module | Models | Uses |
|---|---|---|
| `PaymentLedger` | abstract: the end of a payment, told once by each source | |
| `PaymentStatus` | the order row and its four writers, the event transaction; implements `PaymentLedger` | INSTANCE of `PaymentLedger` |
| `CreatePayment` | POST /v1/payments | |
| `Refund` | POST of a refund, GET of one | |
| `EventDelivery` | abstract: at-least-once delivery | |
| `Outbox` | the publisher on every replica; implements `EventDelivery` | INSTANCE of `EventDelivery` |
| `Connector` | status and publisher together, from provider to orchestrator; implements `PaymentLedger` | EXTENDS `PaymentStatus`, INSTANCE of `Outbox`, `PaymentLedger` |
| `ReconcileTimes` | one open row against the intervals of the code | |
| `ParallelEach` | the goroutine pool of one batch | |
| `WebhookRoute` | one notification: verification, parsing, comparison, answer | |
| `Lifecycle` | one process from start to exit | |
| `Metrics` | the registry and its lock | |

`MC...` modules hold the constants of an instance for TLC; `..._proofs` modules
hold theorems and proofs and extend their module and TLAPS. `PaymentStatus_proofs`
extends `Connector`, and so proves about both; `Reconciler_proofs` extends
`ReconcileTimes` and `ParallelEach`, whose `Init`, `Next`, `Spec` are called
`PoolInit`, `PoolNext`, `PoolSpec` for that.

Operators whose comment begins with "Mutant:" are faulty variants of the
definition that follows them. No specification uses them; they show that each
property notices a plausible bug.

### PaymentStatus

| Variable | Code |
|---|---|
| `provider`, `seen` | the order at Binance Pay and the statuses it has had |
| `expired` | `now` is not before `ExpiresAt` |
| `orders` | a row of `binancepay_v2_orders`: status, raw_status, and next_reconcile_at as `null`, `scheduled` (in the future) or `due` |
| `inbound`, `outbox` | the keys of the deduplication table; the events of the outbox |
| `acked` | notifications answered with SUCCESS (history) |
| `polls` | what each replica's reconciler holds for each payment: nothing, a claimed row, an observation to write, a retry to write |
| `reqs` | HTTP handlers between two of their effects |

One SQL statement or one transaction is one action; so is one provider call. A
handler or a work item holds the values it has read, as the Go code does in its
local variables, and writes them later whatever has happened meanwhile.

- `FindPayment`, `GetAnswered`, `CloseAnswered`, `RequestUpdates`: Get and
  Cancel. Get drops the error of UpdateStatus and Cancel returns it; in both the
  handler ends, which is `RequestAborts`.
- `WebhookUnknown`, `WebhookIgnored`, `WebhookAccepted`, `WebhookRecords`:
  HandleWebhook, with the answer of the route. A verification failure, a parse
  error or a mismatch is an error answer that changes nothing and has no action.
- `Claim`, `PollAnswered`, `PollRefused`, `PollObserves`, `PollRecords`,
  `PollRecordFails`, `PollRetries`, `PollDropped`: reconcileBatch and
  reconcilePayment. `Claim` takes any due rows, since SKIP LOCKED may skip the
  oldest. It waits until the batch before is done, which `ParallelEach` shows.
- `Restart`: the replica forgets its items; Open runs the migration, which
  schedules open rows that have no time.
- `RecordProviderEvent`: the three writes of one transaction. The outbox is
  keyed by event id alone, and a webhook's id holds no connection, so a second
  connection with the same prepayId fails the whole transaction.
- `ProviderCreates`, `ProviderAdvances`, `ExpiryPasses`, `ReconcileFallsDue`:
  the environment. The provider ends an order one way only; a notification of
  any status it has had may arrive at any later time, any number of times.

`CompleteCreate` appears here as the insert of the row only; how it gets there
is `CreatePayment`. `Mismatched` are payments that the provider reports with an
amount, currency or id that contradicts the row. Only the fields that are present
are compared (webhook.go:23-31, reconciler.go:53-64), so that an answer or a
notification about such a payment may be refused or accepted; nothing but the
fairness tells them from others. `WebhookRoute` has the comparison itself.

### CreatePayment

`operations`, `orders` and the handlers in flight; `placed` are the orders the
provider has made, `answered` the 201 answers. ReserveCreate is two statements:
the INSERT (`Reserve` or `ReserveLoses`) and the SELECT of the loser (`Replay`
or `Conflict`). The provider makes an order or not, and its answer arrives or not
(`ProviderAccepts`, `ProviderFails`). `CompleteCreate` is one transaction and
fails as a whole when the transaction id, the prepayId or the merchantTradeNo is
taken (`CompleteRefused`). `ReferenceOf` is the transaction id without dashes
and may collide. `Abort` is a dropped error or a death between two effects.

An operation that is "processing" when its handler dies stays so, and every
retry of its key gets ErrConflict; a failed one is never tried again. The model
has both, and the properties are about what must hold all the same.

### Outbox and EventDelivery

`outbox` (status and whether next_attempt_at has come), `senders` (the flush of
each replica: the items still to send and the outcome to mark), `received` (how
often the orchestrator accepted an event), `faults` (acceptances that left no
trace). `EventDelivery` is the promise: an event may be received any number of
times, in any order, and is done only once received. `Delivery!Spec` is checked
as a property and proved as a refinement.

### ParallelEach

The caller, the offered item, the workers, the closed flag of the channel. A
hand-over is one step, since the channel is unbuffered; after a cancellation
Go's select may still pick it.

### Refund

`refunds` are the rows of `binancepay_v2_refunds`, `provider` the refund under
each refundRequestId, `reqs` the handlers between two effects, `answered` the
201s. ReserveRefund is an INSERT that gives way to any of three unique keys and
a SELECT by one of them: a handler that finds no row under its own key goes on
as if it had reserved (`Unreserved`). FailRefund and CompleteRefund address the
row by idempotency key, and so may hit another refund's row if a key is used for
two refunds; CompleteRefund then overwrites its provider_data, and GET of that
refund asks the provider for the other one. `Belongs(key)` is the client's side
of the contract that excludes it. The properties hold for every key that keeps
it, whatever is sent under others; that no refund of the provider is without its
row needs no such thing. The provider deduplicates on refundRequestId.

GET changes nothing, so it is not an action: `GetRefund(id)` are the statuses it
may answer in a state, asked for a refund_id or for a provider_refund_id
(`Found`, as FindRefund).

### PaymentLedger and Connector

`PaymentLedger` is the promise about the end of a payment: the provider ends it
once, and webhook and poll may each tell of it once, after the fact and by a name
of that outcome. `PaymentStatus` implements it with what it records
(`RecordsOutcomes`); `Connector` implements it with what reaches the orchestrator
(`TellsOutcomes`).

In `Connector` the transaction of RecordProviderEvent is one step of
`PaymentStatus` and of `Outbox`; a death of the process is one step of both. All
else interleaves.

### ReconcileTimes

One row: `wait` until next_reconcile_at, `attempts`, which replica has held it
for how long (`held`), how long it has been due (`late`), with three histories.
All times are in units of ten seconds. Two things are assumed of the surroundings: a
replica is done with a batch within `MaxHold`, and a due row is claimed within
`MaxLate`, as long as the due rows fit one batch. The run has 140 s and 150 s: 50
polls by 8 workers are 7 rounds of at most 20 s, the client's timeout, and a row
that falls due while every replica is busy with another batch waits for the end of
one and its next tick. Eight is the default of RECONCILE_CONCURRENCY; with one
worker a batch may take 1000 s. The proofs have any values of both. Statements of
the database are taken to be short. `PaymentStatus` has no times and allows more.

### WebhookRoute

A notification is an envelope (when and by which key it was signed, whether it was altered,
how the signature is written) and data (its fields absent, the same as the row's or
others; an amount as mantissa and exponent). `VerifyWebhook` follows the code:
the difference of times saturates as time.Time.Sub does; a signature is decoded as base64 first,
so that the branch that decodes hex is never reached. `Scaled` stands for the
exact comparison of big.Rat.

### Lifecycle

`main` from configuration to exit, the waiter that calls Shutdown, the server's
flag `inShutdown` and its `listener`, the pool's `closed`, and the `place` of each
loop and handler. ListenAndServe takes several steps, as in net/http: it reads the
flag (`Listen`), binds (`Bind`, which may fail), makes the listener known unless
the flag is set by now (`Track`), and accepts; an error of Accept is
ErrServerClosed or a failure by the flag (`AcceptError`), and a failure is on its
way to log.Fatal (`Lost`). Shutdown sets the flag (`Shutdown`) and then closes the
listener, if it knows of one (`CloseListeners`). Fatal exits skip the deferred
Close, which hands out no more connections and waits for those in use. Loops run
under the signal's context, handlers do not.

### Metrics

`registry` (six maps), `writer` and `readers` of the RWMutex, and for each
goroutine where it is, its observation, the gauges it has to set, and the page it
reads. A lock is announced, then awaited: from the announcement on no reader
gets in. A scrape keeps the read lock while it writes its page, and is itself observed
afterwards.

## 3. Runs

| Run | Instance | Question | States |
|---|---|---|---|
| `race` | 2 payments on 2 connections with one prepayId, 2 replicas, 1 handler (cancel, webhook) | do the writers keep schedule, statuses, events and the ledger, with every call free to fail and a colliding outbox key? | 339 000 |
| `liveness` | 1 payment, 2 replicas, 1 handler (GET, cancel, webhook), a status the code does not name | do the sources agree, is an open row always polled again, is an outcome learnt, and kept? | 60 000 |
| `notifications` | as `liveness` | expected violation, section 6 | |
| `create` | 3 handlers, 2 keys, 3 bodies, 2 transactions with one reference | one order per key, answers that agree | 23 000 |
| `outbox` | 3 events (one refused), 2 replicas, reads of 2, 2 faults an event, 1 restart | is delivery at least once, has each duplicate a cause, is a refused event no obstacle? | 79 000 |
| `connector` | 1 payment, 1 replica, webhooks, 1 fault an event, 1 restart | does the end of a payment reach the orchestrator, and nothing else? | 52 000 |
| `refund` | 2 handlers, 3 keys (one shared by two refunds), 4 bodies, 3 refunds (two with one refundRequestId) | do answers, rows, GET and provider agree where a key is used for one refund? | 695 000 |
| `reconcile_times` | 2 replicas, the intervals of the code, holds up to 140 s, claims up to 150 s late | is an open row neither forgotten, nor polled twice at once, nor claimed in a row? | 196 000 |
| `parallel_each` | 5 items, 3 workers | handled once, quiet return, return at all | 1 200 |
| `webhook` | every envelope, amounts of 4 mantissas and 5 exponents | what passes, what is recorded, what is refused? | 445 000 |
| `lifecycle` | 2 requests, 3 loops | does a signal end the process, and never as a failure of its own making? | 16 000 |
| `metrics` | 3 goroutines, 4 observations or scrapes, 1 collection | are maps safe, pages snapshots, and does everybody get through? | 198 000 |

Every property has a mutant of the code's definition that violates it under the
same configuration.

Why the bounds are enough:

- No property of `PaymentStatus` relates two payments except through the outbox
  key, which `race` is about. A race takes a stale writer and a second writer of the same row, and
  perhaps a third: two replicas and a handler are three. GET writes as a poll
  does, and a second handler would do what a replica does; the proofs
  of section 4 have no bound on either. `race` has `Notified` = PAY_SUCCESS
  and short lives; `liveness` has GET, PAID, PAY_FAIL and a status that is not named,
  and a second replica whose slow poll may be the last to write. `Mismatched` is
  empty in the runs: acceptance is free of it, and of the fairness a mismatched
  payment has less.
- In `create`, two handlers race for a key while a third comes from another key or
  another body. Two order ids are what two keys need.
- In `refund`, a row is harmed by one handler that reserved and one that did not:
  two in flight, any number one after the other. ra has a key with two bodies, rb
  holds its refundRequestId, rb and rc share a key, and rc has one of its own.
- In `outbox`, `Limit` is smaller than the number of events, so the order of
  reading matters, and two replicas overlap.
- In `connector` one payment has up to four events (two sources, two outcomes). Two
  replicas are in `race` and `outbox`.
- In `reconcile_times`, a hold may outlast two leases and overlap the next claims. The
  other constants are those of the code: First 10 s, Lease 1 minute, Base 10 s,
  Cap 1 hour.
- In `webhook`, timestamps go four times beyond the ends of a duration (a
  millisecond of 64 bits reaches further than nanoseconds of 64 bits), and
  to both sides of the window's edges.
- In `metrics`, a torn page needs two scrapes and two observations. The observations
  are two: one with a histogram and one without.
- In `parallel_each`, there are more items than workers, and more workers than
  two, so that a worker takes several items.

`MaxFaults`, `MaxRestarts`, `MaxObservations` and `MaxCollections` only
keep counters finite. Everything else is bounded by the sets of the instance.
`SYMMETRY` is used in `race`, `create` and `refund`, which have no liveness
property. `Outbox` may really stop (everything published, restarts used up), so its
deadlock check is off; in the other runs it is on.

### Fairness

`PaymentStatus`: a poll goes on or is dropped (weak). An answer of the provider
to some replica, and the writes of a poll of some replica, happen if they are
possible again and again (strong): provider and database are assumed to fail now
and then but not for ever, and a replica restarts now and then but not before
each write. The clock reaches next_reconcile_at (weak) and some replica claims the
row (strong, the ticker fires every ten seconds), but only of a payment that is
not asked for over and over: UpdateStatus of GET and cancel (store.go:130) sets
next_reconcile_at to a minute from now again, so that a row asked for more often
than once a minute is never due. Nothing is assumed of clients, notifications or
the provider's progress, nor that the answers about a mismatched payment are ever
accepted.

`Outbox`: the ticker fires, a flush goes on, backoff ends (weak); an
orchestrator that does not refuse an event accepts it at some attempt (strong).
`Connector` has the fairness of both. `ParallelEach`: goroutines that can run
do, and work returns (weak): every provider call has a timeout.

`Lifecycle`: main and the waiter run when they can and the database answers
(weak), a statement under a done context too; nothing is asked of loops and
handlers. `Metrics`: a goroutine that can go on again and again does (strong):
a page ends by the server's WriteTimeout, Go's mutex hands itself to the longest
waiter, and Unlock lets the waiting readers in before the next writer.

### What the liveness properties say, and what they do not

- `OutcomeIsLearnt`: polling alone suffices; the webhook is not needed for the
  row or the outbox to get a verdict. It is deliberately weak: it accepts a
  verdict in the outbox with the row reopened, because that is what can happen.
  A stale GET, a late PAID notification or a slow poll of a second replica may
  write "pending" after the verdict was recorded; the next poll finds its event
  already in the deduplication table and RecordProviderEvent returns without
  touching the row, which stays open and is polled for ever.
- `OutcomeIsKept` is therefore about behaviours in which nobody, handler or poll of
  any replica, still holds an open status to write when a poll has recorded the
  verdict: then the row stays settled. With two replicas, and without this
  condition, TLC finds the behaviour of the point above. A stale write before that
  record does no harm: the poll that records the verdict settles the row.
- `OpenIsPolled` is about payments that clients do not ask for over and over (see
  Fairness); without that condition TLC finds the behaviour in which GET keeps the
  reconciler away. `OutcomeIsLearnt` needs no such condition: GET itself then
  learns the outcome, but emits no event.
- `OutcomeIsTold` needs `Calls` = {}: GET and cancel settle a row without an
  event, and then nobody polls it; only a webhook can still tell.
- `EventsArePublished` holds while the refused events are fewer than one read
  takes (`Limit`, 50 in the code). With as many refused events as that, all due
  again by the time the flush is over, younger events are never read. With the
  times of the code, 10 s an attempt and 300 s of backoff, it takes about 80
  events that are all refused by a timeout.
- `Exits` does not ask loops and handlers to end: main leaves without them.

## 4. Proofs

| Module | Theorems | State, for every value of the constants |
|---|---|---|
| `PaymentStatus_proofs` | TypeCorrect, ScheduleCorrect, StatusesReportedCorrect, VerdictsAgreeCorrect, OutboxCorrect, OneVerdictCorrect, AcknowledgedCorrect, LedgerCorrect | every safety property of `race` and `liveness`, the refinement of `PaymentLedger` included, and that each source emits one verdict at most |
| | ReopensCorrect | a settled row is reopened only by a handler or an item that read the order before its end |
| | PaymentSide, PublisherSide | `Connector` implements `PaymentStatus` and `Outbox`, so what is proved of either holds of both together |
| | TellsCorrect, ConnectorDuplicatesCorrect, ConnectorDeliveryCorrect, EndToEndCorrect | the safety of `connector`: the ledger as the orchestrator hears it, at-least-once delivery, the cause of duplicates; nothing is heard that the provider did not report, and an acknowledged notification waits in the outbox or was received |
| `CreatePayment_proofs` | TypeCorrect, OneOrderCorrect, StoredCorrect, AnswersCorrect, FinalCorrect | every property of `create` |
| `Outbox_proofs` | TypeCorrect, DuplicatesCorrect, DeliveryCorrect | the safety of `outbox`, the refinement of `EventDelivery` included |
| `Refund_proofs` | TypeCorrect, KnownCorrect, AnswersCorrect, GetCorrect, FinalCorrect | every property of `refund`, for any keys, shared or not |
| `Reconciler_proofs` | TypeCorrect, OneReplicaCorrect, HeardCorrect, SpacedCorrect | every property of `reconcile_times`, for any intervals |
| | PoolTypeCorrect, HandledOnceCorrect, ReturnsQuietCorrect | the safety of `parallel_each` |
| `WebhookRoute_proofs` | VerificationCorrect, MatchCorrect, RefusedCorrect | every property of `webhook`, for any clock, timestamps and mantissas |
| `Metrics_proofs` | TypeCorrect, SafeCorrect, ConsistentCorrect, SnapshotsCorrect | the safety of `metrics` |
| `Lifecycle_proofs` | TypeCorrect, StopCorrect, AskedCorrect | from the moment its server is told to stop the process does not fail, and it leaves in order only when asked to |

Assumptions are the named ASSUMEs of the modules: the constants are functions
and sets of the right kind, a prepayId is unique within its connection, and
Events and Replicas are finite in `Outbox` and in `Connector`. In `WebhookRoute` the
window is shorter than the longest duration (5 minutes against 292 years): a
difference that saturates is then outside of it. Decimals have up to two places
and up to two trailing zeros in the exponent (`Exponents` within -2..2). In `Refund`
no refund_id is an id the provider gives.

The arguments:

- *PaymentStatus.* The properties are not inductive, because what a handler or a
  work item holds is written later. Type correctness needs `KnownOK`: a row, an
  item or a busy handler exists only for an order the provider has made. The
  schedule is inductive by itself once every change of a row is one of four
  (`RowChange`). The rest needs `Provenance`: wherever a status is kept (row,
  item, handler, event), the provider really gave it to that payment (with the
  clock past, for "expired"), and an order has had one outcome at most. The
  agreement of verdicts follows from that one outcome, and their uniqueness
  from ids that are functions of payment and raw status. For the ledger, a step
  adds at most one event, which is new to its source, or one outcome.
- *Connector.* A step is one of `PaymentStatus` and one of `Outbox`, or leaves one of
  them alone. That it is one of `Outbox` needs to know that the ids of events are
  those the publisher has rows for (`NamesOK`: a webhook handler holds a status the
  provider notifies of, and a poll records only what a move of the provider can
  lead to). Then the invariants of both components are at hand. An event new to
  the outbox has not been received, so recording tells the orchestrator nothing; a
  first receipt of a verdict tells it, and a second one of the same event does not,
  since one id is one event and one source has one verdict (`TellsStep`). The records
  of `PaymentStatus` and the rows of `Outbox` are the same events (`RowsMatch`), and
  whatever `PaymentStatus` is about to record has room there (`RecordIsFree`): the
  composition keeps no step of either from happening.
- *CreatePayment.* `OwnersOK`: a handler past its reservation has the operation
  to itself, still "processing". `PlacedOK`: a handler about to call has no order
  placed for its key, and one about to store has its order placed. `StoredOK`:
  rows, completed operations and answers correspond.
- *Outbox.* `SendersOK` and `ReceiptsOK`: what is to be marked published was
  received, and a flush handles an event once. `CountsOK`: before an event is
  published, its receipts are at most its faults plus the replicas about to mark
  it; from then on, its receipts and the replicas that still hold it are
  at most its faults plus all replicas. Every step then maps to a step of
  `EventDelivery` or to a stutter (`Simulation`).
- *WebhookRoute.* Who is past the verification has passed it, and an answer tells
  which check failed (`IInv`). The rest is arithmetic: a difference is in the window
  exactly when its saturated form is (`SubInWindow`), and two decimals scaled to one
  exponent are equal exactly when one, scaled by the quotient of the powers, is the
  other (`SameValue`).
- *ParallelEach.* The items handled are exactly those before the offered one.
- *Refund.* Rows are never deleted, so a refundRequestId that is taken stays
  taken (`KInv`). Under a key that belongs to one refund, the row a working handler
  finds is that handler's alone, and one that did not reserve never finds a row
  (`HandlersOK`); so the row's request and answer are those of its own refund, and
  the provider agrees (`RowsOK`). Rows are written by key, so that handlers under
  shared keys do not disturb this.
- *ReconcileTimes.* Who holds the row has heard of it since (`HeardOK`), and
  while no batch has outlasted its lease, the minute of the claim is still
  running (`LeaseOK`). `SpacedOK`: a due row has waited for a lease or a delay
  that counts at least one claim.
- *Metrics.* Who changes a map holds the write lock alone (`LockOK`); what a page
  has read is what the registry still holds (`PagesOK`); with nobody changing
  it, the registry agrees with itself (`CountsOK`, `GaugesOK` say by how much it does not
  meanwhile). Counters only grow.
- *Lifecycle.* The waiter is born after everything that main may die of but the
  server's own failure, and only it sets the flag (`PhaseOK`). From then on each of
  the three looks at the flag leads main to Close, and nothing leads from there to
  the two places that still may fail (`StoppingStays`).

Only proved, not among the properties of a run: the type invariants but that of
`PaymentStatus`; `OneVerdictPerSource`, which the ledger of `race` implies; and
ReopensCorrect, EndToEndCorrect, AskedCorrect and the two that carry the results about
`Outbox` over to `Connector`.

Only model-checked: the liveness properties (`OpenIsPolled`, `OutcomeIsLearnt`,
`OutcomeIsKept`, `EventsArePublished`, `OutcomeIsTold`, `Returns`, `Exits`,
`ObservationsEnd`), since fairness and ENABLED are outside what the provers
handle. Every other property of a passing run is stated by a theorem.

## 5. Not modelled, and why

- Signing, TLS, JSON, HTTP: pure I/O and conversions, with no property here. A
  provider call is its possible outcomes, and a signature verifies or not.
- Lengths of times outside `ReconcileTimes` and `WebhookRoute`. A timestamp is
  abstracted to what the code compares, so a poll may last longer than the minute
  its claim reserves, and a backoff may end at any time. This covers more than
  the code does.
- Authentication, validRequestID, validTraceparent, capabilities, validate and the
  configuration: no state, one comparison or pattern each, before any action.
- The figures of Stats, and the text of a metrics page.
- Isolation inside one statement or transaction: each is one step, as
  PostgreSQL runs a single UPDATE on a row; no transaction of the code reads
  rows it later writes. Two transactions with the same event key wait for each
  other and then behave as one after the other.
- Statuses the provider writes in other letter cases: the poll's id is built in
  upper case, the webhook's in lower case, so both are the same raw status here.
- A GET of a refund is one step: of the row it needs only the refundRequestId.
- The connection of a refund: all refunds of `Refund` are of one, and FindRefund with
  another one finds nothing. A refund_id used on two connections is one row, of the
  first; a refund_id chosen equal to an id the provider gave to another refund is left
  out as well.

## 6. Finding

`notifications` (expected to be violated): README.md:5-6 says "Provider
notifications are persisted to an outbox and sent as normalized events to the V2
orchestrator." A notification that arrives after the provider has made the order
and before CompleteCreate has stored it finds no row; the route takes ErrNotFound
for success (server.go:212), answers SUCCESS, and nothing is persisted. The
payment's outcome is then learnt by polling only, provided that the row is
stored at all.

## 7. What is left

All components that keep state are modelled. What could still be added: a
composition of `CreatePayment` with `PaymentStatus`, in which the order row is
inserted by a handler that may die; and the starvation of the publisher against
the times of its backoff.
