# Webhook ingestion service: TLA+ models and proofs

The service takes webhooks over HTTP, stores each as a row of the `events` table,
hands it to a queue, and a worker process applies `process_event` to it, with
delayed retries, a dead-letter queue and operator endpoints to retry and redrive.
The modules here model that path for its three backends (RabbitMQ, Redis, inline) with
the crashes, reconnections and concurrent requests it is exposed to, and around it the
initialisation of the broker connection, health checks and metrics, the read endpoints
and the smoke check. TLC checks the modules on small instances; TLAPS proves
the main safety properties for every value of the constants.

## The system and its parts

| Part | Source | State | Operations | Correct when |
|---|---|---|---|---|
| Event store | `app/models.py`, `crud.py`, `db.py` | rows: status, attempts, processed_at, error, payload | insert, load, column-wise commit, bulk reset | processed is final, attempts are counted, one row per delivery id |
| Processor | `app/services/processor.py` | an ORM object loaded earlier | load, compute, commit | the row tells what happened |
| Queue client | `app/queue.py` | process-wide connection and channel; main, retry and dead-letter queue in the broker | publish, get, ack, retry or dead-letter, redrive | nothing published is lost before it succeeded |
| Worker | `app/worker.py` | the envelope it works on | poll, process, ack or route | every event settles |
| Intake | `app/routers/webhooks.py`, `security.py` | requests in flight | check, look up, insert, publish, answer | idempotent by delivery id, truthful answers |
| Operator endpoints | `app/routers/webhooks.py` | requests in flight | retry one event, redrive the dead-letter queue | an operator cannot lose or resurrect events |
| Redis backend | `app/queue.py`, `worker.py` | a list of ids, without acks | push, pop | only a fault loses an event; one that always fails does not starve others |
| Inline backend | `app/routers/webhooks.py`, `services/processor.py` | background tasks of the API process | add, run | an accepted event is attempted; rows stay consistent under concurrent tasks |
| Broker connection | `app/queue.py` | globals: connection, channel, flag | initialise on demand, dispose | nobody gets a channel without its topology; leaks are bounded |
| API lifecycle, health, metrics | `app/main.py`, `metrics.py` | poller task, gauges, counters per process | start, stop, poll, probe, scrape | answers are true, gauges follow the dependencies |
| Read endpoints | `app/routers/webhooks.py`, `crud.py` | none | list, summarise | pages miss nothing, figures are ordered |
| Smoke check | `tools/smoke_check.py` | where it is | send, poll, redrive | passes on a healthy system, and only after the whole path |

Parts meet in three places: the `events` table (API, worker), the broker's queues
(API publishes and redrives, workers consume), and the API's one broker channel,
which all of its requests share. There is no lock and no row version anywhere: every
`await` is a point where another actor may step in. What makes the system hard is
listed under `hazards` in `PROJECT.json`: check-then-act on the delivery id,
commit-then-publish without an outbox, publish-then-ack, load-then-commit, reset
after republish, messages that stay unacknowledged on a long-lived channel, lazily
initialised globals, and gauges that several coroutines write with what they read earlier.

## Modules

| Module | What it is |
|---|---|
| `EventStore` | rows and the operations on one row: `create_event`, `mark_pending`, `process_event`, and what an ORM `commit` writes |
| `EventLifecycle` | abstract specification: what readers of the table may rely on |
| `Delivery` | API hand-over, broker, workers, operator requests (RabbitMQ backend) |
| `Intake` | `POST /webhook` as concurrent requests (queue backends) |
| `Service` | `Intake` composed with `Delivery`: the requests write the table and the queue the workers use |
| `RedisDelivery` | hand-over, list, workers and retries with the Redis backend |
| `InlineProcessing` | requests and background tasks with the inline backend (the default) |
| `QueueClient` | how a process comes by its broker channel |
| `Monitoring` | `/health`, `/ready`, `/queue/stats`, the poller, gauges, the failure counter, Prometheus |
| `ReadEndpoints` | `GET /events` and `GET /events/summary` over a changing table |
| `SmokeCheck` | `tools/smoke_check.py` composed with `Delivery` |
| `MCDelivery`, `MCIntake`, `MCService`, `MCRedis`, `MCInline`, `MCQueueClient`, `MCMonitoring`, `MCRead`, `MCSmoke`, `MCPayloads` | constants for TLC |
| `DeliveryProofs` | type correctness, no dangling message, at-least-once, only exhausted messages are parked, messages and orphans are accounted for |
| `OneWorkerProofs` | one worker: `SuccessIsKept`, refinement of `EventLifecycle`, `FailedHasError`, `ReasonIsLostOnlyToReset`, `DeadLetteredIsFailed`; the smoke check |
| `IntakeProofs` | idempotency, truthful answers, stranded events are reported, nothing unverified is stored; `Service` implements both its halves, and what follows from end to end |
| `RedisProofs` | type correctness, loss only by fault, the lifecycle until the first retry |
| `InlineProofs` | `PendingIsUnattempted`, `FailedHasError` |
| `QueueClientProofs` | topology before use, bounded leaks |
| `MonitoringProofs` | truthful health answers |
| `ReadProofs` | complete pages, ordered summaries |

Definitions carry the source's names where one function is one definition
(`dequeue_event`, `complete_event`, `mark_events_pending`, `verify_webhook_signature`);
a handler with awaits is split at them (`LoadEvent`/`CommitAttempt` for
`process_event_by_id`, `PublishFailed`/`AckRouted` for `retry_or_dead_letter`,
`RedriveGet`/`RedrivePublish`/`RedriveAck`/`mark_events_pending` for the redrive
endpoint, `ping_db`/`ping_queue`/`ReadDepth`/`HealthRecords` for `/health`). The three
backends share the rows and the processor of `EventStore`; `Delivery` and
`RedisDelivery` are both compared with `EventLifecycle`. Definitions marked *Mutant* are faulty variants of the definition after
them; nothing uses them. Replacing a definition by its mutant makes TLC
find the property violated that `PROJECT.json` names.

### Modelling decisions

- *Broker.* External. Queues are bags (payload to number of copies): with requeueing,
  the retry delay and several consumers, order is not something the code can rely on.
  Durable queues and persistent messages lose nothing. A delivery that is not
  acknowledged returns to its queue when its channel closes.
- *Commit.* SQLAlchemy writes the columns whose value differs from the loaded one,
  whatever the row holds by then. `commit(row, loaded, obj)` says so column by column;
  this is what makes stale commits partly harmless (a failed, non-final attempt does
  not rewrite a `pending` status) and partly not.
- *Failures.* Every exception in a worker escapes `run_worker`, ends the process and
  closes its channel, so one action, `WorkerRestart`, stands for crash, database error and
  broker error. `WorkerConnectionLost` is the other case: `connect_robust`
  reconnects, the delivery is requeued, and the worker goes on until its ack raises.
  A publish whose confirmation is lost is a publish followed by such a fault
  (`EnqueueFails` has both outcomes explicitly, because the API goes on living).
- *Operator requests.* A failing redrive leaves its message unacknowledged on the
  API's channel (`orphans`) until that channel closes.
- *Unreachable code.* Messages come only from `_queue_payload`, so the branches for
  malformed bodies are not modelled; the "Event not found" branch is shown unreachable by
  `NoDanglingMessage`.
- *Data.* A payload is the two keys the processor reads; a text is a name; a
  timestamp is present or absent; a request's clock enters only as `now - timestamp`.
- *Backends.* Redis: every envelope is attempt 1, so `final_attempt` is true only when
  one attempt is allowed; otherwise failing events are pushed back for ever.
  What was popped exists only in the worker; `dropped` records what a fault
  destroyed. `PollReplyLost` covers the client's `socket_timeout` (2 s), shorter than
  BLPOP's own timeout (5 s). Inline: a task's load and commit interleave with other tasks
  at their awaits; the status check of `retry_event` and `add_task` do not.
- *Failed commits.* A commit that raises leaves the ORM session inactive, so the second
  commit, in the `except` branch of `process_event`, raises too: nothing is written
  and the exception reaches the worker or ends the task.
- *Broker connection.* Connections and channels have identities, so that an overwritten one
  remains open in the model as it does in the broker. Reconnection by `connect_robust`
  keeps the objects and is not visible there.
- *Monitoring.* Dependencies and depths are an environment. A ping of the cached
  RabbitMQ channel may miss that the broker is gone. A call while the queue is down may
  fail or hang: no fairness is assumed of failing. One snapshot is a round trip per queue.
- *Reading.* `received_at` is the start of the inserting transaction, so rows
  may appear below younger ones, and ties have no order. Each statement sees one committed
  state.
- *Smoke check.* Its requests block it one at a time. `wait_for` may give up at any poll,
  since the model has no clock: the check then ends as "timed out". `SmokePasses` is about runs
  in which it does not, `OkIsEvidence` about all. `SmokeSetup` says which constants of
  `Delivery` this client needs; it is an assumption of `MCSmoke` and a hypothesis of the
  theorems.
- *Intake.* An absent `X-Webhook-ID` is stored as NULL; an empty one skips
  the lookup but is stored as an empty text, which the unique index sees. Of a request that fails a
  check the model keeps the answer only.
- *Composition.* In `Service` a step of a request is a step of `Intake` and, when it inserts or
  publishes, one of `Delivery` too; a restart of the API is one of both; the rest is a step of one half.
  `published` are the events `receive_webhook` has published, `sent` those anybody has, a retry
  included. Each half counts its own faults; a failed publish is one of both. A request
  that ends with 500 after its commit leaves its event `created` in `Delivery`, where it waits
  like one whose publish is yet to come. `Service` instantiates
  `DeliveryProofs`, which adds only theorems to `Delivery`, so that these can be cited for the instance.

## What TLC checks

| Run | Instance | Shows |
|---|---|---|
| `delivery_workers` | 1 event, 2 workers, 2 operators, 2 attempts, 2 faults, 2 requests | `AtLeastOnce`, `NoDanglingMessage`, `DeadLetterWhenExhausted`, `OrphansAccounted`, `DuplicatesAccounted`, `TypeOK` |
| `delivery_single` | 1 event, 1 worker, 2 operators, 2 faults, 2 requests, fairness | `SuccessIsKept`, `FailedHasError`, `ReasonIsLostOnlyToReset`, `DeadLetteredIsFailed`, `EventsSettle`; `Delivery` implements `EventLifecycle` |
| `delivery_retry_processed` | 2 workers, 1 attempt, no fault | violation of `ProcessedCannotBeRetried` |
| `intake_concurrent` | `Service`: 2 requests, 2 delivery ids, absent and empty ids, every failing check, both window edges, 2 faults, and behind the queue 1 worker, 1 attempt, a payload that fails once, 1 operator request, 2 faults, fairness | `OneEventPerDelivery`, `AnswerIsTrue`, `StrandedIsReported`, `OnlyVerifiedIsStored`, `OneEventProcessedPerDelivery`, `NoEventIsForgotten`, `AcceptedSettles`, `TypeOK` |
| `intake_duplicate_race` | 2 requests, 1 delivery id, no fault | violation of `DuplicateIsAnswered` |
| `redis_workers` | 2 events, 2 workers, 2 attempts, 1 fault, 1 retry, fairness | `LostOnlyByFault`, `FollowsLifecycle`, `RecoverableSettle`, `TypeOK` |
| `inline_tasks` | 2 events, 3 tasks, 1 fault, 2 retries, fairness | `PendingIsUnattempted`, `FailedHasError`, `AcceptedIsAttempted` |
| `client_race` | 3 coroutines, 2 faults, shutdown and crash, fairness | `TopologyBeforeUse`, `LeakIsBounded`, `ChannelIsRegained` |
| `monitoring` | 3 backends, probe, reader, poller, 2 changes, 1 failure, fairness | `HealthIsTruthful`, `DepthsConverge`, `DependenciesConverge` |
| `alert_failures` | RabbitMQ, 1 failure | violation of `FailuresAreScraped` |
| `read_endpoints` | 3 events, 3 timestamps, 2 sources, pages of 1, 1 status change | `PagingIsComplete`, `SummaryIsOrdered` |
| `smoke_check` | 2 events, 1 worker, 3 attempts, 2 faults, fairness | `OkIsEvidence`, `SmokePasses` |

*Bounds.* `MaxFaults` and `MaxCalls` bound faults and operator requests; everything
else is finite by itself because a message's attempt number is bounded. Two attempts
are the fewest for which retry queue and dead-letter queue both occur; the payloads
(succeeds, fails once, always fails) reach every branch of `process_event`, and the one
that fails twice is dead-lettered and succeeds when redriven. Interference
is between two holders of one event, so one event and two workers, or one worker and two
operator requests, suffice for loss, duplication and the race of a redrive's reset;
with the Redis list two events are needed for one to starve the other.
The intake needs two requests for the race between lookup and insert. Behind it, with one attempt,
an event that fails once is dead-lettered and then retried or redriven by the operator, which is
the whole way from request to operator; what two workers or more attempts add is
the subject of the delivery runs, and further repetitions of a delivery are left to the theorems. The
proofs remove the bounds for all safety properties they cover. In `RedisDelivery` the
endless retry would count `processing_attempts` without end, so for TLC the counter saturates at
`CountLimit`; payloads that stop failing do so before. `CountLimit = NoLimit` is the counter of
the code, for which the refinement is proved. `FollowsLifecycle`
speaks of the steps before the first operator retry. Three coroutines are the fewest of which flag, channel and connection
can each come from another. `MaxChanges` allows a dependency to go and return
during a probe; `MaxDepth`, `MaxTime`, `MaxUpdates` and `MaxFailures` bound the
environment of the modules that only observe. Pages of one row have the most
page boundaries.

*Symmetry* is used in the runs without temporal properties only.

*Fairness.* `delivery_single` assumes weak fairness of each worker's loop (a stopped worker
is restarted: `restart: unless-stopped`), of API coroutines that have something to do
and of the broker's message TTL. Faults are finite. Senders and operators
need not call again, so no fairness is assumed of them. `intake_concurrent` assumes
the same behind the queue and nothing of the senders' requests, whose publish has no timeout
and need not return (of a redrive's it is assumed: one that hangs for ever keeps the message it has
fetched); `redis_workers` assumes weak fairness of workers and of requests
in flight, `inline_tasks` of the event loop's tasks, `client_race` of coroutines that call
again and of the restart of a stopped process, `monitoring` of the poller's loop and the
container health check of `docker-compose.yml`, `smoke_check` of the service and
the client.

*Deadlock* is checked. `Quiescent` and `Finished` are the states in which the system
has nothing to do.

### Findings

1. `intake_duplicate_race`: lookup and insert of a delivery id are two
   steps. Two concurrent deliveries are not answered `accepted` and `duplicate` but
   `accepted` and 500. One event is stored all the same (`OneEventPerDelivery`).
2. `delivery_retry_processed`: with two workers on one event, the commit of a stale
   final attempt turns a processed row into a failed one, after which the retry
   endpoint accepts it. `docker-compose.yml` runs one worker, for which `SuccessIsKept`
   is proved. `InlineProcessing`, the default backend, has the same behaviour in a single
   process and without a fault, between the tasks of the intake and of two retries.
3. `alert_failures`: `webhook_processing_total{status="failed"}` is incremented in the
   worker's registry when a queue backend is used, and Prometheus scrapes the API only, so
   the alert on processing failures cannot fire. (The dead-letter alert rests on a gauge of the
   API, which `DepthsConverge` covers.) Likewise, but outside the models, `app/worker.py`
   never calls `setup_tracing`.

Two further weaknesses are the limits of properties: a redrive between a
final attempt's load and commit can leave a failed row with no error
(`FailedHasError`, from attempt `MaxAttempts + 2` on), and a redrive's late reset can
leave an event pending whose message is in the dead-letter queue (`DeadLetteredIsFailed`,
from attempt `2 * MaxAttempts` on). Both limits are sharp: with either moved by one, TLC finds
the interleaving in the instance of `delivery_single`. `ReasonIsLostOnlyToReset` is the first
weakness without a limit: nothing but that interleaving takes a failed row's reason away.

## What is proved

Every invariant the runs check is proved, and so are the action property and the two refinements of `EventLifecycle`, from the named
assumptions of the modules: payloads are payloads, limits positive, bounds natural numbers,
and the sets that are counted (operator requests, coroutines) finite. The proofs put no bound on events,
workers, requests, attempts or faults.

**Delivery** (`DeliveryProofs`)

- `Spec => []AtLeastOnce`. `AtLeastOnce` is not inductive: an acknowledgement removes
  a copy. The invariant `SecuredUntilSuccess` counts only copies the next
  acknowledgement cannot remove (not those of a worker in `routed` or a redrive in
  `ack`, which have published a successor) and adds that a `processed`
  envelope's event has succeeded. `Referenced` says that everything on its way belongs
  to a stored row; the type invariant needs it, since a worker loads a row it did not
  create. `IInv` is the conjunction with `TypeOK`; `TypeCorrect` and `NeverDangling`
  follow from it.
- `Spec => []DeadLetterWhenExhausted`, inductive given `IInv`.
- `Spec => []DuplicatesAccounted` and `Spec => []OrphansAccounted`. A bag is counted as the set of its
  numbered copies, so that publishing, taking and requeueing add or remove one element of a
  finite set (`AddCopy`, `RemoveCopy`, `SumOfBags`) and no induction over a sum is needed. Neither is
  inductive: a step that adds a message must have been paid for before. `MessagesCounted` charges
  whatever can still add one in advance: a worker that has not routed its delivery, whether or not it still owns
  it (`Working`), a redrive that has not published its message (`Fetched`), an operator request in progress
  (`Owing`), and an event an operator published ahead of its own request (`Overtaken`). When the API's
  channel closes, the messages its requests hold are numbered against the
  requests (`HeldMessages`). `FiniteCounts` says that only finitely
  many workers, events and messages are involved at a time, which is proved, not assumed.

**One worker** (`OneWorkerProofs`, hypothesis `OneWorker`; with two workers these fail)

- `Spec => []SuccessIsKept` and `Spec => ImplementsLifecycle`. The key fact is
  `LoadedIsCurrent`: between load and commit the row changes only by `mark_events_pending`,
  and any number of these amounts to one. `CommitSuccess` and `CommitFailure` then say what
  the column-wise commit does to a row that is as loaded or was marked pending.
- `Spec => []FailedHasError` and `Spec => []DeadLetteredIsFailed`. Both need to know how many
  attempts an event has behind it, which no message says once it has been redriven.
  `AttemptsCounted` and `ExhaustedIsCounted` bound the row's counter from below by the attempt number of
  every message still ahead, and by `MaxAttempts` for every message that has been through
  all of them or was redriven. Hence a reset that comes between load and commit is late
  (`ResetIsLate`), and a redriven event is up for all its attempts again
  (`RedrivenStartsOver`, `PendingIsAhead`); `LostIsQueued` covers the worker that goes on with a
  delivery it has lost. A step either commits an attempt or only moves messages
  (`Flow`, `RowsKeptOrReset`); the two cases are `CommitKeeps` and `FlowKeeps`. TLC has
  checked the invariant on the instance of `delivery_single`, and it shows why the
  limits of the two properties are where they are.
- `Spec => ReasonIsLostOnlyToReset`, the action property without those limits, from
  `LoadedIsCurrent` alone: no other step than a commit makes a row failed, and a commit omits the error
  text only where the row is no longer the one loaded, hence reset (`LostReason`).
- `SmokeSpec => Spec` and `SmokeSpec => []OkIsEvidence` (hypothesis `SmokeSetup`). What holds of
  `Delivery` holds while the smoke check runs. The redrive that answers with a count has
  brought back an exhausted event; the accepted one never is, because its payload asks for no
  failure and no commit makes it do so; so it was the retryable one, which had
  `MaxAttempts` attempts behind it and no success. A processed row seen
  later therefore has one attempt more (`RowSteps`), and stays processed.

**Intake** (`IntakeProofs`)

- `Spec => []OneEventPerDelivery`, `[]AnswerIsTrue`, `[]StrandedIsReported` and `[]TypeOK`,
  from one inductive invariant that adds which program points a stored event's request can be at.
- `Spec => []OnlyVerifiedIsStored`: whatever is beyond the checks has passed them
  (`VerifiedBeyondChecks`), and the request's headers do not change.

**From request to worker** (`IntakeProofs`)

- `ServiceSpec => Spec` (of `Intake`) and `ServiceSpec => D!Spec` (of `Delivery`): every step of the
  composition is a step or a stutter of each half, so both sets of theorems hold in it.
- `ServiceSpec => []OneEventProcessedPerDelivery` and `ServiceSpec => []NoEventIsForgotten`. The invariant
  `Linked` says that the halves speak of the same table and the same queue (`events` are `D!Stored`,
  `published` is part of `sent`, only stored events succeed); it is inductive given the
  invariants of both, because no step after the insert stores or deletes a row (`OnlyInsertStores`).
  The first theorem then joins idempotency with `NoDanglingMessage`, the second
  `StrandedIsReported` with `AtLeastOnce`.

**Redis backend** (`RedisProofs`)

- `Spec => []TypeOK`, `Spec => []LostOnlyByFault`, and `Spec => FollowsLifecycle` for
  `CountLimit = NoLimit`, with any number of workers. The refinement needs `OneCopy`: before the first operator retry
  an event is with one request, at one place of the list or with one worker, so what a worker has
  loaded is the row.

**Inline backend** (`InlineProofs`)

- `Spec => []PendingIsUnattempted` and `Spec => []FailedHasError`, for any number of tasks on
  one row. Neither is inductive, since a commit mixes the columns of two versions of the row.
  `Versions` relates the row and every copy a task has loaded, pairwise:
  each is consistent in itself, `force_failure` is the same in all, and one that will succeed at
  its first attempt excludes an error in any other.

**Broker connection** (`QueueClientProofs`)

- `Spec => []TopologyBeforeUse`. Flag, channel and connection may come from three coroutines,
  so `DeclaredInOrder` says of everyone who declares that the earlier declarations are made.
- `Spec => []LeakIsBounded`. `RoomForCallers` adds the coroutines that are on the way to a
  connection or a channel to those that are open: the sum starts within the number of coroutines
  and only a call that finds nothing open adds to it.

**Monitoring** (`MonitoringProofs`)

- `Spec => []HealthIsTruthful`: what a probe has found out so far is true of the time it
  has run for, at every await (`EvidenceOf`).

**Read endpoints** (`ReadProofs`)

- `Spec => []PagingIsComplete`: an event the client is still owed has at least as many newer rows
  as the offset (`OwedIsAhead`), which insertions cannot change for the worse; the lemmas on
  orderings say what a page of a sorted table contains.
- `Spec => []SummaryIsOrdered`: each figure is of a table no larger than the next statement's
  (`FiguresGrow`), and the three statuses together are the table.

The proofs have changed the models in four places. `Pings` was a `CASE` whose arms overlapped for
RabbitMQ, so it was not determined which answers it allowed; it is now a set given by its condition.
Probes, readers and poller are assumed to be different actors. A summary's `by_source` is the
cardinality of the rows that have a source, which the GROUP BY adds up to. The depth of a queue is the
cardinality of the set of its copies, not a recursive sum.

Only model-checked are the liveness properties (`EventsSettle`, `AcceptedSettles`, `RecoverableSettle`,
`AcceptedIsAttempted`, `ChannelIsRegained`, `DepthsConverge`, `DependenciesConverge`,
`SmokePasses`): the prover does not do fairness.

## Not modelled

- Logging, tracing, the request-id middleware and the counters nothing reads back: no
  effect on the state of the service.
- Serialisation of responses and parsing of settings.
- `hardening_check.py`, `collect_logs.py`, `bootstrap_env.py`: they look at files and
  containers, not at the service.
- nginx, Grafana, Tempo, the collector: third-party configuration.
- Messages whose body cannot be decoded: only `_queue_payload` writes bodies.
- The commit of a transaction that is in flight when a worker dies is either done or not
  done before the crash; no step in between is modelled.
- Counter resets: a restarted API starts its counters at zero, which `increase()` handles.
