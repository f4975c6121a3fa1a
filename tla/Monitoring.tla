----------------------------- MODULE Monitoring -----------------------------
(***************************************************************************)
(* What operators see of the service: /health (and /ready, which calls it),*)
(* /queue/stats, the queue metrics poller, the gauges and counters of the  *)
(* API's metrics registry and Prometheus, which scrapes the API and not    *)
(* the worker.  Requests and poller interleave at their awaits and write   *)
(* the same gauges with what they read earlier.                            *)
(*                                                                         *)
(* Database and queue are an environment that comes, goes and changes its  *)
(* depths at any time.  "queue" being up means that the API's client can   *)
(* reach it.  A call on a broken connection fails or hangs.                *)
(***************************************************************************)
EXTENDS Integers, Sequences

CONSTANTS
    Backends,    \* values of settings.task_queue_backend
    Probes,      \* concurrent requests of /health or /ready
    Readers,     \* concurrent requests of /queue/stats
    MaxDepth,    \* bound: messages in a queue
    MaxChanges,  \* bound: changes of the environment
    MaxFailures  \* bound: final failures that are counted

Poller == "queue metrics poller"

ASSUME MonitoringAssumption ==
    /\ Backends \subseteq {"inline", "redis", "rabbitmq"}
    /\ Probes \cap Readers = {} /\ Poller \notin Probes \cup Readers
    /\ MaxDepth \in Nat /\ MaxChanges \in Nat /\ MaxFailures \in Nat

VARIABLES
    backend,
    up,                        \* dependencies that can be reached
    depth,                     \* messages in each queue
    changes,                   \* of up and depth, so far
    actor,                     \* control state of each request and of the poller
    was,                       \* history: what was up, what was down during a probe
    webhook_queue_depth,       \* gauges of the API process
    dependency_up,
    webhook_processing_total,  \* counter with status="failed", one per process
    sample                     \* Prometheus: the latest scrape

environment == <<backend, up, depth, changes>>
prometheus  == <<webhook_processing_total, sample>>
vars == <<environment, actor, was, webhook_queue_depth, dependency_up, prometheus>>

Dependencies == {"database", "queue"}

Lanes == {"main", "retry", "dead_letter"}

is_queue_enabled == backend # "inline"

\* The depths a snapshot asks for, in this order.
Asked == CASE backend = "inline"   -> <<>>
           [] backend = "redis"    -> <<"main">>
           [] backend = "rabbitmq" -> <<"main", "retry", "dead_letter">>

Idle == [pc |-> "idle"]

\* A labelled gauge has no value before it is first set.
Unset == -1

Init ==
    /\ backend \in Backends
    /\ up = Dependencies
    /\ depth = [l \in Lanes |-> 0]
    /\ changes = 0
    /\ actor = [a \in Probes \cup Readers \cup {Poller} |-> Idle]
    /\ was = [r \in Probes |-> [up |-> {}, down |-> {}]]
    /\ webhook_queue_depth = [l \in Lanes |-> Unset]
    /\ dependency_up = [d \in Dependencies |-> Unset]
    /\ webhook_processing_total = [app |-> 0, worker |-> 0]
    /\ sample = [failed |-> 0, actual |-> 0]

Goto(a, state) == actor' = [actor EXCEPT ![a] = state]

-----------------------------------------------------------------------------
(* app/metrics.py *)

set_dependency_state(old, name, is_up) == [old EXCEPT ![name] = IF is_up THEN 1 ELSE 0]

\* Mutant: a depth of zero is not set, like one that is None.
SetNonZeroDepths(read) ==
    [l \in Lanes |-> IF \E i \in DOMAIN read : Asked[i] = l /\ read[i] > 0
                     THEN read[CHOOSE i \in DOMAIN read : Asked[i] = l]
                     ELSE webhook_queue_depth[l]]

\* A depth that was not asked for is None or 0; both are set as 0.
set_queue_depths(read) ==
    [l \in Lanes |-> IF \E i \in DOMAIN read : Asked[i] = l
                     THEN read[CHOOSE i \in DOMAIN read : Asked[i] = l]
                     ELSE 0]

-----------------------------------------------------------------------------
(* get_queue_snapshot: one round trip per queue, the gauges at the end *)

Snapshot(of) == [pc |-> "snapshot", read |-> <<>>, of |-> of]

ReadDepth(a) ==
    /\ actor[a].pc = "snapshot"
    /\ Len(actor[a].read) < Len(Asked)
    /\ "queue" \in up
    /\ Goto(a, [actor[a] EXCEPT !.read = Append(@, depth[Asked[Len(@) + 1]])])
    /\ UNCHANGED <<environment, was, webhook_queue_depth, dependency_up, prometheus>>

Done(a) == actor[a].pc = "snapshot" /\ Len(actor[a].read) = Len(Asked)

Broken(a) == actor[a].pc = "snapshot" /\ ~Done(a) /\ "queue" \notin up

\* What the end of a snapshot sets the depth gauges to.
DepthsAfter(a) == IF Done(a) THEN set_queue_depths(actor[a].read) ELSE webhook_queue_depth

-----------------------------------------------------------------------------
(* _queue_metrics_poller *)

PollerWakes ==
    /\ is_queue_enabled
    /\ actor[Poller] = Idle
    /\ Goto(Poller, Snapshot(Idle))
    /\ UNCHANGED <<environment, was, webhook_queue_depth, dependency_up, prometheus>>

PollerRecords ==
    /\ Done(Poller) \/ Broken(Poller)
    /\ webhook_queue_depth' = DepthsAfter(Poller)
    /\ dependency_up' = set_dependency_state(dependency_up, "queue", Done(Poller))
    /\ Goto(Poller, Idle)
    /\ UNCHANGED <<environment, was, prometheus>>

-----------------------------------------------------------------------------
(* GET /health *)

health(r) ==
    /\ actor[r] = Idle
    /\ Goto(r, [pc |-> "ping_db"])
    /\ was' = [was EXCEPT ![r] = [up |-> up, down |-> Dependencies \ up]]
    /\ UNCHANGED <<environment, webhook_queue_depth, dependency_up, prometheus>>

\* pool_pre_ping replaces stale connections.
ping_db(r) ==
    /\ actor[r].pc = "ping_db"
    /\ Goto(r, [pc |-> "ping_queue", db_ok |-> "database" \in up])
    /\ UNCHANGED <<environment, was, webhook_queue_depth, dependency_up, prometheus>>

\* What ping_queue can answer.  For RabbitMQ it looks at the cached channel,
\* which need not have noticed that the broker is gone.
Pings ==
    {queue_ok \in BOOLEAN : IF queue_ok THEN "queue" \in up \/ backend = "rabbitmq"
                                        ELSE "queue" \notin up}

\* From the last await of /health to its answer.
Conclude(r, db_ok, queue_ok, dependencies) ==
    /\ dependency_up' = set_dependency_state(dependencies, "queue", queue_ok \/ ~is_queue_enabled)
    /\ Goto(r, [pc   |-> "answered",
                code |-> IF ~db_ok \/ (is_queue_enabled /\ ~queue_ok) THEN 503 ELSE 200])

\* Mutant: the answer of the ping is final.
PingIsTrusted(r) ==
    /\ actor[r].pc = "ping_queue"
    /\ \E queue_ok \in Pings :
          Conclude(r, actor[r].db_ok, queue_ok,
                   set_dependency_state(dependency_up, "database", actor[r].db_ok))
    /\ UNCHANGED <<environment, was, webhook_queue_depth, prometheus>>

\* Mutant: the state of the database is recorded on the way to the 503 only.
PingRecordsDown(r) ==
    /\ actor[r].pc = "ping_queue"
    /\ LET dependencies == IF actor[r].db_ok
                           THEN dependency_up
                           ELSE set_dependency_state(dependency_up, "database", FALSE) IN
       \E queue_ok \in Pings :
          IF is_queue_enabled /\ queue_ok
          THEN dependency_up' = dependencies /\ Goto(r, Snapshot(actor[r]))
          ELSE Conclude(r, actor[r].db_ok, queue_ok, dependencies)
    /\ UNCHANGED <<environment, was, webhook_queue_depth, prometheus>>

\* The database gauge is set after this await, with what ping_db said before it.
ping_queue(r) ==
    /\ actor[r].pc = "ping_queue"
    /\ LET dependencies == set_dependency_state(dependency_up, "database", actor[r].db_ok) IN
       \E queue_ok \in Pings :
          IF is_queue_enabled /\ queue_ok
          THEN dependency_up' = dependencies /\ Goto(r, Snapshot(actor[r]))
          ELSE Conclude(r, actor[r].db_ok, queue_ok, dependencies)
    /\ UNCHANGED <<environment, was, webhook_queue_depth, prometheus>>

\* get_queue_depth returns or raises.
HealthRecords(r) ==
    /\ Done(r) \/ Broken(r)
    /\ webhook_queue_depth' = DepthsAfter(r)
    /\ Conclude(r, actor[r].of.db_ok, Done(r), dependency_up)
    /\ UNCHANGED <<environment, was, prometheus>>

Close(r) ==
    /\ actor[r].pc = "answered"
    /\ Goto(r, Idle)
    /\ UNCHANGED <<environment, was, webhook_queue_depth, dependency_up, prometheus>>

-----------------------------------------------------------------------------
(* GET /queue/stats: the depths, or 503 *)

get_queue_stats(r) ==
    /\ actor[r] = Idle
    /\ Goto(r, Snapshot(Idle))
    /\ UNCHANGED <<environment, was, webhook_queue_depth, dependency_up, prometheus>>

StatsRecords(r) ==
    /\ Done(r) \/ Broken(r)
    /\ webhook_queue_depth' = DepthsAfter(r)
    /\ Goto(r, Idle)
    /\ UNCHANGED <<environment, was, dependency_up, prometheus>>

-----------------------------------------------------------------------------
(* The environment, the processing of events, Prometheus *)

Change == changes < MaxChanges /\ changes' = changes + 1

DependencyChanges(d) ==
    /\ Change
    /\ d = "queue" => is_queue_enabled
    /\ up' = IF d \in up THEN up \ {d} ELSE up \cup {d}
    /\ was' = [r \in Probes |-> [up   |-> was[r].up \cup up',
                                 down |-> was[r].down \cup (Dependencies \ up')]]
    /\ UNCHANGED <<backend, depth, actor, webhook_queue_depth, dependency_up, prometheus>>

DepthChanges(l) ==
    /\ Change
    /\ \E i \in DOMAIN Asked : Asked[i] = l
    /\ \E n \in 0..MaxDepth : depth' = [depth EXCEPT ![l] = n]
    /\ UNCHANGED <<backend, up, actor, was, webhook_queue_depth, dependency_up, prometheus>>

Failures == webhook_processing_total.app + webhook_processing_total.worker

\* process_event gives up on an event and counts it, in the registry of the
\* process it runs in.
record_processing ==
    /\ Failures < MaxFailures
    /\ webhook_processing_total' =
          IF is_queue_enabled
          THEN [webhook_processing_total EXCEPT !.worker = @ + 1]
          ELSE [webhook_processing_total EXCEPT !.app = @ + 1]
    /\ UNCHANGED <<environment, actor, was, webhook_queue_depth, dependency_up, sample>>

\* GET /metrics by the only scrape job of the service, app:8000.
Scrape ==
    /\ sample' = [failed |-> webhook_processing_total.app, actual |-> Failures]
    /\ UNCHANGED <<environment, actor, was, webhook_queue_depth, dependency_up,
                   webhook_processing_total>>

-----------------------------------------------------------------------------

_queue_metrics_poller == PollerWakes \/ ReadDepth(Poller) \/ PollerRecords

Probe(r) ==
    \/ health(r) \/ ping_db(r) \/ ping_queue(r)
    \/ ReadDepth(r) \/ HealthRecords(r) \/ Close(r)

Read(r) == get_queue_stats(r) \/ ReadDepth(r) \/ StatsRecords(r)

Next ==
    \/ _queue_metrics_poller
    \/ \E r \in Probes : Probe(r)
    \/ \E r \in Readers : Read(r)
    \/ \E d \in Dependencies : DependencyChanges(d)
    \/ \E l \in Lanes : DepthChanges(l)
    \/ record_processing
    \/ Scrape

Spec == Init /\ [][Next]_vars

\* The poller loops and the container's health check probes for ever, at their
\* intervals.
FairSpec ==
    /\ Spec
    /\ WF_vars(_queue_metrics_poller)
    /\ \A r \in Probes : WF_vars(Probe(r))

-----------------------------------------------------------------------------
(* Properties *)

Needed == IF is_queue_enabled THEN Dependencies ELSE {"database"}

\* An answer of /health is about what happened while it ran: 200 only if every
\* dependency the backend needs was up at some moment of the request, 503 only
\* if one was down.  A channel that looks open is not enough.
HealthIsTruthful ==
    \A r \in Probes : actor[r].pc = "answered" =>
        /\ actor[r].code = 200 => Needed \subseteq was[r].up
        /\ actor[r].code = 503 => Needed \cap was[r].down # {}

\* The depth gauges follow the queues: once the queue can be reached for good
\* and its depths rest, the gauges are right and stay right, although
\* requests and poller overwrite them with what they read earlier and a failed
\* snapshot leaves them as they are.  The dead-letter alert rests on this.
DepthsConverge ==
    (is_queue_enabled /\ <>[]("queue" \in up)) => <>[](webhook_queue_depth = depth)

\* A dependency that is back for good is reported as up for good, although
\* probe and poller write the gauges after a later await, in any order.
DependenciesConverge ==
    \A d \in Dependencies : (<>[](d \in up)) => <>[](dependency_up[d] = 1)

\* "Webhook processing failures detected": the counter behind the alert has, in
\* the registry that is scraped, every final failure so far.
FailuresAreScraped == sample.failed = sample.actual

=============================================================================
