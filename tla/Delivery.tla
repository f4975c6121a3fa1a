------------------------------ MODULE Delivery ------------------------------
(***************************************************************************)
(* The asynchronous half of the service with TASK_QUEUE_BACKEND=rabbitmq:  *)
(* the API stores an event and publishes it, workers take messages from    *)
(* the main queue, process the event and route failures to the retry queue *)
(* or the dead-letter queue, and operators retry single events or redrive  *)
(* the dead-letter queue.  A step is what one coroutine does between two   *)
(* awaits that other actors can interleave with: one broker call or one    *)
(* database transaction.                                                   *)
(*                                                                         *)
(* RabbitMQ is external and modelled from how app/queue.py uses it: durable*)
(* queues and persistent messages (nothing in a queue is lost), manual ack *)
(* (an unacknowledged delivery returns to its queue when its channel       *)
(* closes), confirmed publishes.  Queues are unordered, which covers every *)
(* order that requeueing, the retry delay and several consumers produce:   *)
(* each is a function from payloads to the number of copies it holds.      *)
(***************************************************************************)
EXTENDS EventStore, FiniteSets

CONSTANTS
    Events,       \* event ids, one for each request that stores a row
    Payloads,     \* payloads senders use
    Workers,      \* worker processes, each with a channel of its own
    Operators,    \* concurrent operator requests, sharing the API's channel
    MaxAttempts,  \* settings.rabbitmq_max_delivery_attempts
    Limits,       \* values of the redrive endpoint's limit parameter
    MaxFaults,    \* bound: faults of workers, API and broker connections
    MaxCalls      \* bound: operator requests

ASSUME ConstantsAssumption ==
    /\ Payloads \subseteq Payload
    /\ MaxAttempts \in Nat \ {0}
    /\ Limits \subseteq Nat \ {0}
    /\ MaxFaults \in Nat
    /\ MaxCalls \in Nat
    /\ IsFiniteSet(Operators)

VARIABLES
    rows,       \* the events table
    intake,     \* progress of the request that creates each event
    queue,      \* contents of the main, retry and dead-letter queues
    worker,     \* control state of each worker
    operator,   \* control state of each operator request
    orphans,    \* unacknowledged on the API's channel, by no running request
    published,  \* history: events of which the main queue got a message
    succeeded,  \* history: events with a committed successful attempt
    faults,     \* faults so far
    calls       \* operator requests so far

vars == <<rows, intake, queue, worker, operator, orphans, published, succeeded, faults, calls>>

Queues == {"main", "retry", "dead"}

Attempts == 1..MaxAttempts

\* The body of a message: _queue_payload writes it, _decode_payload reads it.
QueuePayload == [event : Events, attempt : Attempts]

\* An envelope is the payload it was decoded from; owned tells whether its
\* raw_message is still an unacknowledged delivery of the actor's channel.
WorkerState ==
         [pc : {"poll"}]
    \cup [pc : {"got", "processed", "failed", "routed"},
          envelope : QueuePayload, owned : BOOLEAN]
    \cup [pc : {"loaded"}, envelope : QueuePayload, owned : BOOLEAN, loaded : Event]

OperatorState ==
         [pc : {"idle"}]
    \cup [pc : {"enqueue"}, event : Events]
    \cup [pc : {"redrive"}, left : Nat, redriven : SUBSET Events]
    \cup [pc : {"publish", "ack"}, left : Nat \ {0}, redriven : SUBSET Events,
          message : QueuePayload, owned : BOOLEAN]
    \cup [pc : {"mark"}, redriven : SUBSET Events]

IntakeState == {"new", "created", "accepted", "unavailable", "aborted"}

\* No row with this id.
NoRow == [status |-> "absent"]

Stored == {e \in Events : rows[e] # NoRow}

Init ==
    /\ rows = [e \in Events |-> NoRow]
    /\ intake = [e \in Events |-> "new"]
    /\ queue = [q \in Queues |-> [p \in QueuePayload |-> 0]]
    /\ worker = [w \in Workers |-> [pc |-> "poll"]]
    /\ operator = [o \in Operators |-> [pc |-> "idle"]]
    /\ orphans = [p \in QueuePayload |-> 0]
    /\ published = {}
    /\ succeeded = {}
    /\ faults = 0
    /\ calls = 0

Fault == faults < MaxFaults /\ faults' = faults + 1

Call == calls < MaxCalls /\ calls' = calls + 1

-----------------------------------------------------------------------------
(* app/queue.py and the broker *)

_queue_payload(e, attempt) == [event |-> e, attempt |-> attempt]

_publish_to_rabbitmq(q, p) == queue' = [queue EXCEPT ![q][p] = @ + 1]

enqueue_event(e) ==
    /\ _publish_to_rabbitmq("main", _queue_payload(e, 1))
    /\ published' = published \cup {e}

\* x-message-ttl of the retry queue: the message is dead-lettered to main.
RetryDelayExpires(p) ==
    /\ queue["retry"][p] > 0
    /\ queue' = [queue EXCEPT !["retry"][p] = @ - 1, !["main"][p] = @ + 1]
    /\ UNCHANGED <<rows, intake, worker, operator, orphans, published, succeeded, faults, calls>>

-----------------------------------------------------------------------------
(* POST /webhook, from the moment the request may create an event *)

CreateEvent(e, payload) ==
    /\ intake[e] = "new"
    /\ intake' = [intake EXCEPT ![e] = "created"]
    /\ rows' = [rows EXCEPT ![e] = create_event(payload)]
    /\ UNCHANGED <<queue, worker, operator, orphans, published, succeeded, faults, calls>>

\* Mutant: the event is published before its row is committed.
EnqueueBeforeCommit(e) ==
    /\ intake[e] = "new"
    /\ enqueue_event(e)
    /\ intake' = [intake EXCEPT ![e] = "accepted"]
    /\ UNCHANGED <<rows, worker, operator, orphans, succeeded, faults, calls>>

EnqueueCreated(e) ==
    /\ intake[e] = "created"
    /\ enqueue_event(e)
    /\ intake' = [intake EXCEPT ![e] = "accepted"]
    /\ UNCHANGED <<rows, worker, operator, orphans, succeeded, faults, calls>>

\* The publish fails, or only its confirmation is lost: 503, and the row stays.
EnqueueFails(e) ==
    /\ intake[e] = "created"
    /\ Fault
    /\ intake' = [intake EXCEPT ![e] = "unavailable"]
    /\ \/ UNCHANGED <<queue, published>>
       \/ enqueue_event(e)
    /\ UNCHANGED <<rows, worker, operator, orphans, succeeded, calls>>

-----------------------------------------------------------------------------
(* app/worker.py *)

\* Mutant: the message is acknowledged when it is fetched.
DequeueAutoAck(w, p) ==
    /\ worker[w].pc = "poll"
    /\ queue["main"][p] > 0
    /\ queue' = [queue EXCEPT !["main"][p] = @ - 1]
    /\ worker' = [worker EXCEPT ![w] = [pc |-> "got", envelope |-> p, owned |-> FALSE]]
    /\ UNCHANGED <<rows, intake, operator, orphans, published, succeeded, faults, calls>>

dequeue_event(w, p) ==
    /\ worker[w].pc = "poll"
    /\ queue["main"][p] > 0
    /\ queue' = [queue EXCEPT !["main"][p] = @ - 1]
    /\ worker' = [worker EXCEPT ![w] = [pc |-> "got", envelope |-> p, owned |-> TRUE]]
    /\ UNCHANGED <<rows, intake, operator, orphans, published, succeeded, faults, calls>>

\* session.get: the whole row is read once, without a lock.
LoadEvent(w) ==
    /\ worker[w].pc = "got"
    /\ worker' = [worker EXCEPT ![w] =
                    [pc       |-> "loaded",
                     envelope |-> worker[w].envelope,
                     owned    |-> worker[w].owned,
                     loaded   |-> rows[worker[w].envelope.event]]]
    /\ UNCHANGED <<rows, intake, queue, operator, orphans, published, succeeded, faults, calls>>

\* Mutant: off by one against retry_or_dead_letter.
FinalAttemptLate(envelope) == envelope.attempt > MaxAttempts

FinalAttempt(envelope) == envelope.attempt >= MaxAttempts

CommitAttempt(w) ==
    /\ worker[w].pc = "loaded"
    /\ LET e      == worker[w].envelope.event
           loaded == worker[w].loaded
           obj    == process_event(loaded, FinalAttempt(worker[w].envelope))
       IN  /\ rows' = [rows EXCEPT ![e] = commit(rows[e], loaded, obj)]
           /\ succeeded' = IF Raises(loaded) THEN succeeded ELSE succeeded \cup {e}
           /\ worker' = [worker EXCEPT ![w] =
                            [pc       |-> IF Raises(loaded) THEN "failed" ELSE "processed",
                             envelope |-> worker[w].envelope,
                             owned    |-> worker[w].owned]]
    /\ UNCHANGED <<intake, queue, operator, orphans, published, faults, calls>>

\* The ack settles an owned delivery.  For a delivery that was requeued with its
\* old channel it raises and the worker restarts, which changes nothing else.
complete_event(w) ==
    /\ worker[w].pc = "processed"
    /\ worker' = [worker EXCEPT ![w] = [pc |-> "poll"]]
    /\ UNCHANGED <<rows, intake, queue, operator, orphans, published, succeeded, faults, calls>>

\* Mutant: off by one, the last attempt is never made.
PublishFailedEarly(w) ==
    /\ worker[w].pc = "failed"
    /\ LET envelope     == worker[w].envelope
           next_attempt == envelope.attempt + 1
       IN  IF next_attempt < MaxAttempts
           THEN _publish_to_rabbitmq("retry", _queue_payload(envelope.event, next_attempt))
           ELSE _publish_to_rabbitmq("dead", _queue_payload(envelope.event, envelope.attempt))
    /\ worker' = [worker EXCEPT ![w].pc = "routed"]
    /\ UNCHANGED <<rows, intake, operator, orphans, published, succeeded, faults, calls>>

\* retry_or_dead_letter publishes first and acknowledges afterwards.
PublishFailed(w) ==
    /\ worker[w].pc = "failed"
    /\ LET envelope     == worker[w].envelope
           next_attempt == envelope.attempt + 1
       IN  IF next_attempt <= MaxAttempts
           THEN _publish_to_rabbitmq("retry", _queue_payload(envelope.event, next_attempt))
           ELSE _publish_to_rabbitmq("dead", _queue_payload(envelope.event, envelope.attempt))
    /\ worker' = [worker EXCEPT ![w] =
                    [pc       |-> "routed",
                     envelope |-> worker[w].envelope,
                     owned    |-> worker[w].owned]]
    /\ UNCHANGED <<rows, intake, operator, orphans, published, succeeded, faults, calls>>

\* Mutant: the routed message is rejected with requeue, not acknowledged.
RequeueRouted(w) ==
    /\ worker[w].pc = "routed"
    /\ queue' = [queue EXCEPT !["main"][worker[w].envelope] = @ + 1]
    /\ worker' = [worker EXCEPT ![w] = [pc |-> "poll"]]
    /\ UNCHANGED <<rows, intake, operator, orphans, published, succeeded, faults, calls>>

\* Mutant: an ack on a closed channel waits instead of raising.
AckWaits(w) ==
    /\ worker[w].pc = "routed"
    /\ worker[w].owned
    /\ worker' = [worker EXCEPT ![w] = [pc |-> "poll"]]
    /\ UNCHANGED <<rows, intake, queue, operator, orphans, published, succeeded, faults, calls>>

AckRouted(w) ==
    /\ worker[w].pc = "routed"
    /\ worker' = [worker EXCEPT ![w] = [pc |-> "poll"]]
    /\ UNCHANGED <<rows, intake, queue, operator, orphans, published, succeeded, faults, calls>>

run_worker(w) ==
    \/ \E p \in QueuePayload : dequeue_event(w, p)
    \/ LoadEvent(w)
    \/ CommitAttempt(w)
    \/ complete_event(w)
    \/ PublishFailed(w)
    \/ AckRouted(w)

\* The channel of a busy worker closes: the broker requeues its delivery.
RequeueDelivery(w) ==
    queue' = IF worker[w].owned
             THEN [queue EXCEPT !["main"][worker[w].envelope] = @ + 1]
             ELSE queue

\* Every exception escapes run_worker: _main disposes the channel and the
\* process is started again.  A killed process looks the same to the broker.
WorkerRestart(w) ==
    /\ worker[w].pc # "poll"
    /\ Fault
    /\ RequeueDelivery(w)
    /\ worker' = [worker EXCEPT ![w] = [pc |-> "poll"]]
    /\ UNCHANGED <<rows, intake, operator, orphans, published, succeeded, calls>>

\* The connection drops and connect_robust reopens it while the worker is busy:
\* the delivery is requeued, the worker carries on and learns of it at its ack.
WorkerConnectionLost(w) ==
    /\ worker[w].pc # "poll"
    /\ worker[w].owned
    /\ Fault
    /\ RequeueDelivery(w)
    /\ worker' = [worker EXCEPT ![w].owned = FALSE]
    /\ UNCHANGED <<rows, intake, operator, orphans, published, succeeded, calls>>

-----------------------------------------------------------------------------
(* POST /events/{event_id}/retry.  The 404 and 409 answers change nothing. *)

RetryEvent(o, e) ==
    /\ operator[o].pc = "idle"
    /\ Call
    /\ e \in Stored
    /\ rows[e].status # PROCESSED
    /\ operator' = [operator EXCEPT ![o] = [pc |-> "enqueue", event |-> e]]
    /\ UNCHANGED <<rows, intake, queue, worker, orphans, published, succeeded, faults>>

EnqueueRetry(o) ==
    /\ operator[o].pc = "enqueue"
    /\ enqueue_event(operator[o].event)
    /\ operator' = [operator EXCEPT ![o] = [pc |-> "idle"]]
    /\ UNCHANGED <<rows, intake, worker, orphans, succeeded, faults, calls>>

-----------------------------------------------------------------------------
(* POST /queue/dlq/redrive *)

RedriveDlq(o, limit) ==
    /\ operator[o].pc = "idle"
    /\ Call
    /\ operator' = [operator EXCEPT ![o] = [pc |-> "redrive", left |-> limit, redriven |-> {}]]
    /\ UNCHANGED <<rows, intake, queue, worker, orphans, published, succeeded, faults>>

\* Mutant: the loop does not stop at the limit.
RedriveGetUnlimited(o, p) ==
    /\ operator[o].pc = "redrive"
    /\ queue["dead"][p] > 0
    /\ queue' = [queue EXCEPT !["dead"][p] = @ - 1]
    /\ operator' = [operator EXCEPT ![o] =
                      [pc       |-> "publish",
                       left     |-> operator[o].left,
                       redriven |-> operator[o].redriven,
                       message  |-> p,
                       owned    |-> TRUE]]
    /\ UNCHANGED <<rows, intake, worker, orphans, published, succeeded, faults, calls>>

RedriveGet(o, p) ==
    /\ operator[o].pc = "redrive"
    /\ operator[o].left > 0
    /\ queue["dead"][p] > 0
    /\ queue' = [queue EXCEPT !["dead"][p] = @ - 1]
    /\ operator' = [operator EXCEPT ![o] =
                      [pc       |-> "publish",
                       left     |-> operator[o].left,
                       redriven |-> operator[o].redriven,
                       message  |-> p,
                       owned    |-> TRUE]]
    /\ UNCHANGED <<rows, intake, worker, orphans, published, succeeded, faults, calls>>

\* The loop ends at the limit or at the first empty answer.
RedriveLoopEnds(o) ==
    /\ operator[o].pc = "redrive"
    /\ operator[o].left = 0 \/ \A p \in QueuePayload : queue["dead"][p] = 0
    /\ operator' = [operator EXCEPT ![o] = [pc |-> "mark", redriven |-> operator[o].redriven]]
    /\ UNCHANGED <<rows, intake, queue, worker, orphans, published, succeeded, faults, calls>>

\* The redriven message starts over at attempt 1.
RedrivePublish(o) ==
    /\ operator[o].pc = "publish"
    /\ _publish_to_rabbitmq("main", _queue_payload(operator[o].message.event, 1))
    /\ operator' = [operator EXCEPT ![o] =
                      [pc       |-> "ack",
                       left     |-> operator[o].left,
                       redriven |-> operator[o].redriven,
                       message  |-> operator[o].message,
                       owned    |-> operator[o].owned]]
    /\ UNCHANGED <<rows, intake, worker, orphans, published, succeeded, faults, calls>>

\* Mutant: the redriven message is not acknowledged.
RedriveWithoutAck(o) ==
    /\ operator[o].pc = "ack"
    /\ orphans' = [orphans EXCEPT ![operator[o].message] = @ + 1]
    /\ operator' = [operator EXCEPT ![o] =
                      [pc       |-> "redrive",
                       left     |-> operator[o].left - 1,
                       redriven |-> operator[o].redriven \cup {operator[o].message.event}]]
    /\ UNCHANGED <<rows, intake, queue, worker, published, succeeded, faults, calls>>

\* When the channel was closed meanwhile the ack raises and the request ends
\* with an error, before anything is marked.
RedriveAck(o) ==
    /\ operator[o].pc = "ack"
    /\ operator' = [operator EXCEPT ![o] =
                      IF operator[o].owned
                      THEN [pc       |-> "redrive",
                            left     |-> operator[o].left - 1,
                            redriven |-> operator[o].redriven \cup {operator[o].message.event}]
                      ELSE [pc |-> "idle"]]
    /\ UNCHANGED <<rows, intake, queue, worker, orphans, published, succeeded, faults, calls>>

mark_events_pending(o) ==
    /\ operator[o].pc = "mark"
    /\ rows' = [e \in Events |-> IF e \in operator[o].redriven
                                 THEN mark_pending(rows[e])
                                 ELSE rows[e]]
    /\ operator' = [operator EXCEPT ![o] = [pc |-> "idle"]]
    /\ UNCHANGED <<intake, queue, worker, orphans, published, succeeded, faults, calls>>

Holds(o, p) ==
    /\ operator[o].pc \in {"publish", "ack"}
    /\ operator[o].owned
    /\ operator[o].message = p

\* An exception ends the request.  A message it had taken from the dead-letter
\* queue stays unacknowledged on the API's channel.
OperatorFails(o) ==
    /\ operator[o].pc # "idle"
    /\ Fault
    /\ operator' = [operator EXCEPT ![o] = [pc |-> "idle"]]
    /\ orphans' = [p \in QueuePayload |-> IF Holds(o, p) THEN orphans[p] + 1 ELSE orphans[p]]
    /\ UNCHANGED <<rows, intake, queue, worker, published, succeeded, calls>>

-----------------------------------------------------------------------------
(* The API process *)

Holders(p) == {o \in Operators : Holds(o, p)}

\* The API's channel closes: all it has not acknowledged returns to the
\* dead-letter queue.
CloseApiChannel ==
    /\ queue' = [queue EXCEPT !["dead"] =
                    [p \in QueuePayload |->
                        queue["dead"][p] + orphans[p] + Cardinality(Holders(p))]]
    /\ orphans' = [p \in QueuePayload |-> 0]

ApiRestart ==
    /\ Fault
    /\ CloseApiChannel
    /\ operator' = [o \in Operators |-> [pc |-> "idle"]]
    /\ intake' = [e \in Events |-> IF intake[e] = "created" THEN "aborted" ELSE intake[e]]
    /\ UNCHANGED <<rows, worker, published, succeeded, calls>>

ApiConnectionLost ==
    /\ \E p \in QueuePayload : orphans[p] > 0 \/ Holders(p) # {}
    /\ Fault
    /\ CloseApiChannel
    /\ operator' = [o \in Operators |->
                      IF operator[o].pc \in {"publish", "ack"}
                      THEN [operator[o] EXCEPT !.owned = FALSE]
                      ELSE operator[o]]
    /\ UNCHANGED <<rows, intake, worker, published, succeeded, calls>>

-----------------------------------------------------------------------------

\* No sender and no operator calls any more, and the workers poll in vain.
Quiescent ==
    /\ \A e \in Events : intake[e] \notin {"new", "created"}
    /\ \A p \in QueuePayload : queue["main"][p] = 0 /\ queue["retry"][p] = 0
    /\ \A w \in Workers : worker[w].pc = "poll"
    /\ \A o \in Operators : operator[o].pc = "idle"

RedriveStep(o) ==
    \/ \E p \in QueuePayload : RedriveGet(o, p)
    \/ RedriveLoopEnds(o)
    \/ RedrivePublish(o)
    \/ RedriveAck(o)
    \/ mark_events_pending(o)

\* The steps of the broker, the workers and the operators' requests, and the loss
\* of the API's connection.
AfterHandOver ==
    \/ \E w \in Workers : run_worker(w) \/ WorkerRestart(w) \/ WorkerConnectionLost(w)
    \/ \E p \in QueuePayload : RetryDelayExpires(p)
    \/ \E o \in Operators :
          \/ \E e \in Events : RetryEvent(o, e)
          \/ EnqueueRetry(o)
          \/ \E limit \in Limits : RedriveDlq(o, limit)
          \/ RedriveStep(o)
          \/ OperatorFails(o)
    \/ ApiConnectionLost

Next ==
    \/ \E e \in Events :
          \/ \E payload \in Payloads : CreateEvent(e, payload)
          \/ EnqueueCreated(e)
          \/ EnqueueFails(e)
    \/ AfterHandOver
    \/ ApiRestart
    \/ Quiescent /\ UNCHANGED vars

Spec == Init /\ [][Next]_vars

\* Workers poll for ever and a restarted process starts polling again; a
\* coroutine that is not waiting is scheduled; the broker's timer fires.
\* Operators and senders need not call again.
Fairness ==
    /\ \A e \in Events : WF_vars(EnqueueCreated(e))
    /\ \A w \in Workers : WF_vars(run_worker(w))
    /\ \A p \in QueuePayload : WF_vars(RetryDelayExpires(p))
    /\ \A o \in Operators : WF_vars(EnqueueRetry(o)) /\ WF_vars(RedriveStep(o))

FairSpec == Spec /\ Fairness

-----------------------------------------------------------------------------
(* Properties *)

\* Every variable keeps its type: the code never writes a status, an attempt
\* number, a queue depth or a control state outside its range.
TypeOK ==
    /\ rows \in [Events -> Event \cup {NoRow}]
    /\ intake \in [Events -> IntakeState]
    /\ queue \in [Queues -> [QueuePayload -> Nat]]
    /\ worker \in [Workers -> WorkerState]
    /\ operator \in [Operators -> OperatorState]
    /\ orphans \in [QueuePayload -> Nat]
    /\ published \in SUBSET Events
    /\ succeeded \in SUBSET Events
    /\ faults \in 0..MaxFaults
    /\ calls \in 0..MaxCalls

\* Where a copy of the message p can be: in a queue, or unacknowledged at a
\* worker, at a redrive or at none.
AtWorker(w, p) == worker[w].pc # "poll" /\ worker[w].owned /\ worker[w].envelope = p

Kept(p) ==
    \/ \E q \in Queues : queue[q][p] > 0
    \/ orphans[p] > 0
    \/ \E w \in Workers : AtWorker(w, p)
    \/ \E o \in Operators : Holds(o, p)

\* At-least-once: once the main queue has got a message for an event, the
\* broker keeps some copy of it, queued or unacknowledged, until an attempt has
\* committed success.  This is what publishing before acknowledging, in
\* retry_or_dead_letter and in redrive_dead_letter, is for: whatever restarts,
\* lost connections, failed requests, duplicates and redrives come in between.
AtLeastOnce ==
    \A e \in published \ succeeded : \E p \in QueuePayload : p.event = e /\ Kept(p)

\* Every message, and every envelope a worker or a redrive works on, is for a
\* row that exists: the event is committed before it is published, so the
\* worker's "Event not found" answer, which acknowledges the message and
\* forgets it, is never taken.
NoDanglingMessage ==
    /\ \A p \in QueuePayload : Kept(p) => p.event \in Stored
    /\ \A w \in Workers : worker[w].pc # "poll" => worker[w].envelope.event \in Stored

\* What only an operator can reach (the dead-letter queue, a redrive's message,
\* an orphan) has used up its attempts, and what waits in the retry queue is a
\* second or later attempt: retry_or_dead_letter compares attempt + 1 with the
\* limit, and no requeueing or channel closure sends a message to a queue other
\* than its own.
DeadLetterWhenExhausted ==
    \A p \in QueuePayload :
        /\ queue["dead"][p] > 0 \/ orphans[p] > 0 \/ (\E o \in Operators : Holds(o, p))
              => p.attempt = MaxAttempts
        /\ queue["retry"][p] > 0 => p.attempt > 1

\* The copies in a bag of messages, numbered, and how many there are.
Copies(bag) == UNION {{p} \X (1..bag[p]) : p \in QueuePayload}

Depth(bag) == Cardinality(Copies(bag))

\* Unacknowledged deliveries of workers and redrives.
Held == Cardinality({w \in Workers : \E p \in QueuePayload : AtWorker(w, p)})
        + Cardinality({o \in Operators : \E p \in QueuePayload : Holds(o, p)})

\* Those of them whose successor is already published.
Superseded == Cardinality({w \in Workers : worker[w].pc = "routed" /\ worker[w].owned})
              + Cardinality({o \in Operators : operator[o].pc = "ack" /\ operator[o].owned})

\* Redelivery does not multiply messages.  Besides the deliveries in the middle
\* of a publish-then-ack there is one message per published event, one more per
\* operator request and one more per fault.
DuplicatesAccounted ==
    Depth(queue["main"]) + Depth(queue["retry"]) + Depth(queue["dead"]) + Depth(orphans) + Held
        <= Cardinality(published) + calls + faults + Superseded

\* A redrive request that dies between get and ack leaves its message
\* unacknowledged on the API's long-lived channel, where no consumer sees it.
\* Nothing else does, and each failed request hides at most one message.
OrphansAccounted == Depth(orphans) <= faults

-----------------------------------------------------------------------------
(* Properties of one worker, the deployment of docker-compose.yml.  Two
   workers can hold the same event at once, through an operator's retry or a
   requeued delivery, and the load-then-commit of process_event takes no lock:
   ImplementsLifecycle and SuccessIsKept then fail.                        *)

\* The table keeps the promises of EventLifecycle: processed is final, attempts
\* count every commit, a redrive resets unprocessed events only, although
\* commit() and mark_events_pending() interleave without a lock.
Lifecycle == INSTANCE EventLifecycle WITH
                status   <- [e \in Events |-> rows[e].status],
                attempts <- [e \in Events |-> IF rows[e] = NoRow THEN 0 ELSE rows[e].attempts]

ImplementsLifecycle == Lifecycle!Spec

\* The row of an event tells whether an attempt has succeeded: processed with a
\* timestamp, no error and no failure left to simulate if one has, neither
\* processed nor timestamped if none has, at every interleaving of the worker's
\* load, its commit and a redrive's mark_events_pending.
SuccessIsKept ==
    \A e \in Stored :
        IF e \in succeeded
        THEN /\ rows[e].status = PROCESSED
             /\ rows[e].processed_at
             /\ rows[e].error = NoError
             /\ ~Raises(rows[e])
        ELSE /\ rows[e].status # PROCESSED
             /\ ~rows[e].processed_at

\* A failed row says why, at every interleaving of attempts and redrives up to
\* the first at which it need not.  That one takes a redrive, so MaxAttempts
\* attempts, and then two more of the same event: the commit of the second sets
\* the error text it had loaded, so the column is not written, and the redrive
\* has cleared it in between.
FailedHasError ==
    \A e \in Stored :
        rows[e].status = FAILED /\ rows[e].attempts <= MaxAttempts + 1
            => rows[e].error # NoError

\* At any number of attempts, a failed row loses its reason in one way only: the
\* commit of a last attempt that is a retry, where a redrive has reset the row
\* since it was loaded.
WithoutReason(row) == row.status = FAILED /\ row.error = NoError

ReasonIsLostOnlyToReset ==
    [][\A e \in Events :
          WithoutReason(rows'[e]) /\ ~WithoutReason(rows[e]) =>
              \E w \in Workers :
                  /\ worker[w].pc = "loaded"
                  /\ worker[w].envelope = _queue_payload(e, MaxAttempts)
                  /\ worker[w].loaded.status = PENDING
                  /\ worker[w].loaded.error # NoError
                  /\ rows[e] = mark_pending(worker[w].loaded)]_vars

\* An unprocessed event whose remaining copies are all in the dead-letter queue
\* is failed, so GET /events/summary and the dead-letter depth agree once the
\* worker is idle, as tools/smoke_check.py expects.  Redrives do not change that
\* until the event has been through all its attempts twice: then the second
\* dead-lettering can overtake mark_events_pending, which comes after the
\* redrive's publishes and leaves a pending row behind.
DeadLetteredIsFailed ==
    \A p \in QueuePayload :
        (/\ queue["dead"][p] > 0
         /\ rows[p.event].status # PROCESSED
         /\ rows[p.event].attempts < 2 * MaxAttempts
         /\ \A a \in Attempts : LET c == _queue_payload(p.event, a)
                                IN  /\ queue["main"][c] = 0 /\ queue["retry"][c] = 0
                                    /\ \A w \in Workers : ~AtWorker(w, c))
        => rows[p.event].status = FAILED

\* A published event settles: for ever processed, or for ever with a message
\* that waits for an operator (dead-lettered, or orphaned by a failed redrive).
Settled(e) ==
    \/ rows[e].status = PROCESSED
    \/ \E a \in Attempts : LET p == _queue_payload(e, a)
                           IN  queue["dead"][p] > 0 \/ orphans[p] > 0

EventsSettle == \A e \in Events : <>[](e \in published => Settled(e))

\* "Processed event cannot be retried", the 409 of the retry endpoint, stated of
\* the event and not of the row the endpoint reads: no retry is accepted once an
\* attempt has committed success.
ProcessedCannotBeRetried ==
    [][\A o \in Operators :
          operator[o].pc = "idle" /\ operator'[o].pc = "enqueue"
             => operator'[o].event \notin succeeded]_vars

=============================================================================
