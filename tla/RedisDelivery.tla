--------------------------- MODULE RedisDelivery ---------------------------
(***************************************************************************)
(* The asynchronous half of the service with TASK_QUEUE_BACKEND=redis: a   *)
(* list of event ids that the API and the worker push to with RPUSH and    *)
(* workers pop from with BLPOP.  Nothing is acknowledged, a message has no *)
(* attempt number, and there is no delay and no dead-letter queue.         *)
(*                                                                         *)
(* Redis is external and modelled from how app/queue.py uses it and how    *)
(* docker-compose.yml starts it: commands are atomic, and nothing is       *)
(* persisted ("--save "" --appendonly no"), so a restart empties the list. *)
(***************************************************************************)
EXTENDS EventStore, Sequences

CONSTANTS
    Events,       \* event ids, one for each request that stores a row
    Payloads,     \* payloads senders use
    Workers,      \* worker processes
    MaxAttempts,  \* settings.rabbitmq_max_delivery_attempts, read by worker.py all the same
    CountLimit,   \* bound: processing_attempts stops counting here, or NoLimit
    MaxFaults,    \* bound: faults of workers, API and Redis
    MaxCalls      \* bound: operator retries

\* The code counts without a limit.
NoLimit == -1

ASSUME RedisAssumption ==
    /\ Payloads \subseteq Payload
    /\ MaxAttempts \in Nat \ {0}
    /\ CountLimit \in Nat \cup {NoLimit}
    /\ MaxFaults \in Nat
    /\ MaxCalls \in Nat

VARIABLES
    rows,       \* the events table
    requests,   \* API requests between their database step and their RPUSH, by event
    list,       \* the Redis list event_queue_name, head first
    worker,     \* control state of each worker
    published,  \* history: events that were pushed
    dropped,    \* history: events of which a fault destroyed a copy
    succeeded,  \* history: events with a committed successful attempt
    faults,
    calls

vars == <<rows, requests, list, worker, published, dropped, succeeded, faults, calls>>

NoRow == [status |-> "absent"]

Stored == {e \in Events : rows[e] # NoRow}

Polling == [pc |-> "poll"]

WorkerState == [pc : {"poll"}] \cup [pc : {"got", "failed"}, event : Events]
               \cup [pc : {"loaded"}, event : Events, loaded : Event]

Init ==
    /\ rows = [e \in Events |-> NoRow]
    /\ requests = [e \in Events |-> 0]
    /\ list = <<>>
    /\ worker = [w \in Workers |-> Polling]
    /\ published = {} /\ dropped = {} /\ succeeded = {}
    /\ faults = 0 /\ calls = 0

Fault == faults < MaxFaults /\ faults' = faults + 1

-----------------------------------------------------------------------------
(* The API: POST /webhook and POST /events/{event_id}/retry *)

CreateEvent(e, payload) ==
    /\ rows[e] = NoRow
    /\ rows' = [rows EXCEPT ![e] = create_event(payload)]
    /\ requests' = [requests EXCEPT ![e] = @ + 1]
    /\ UNCHANGED <<list, worker, published, dropped, succeeded, faults, calls>>

RetryEvent(e) ==
    /\ calls < MaxCalls /\ calls' = calls + 1
    /\ e \in Stored
    /\ rows[e].status # PROCESSED
    /\ requests' = [requests EXCEPT ![e] = @ + 1]
    /\ UNCHANGED <<rows, list, worker, published, dropped, succeeded, faults>>

\* Mutant: LPUSH, a failing event goes to the head.
PushToHead(e) == list' = <<e>> \o list /\ published' = published \cup {e}

enqueue_event(e) == list' = Append(list, e) /\ published' = published \cup {e}

EnqueueRequested(e) ==
    /\ requests[e] > 0
    /\ requests' = [requests EXCEPT ![e] = @ - 1]
    /\ enqueue_event(e)
    /\ UNCHANGED <<rows, worker, dropped, succeeded, faults, calls>>

\* RPUSH fails, or its reply is lost: the request ends with 503.
EnqueueFails(e) ==
    /\ requests[e] > 0
    /\ Fault
    /\ requests' = [requests EXCEPT ![e] = @ - 1]
    /\ enqueue_event(e) \/ UNCHANGED <<list, published>>
    /\ UNCHANGED <<rows, worker, dropped, succeeded, calls>>

ApiRestart ==
    /\ Fault
    /\ requests' = [e \in Events |-> 0]
    /\ UNCHANGED <<rows, list, worker, published, dropped, succeeded, calls>>

-----------------------------------------------------------------------------
(* app/worker.py *)

Goto(w, state) == worker' = [worker EXCEPT ![w] = state]

\* Mutant: the id is read and left in the list.
PeekEvent(w) ==
    /\ worker[w].pc = "poll"
    /\ list # <<>>
    /\ Goto(w, [pc |-> "got", event |-> Head(list)])
    /\ UNCHANGED <<rows, requests, list, published, dropped, succeeded, faults, calls>>

dequeue_event(w) ==
    /\ worker[w].pc = "poll"
    /\ list # <<>>
    /\ Goto(w, [pc |-> "got", event |-> Head(list)])
    /\ list' = Tail(list)
    /\ UNCHANGED <<rows, requests, published, dropped, succeeded, faults, calls>>

\* Redis pops for a worker that no longer reads the reply: the process died, or
\* the client's socket_timeout (2 s) ran out before BLPOP's timeout (5 s by
\* default), which raises, ends the worker and closes its connection.
PollReplyLost(w) ==
    /\ worker[w].pc = "poll"
    /\ list # <<>>
    /\ Fault
    /\ list' = Tail(list)
    /\ dropped' = dropped \cup {Head(list)}
    /\ UNCHANGED <<rows, requests, worker, published, succeeded, calls>>

LoadEvent(w) ==
    /\ worker[w].pc = "got"
    /\ Goto(w, [pc |-> "loaded", event |-> worker[w].event, loaded |-> rows[worker[w].event]])
    /\ UNCHANGED <<rows, requests, list, published, dropped, succeeded, faults, calls>>

\* Every envelope of this backend is attempt 1.
FinalAttempt == 1 >= MaxAttempts

Counted(row) ==
    [row EXCEPT !.attempts = IF CountLimit # NoLimit /\ @ > CountLimit THEN CountLimit ELSE @]

\* After a success complete_event has nothing to acknowledge.
CommitAttempt(w) ==
    /\ worker[w].pc = "loaded"
    /\ LET e      == worker[w].event
           loaded == worker[w].loaded
       IN  /\ rows' = [rows EXCEPT ![e] =
                         Counted(commit(@, loaded, process_event(loaded, FinalAttempt)))]
           /\ Goto(w, IF Raises(loaded) THEN [pc |-> "failed", event |-> e] ELSE Polling)
           /\ succeeded' = IF Raises(loaded) THEN succeeded ELSE succeeded \cup {e}
    /\ UNCHANGED <<requests, list, published, dropped, faults, calls>>

\* Mutant: a failed event is completed like a processed one.
RetryForgets(w) ==
    /\ worker[w].pc = "failed"
    /\ Goto(w, Polling)
    /\ UNCHANGED <<rows, requests, list, published, dropped, succeeded, faults, calls>>

retry_or_dead_letter(w) ==
    /\ worker[w].pc = "failed"
    /\ enqueue_event(worker[w].event)
    /\ Goto(w, Polling)
    /\ UNCHANGED <<rows, requests, dropped, succeeded, faults, calls>>

run_worker(w) ==
    \/ dequeue_event(w)
    \/ LoadEvent(w)
    \/ CommitAttempt(w)
    \/ retry_or_dead_letter(w)

\* Every exception escapes run_worker, and what was popped is gone.
WorkerRestart(w) ==
    /\ worker[w].pc # "poll"
    /\ Fault
    /\ dropped' = dropped \cup {worker[w].event}
    /\ Goto(w, Polling)
    /\ UNCHANGED <<rows, requests, list, published, succeeded, calls>>

RedisRestart ==
    /\ list # <<>>
    /\ Fault
    /\ dropped' = dropped \cup {list[i] : i \in DOMAIN list}
    /\ list' = <<>>
    /\ UNCHANGED <<rows, requests, worker, published, succeeded, calls>>

-----------------------------------------------------------------------------

Quiescent ==
    /\ Stored = Events
    /\ \A e \in Events : requests[e] = 0
    /\ list = <<>>
    /\ \A w \in Workers : worker[w].pc = "poll"

Next ==
    \/ \E e \in Events :
          \/ \E payload \in Payloads : CreateEvent(e, payload)
          \/ RetryEvent(e) \/ EnqueueRequested(e) \/ EnqueueFails(e)
    \/ \E w \in Workers : run_worker(w) \/ PollReplyLost(w) \/ WorkerRestart(w)
    \/ ApiRestart
    \/ RedisRestart
    \/ Quiescent /\ UNCHANGED vars

Spec == Init /\ [][Next]_vars

\* Workers poll for ever, also after a restart; requests in flight go on.
FairSpec ==
    /\ Spec
    /\ \A e \in Events : WF_vars(EnqueueRequested(e))
    /\ \A w \in Workers : WF_vars(run_worker(w))

-----------------------------------------------------------------------------
(* Properties *)

\* Every variable keeps its type, the list and the envelopes included.
TypeOK ==
    /\ rows \in [Events -> Event \cup {NoRow}]
    /\ requests \in [Events -> Nat]
    /\ list \in Seq(Events)
    /\ worker \in [Workers -> WorkerState]
    /\ published \subseteq Events /\ dropped \subseteq Events /\ succeeded \subseteq Events
    /\ faults \in 0..MaxFaults /\ calls \in 0..MaxCalls

InList(e) == {i \in DOMAIN list : list[i] = e}

AtWorkers(e) == {w \in Workers : worker[w].pc # "poll" /\ worker[w].event = e}

\* What is left of at-least-once without acknowledgements: a pushed event is in
\* the list or at a worker until an attempt has committed success, or a fault
\* destroyed a copy of it.  No failed attempt and no other event's failure
\* loses one.
LostOnlyByFault ==
    \A e \in published \ succeeded : InList(e) # {} \/ AtWorkers(e) # {} \/ e \in dropped

Lifecycle == INSTANCE EventLifecycle WITH
                status   <- [e \in Events |-> rows[e].status],
                attempts <- [e \in Events |-> IF rows[e] = NoRow THEN 0 ELSE rows[e].attempts]

\* The table keeps the promises of EventLifecycle with any number of workers, as
\* long as no operator retries: a pop hands an event to one worker only, so the
\* load and the commit of an attempt never interleave with another's.  (With
\* RabbitMQ redelivery this takes a single worker.)
FollowsLifecycle ==
    [][calls' = 0 => Lifecycle!Next \/ UNCHANGED Lifecycle!lifecycle]_vars

\* An event that stops failing is processed, although failing events are pushed
\* back for ever without delay or limit: RPUSH and BLPOP make the list a FIFO
\* queue, so an event that always fails cannot starve the others.
RecoverableSettle ==
    \A e \in Events :
        <>[](e \in published /\ ~rows[e].payload.force
                => rows[e].status = PROCESSED \/ e \in dropped)

=============================================================================
