--------------------------- MODULE DeliveryProofs ---------------------------
(***************************************************************************)
(* Proofs about Delivery, for any sets of events, payloads, workers and    *)
(* operator requests, any attempt limit and any number of faults.          *)
(***************************************************************************)
EXTENDS Delivery, FiniteSetTheorems, TLAPS

-----------------------------------------------------------------------------
(* Rows *)

\* crud.create_event stores a well-formed row.
LEMMA CreateEventType ==
    ASSUME NEW payload \in Payload
    PROVE  create_event(payload) \in Event /\ create_event(payload) # NoRow
BY DEF create_event, Event, NoRow, ProcessingStatus, PENDING, PROCESSED, FAILED, ErrorMessage

\* A stored row is not the absent one.
LEMMA EventIsRow == \A row \in Event : row # NoRow
BY DEF Event, NoRow, ProcessingStatus, PENDING, PROCESSED, FAILED

\* mark_events_pending keeps a row well-formed.
LEMMA MarkPendingType ==
    ASSUME NEW row \in Event
    PROVE  mark_pending(row) \in Event
BY DEF mark_pending, Event, ProcessingStatus, PENDING, PROCESSED, FAILED, ErrorMessage

\* process_event leaves a well-formed object.
LEMMA ProcessEventType ==
    ASSUME NEW row \in Event, NEW final \in BOOLEAN
    PROVE  process_event(row, final) \in Event
<1>1. row.payload.remaining \in Int /\ row.payload.force \in BOOLEAN /\ row.attempts \in Nat
  BY DEF Event, Payload
<1>2. CASE Raises(row)
  <2>1. [remaining |-> IF row.payload.remaining > 0
                       THEN row.payload.remaining - 1
                       ELSE row.payload.remaining,
         force     |-> row.payload.force] \in Payload
    BY <1>1 DEF Payload
  <2> QED  BY <1>1, <1>2, <2>1 DEF process_event, Event, ProcessingStatus, ErrorMessage
<1>3. CASE ~Raises(row)
  BY <1>1, <1>3 DEF process_event, Event, ProcessingStatus, ErrorMessage
<1> QED  BY <1>2, <1>3

\* A commit of a well-formed object keeps the row well-formed, whichever of its
\* columns it writes.
LEMMA CommitType ==
    ASSUME NEW row \in Event, NEW loaded \in Event, NEW obj \in Event
    PROVE  commit(row, loaded, obj) \in Event
BY DEF commit, Column, Event

-----------------------------------------------------------------------------
(* Messages and control states *)

\* Every attempt number between 1 and the limit makes a message body.
LEMMA QueuePayloadType ==
    ASSUME NEW e \in Events, NEW a \in Attempts
    PROVE  /\ _queue_payload(e, a) \in QueuePayload
           /\ _queue_payload(e, a).event = e
           /\ _queue_payload(e, a).attempt = a
BY DEF _queue_payload, QueuePayload

\* A message starts at attempt 1, which the limit always allows.
LEMMA FirstAttempt == 1 \in Attempts
BY ConstantsAssumption DEF Attempts

\* A publish adds one copy to one queue.
LEMMA PublishType ==
    ASSUME queue \in [Queues -> [QueuePayload -> Nat]],
           NEW q \in Queues, NEW p \in QueuePayload, _publish_to_rabbitmq(q, p)
    PROVE  /\ queue' \in [Queues -> [QueuePayload -> Nat]]
           /\ queue'[q][p] > 0
           /\ \A q2 \in Queues, p2 \in QueuePayload :
                 /\ queue[q2][p2] > 0 => queue'[q2][p2] > 0
                 /\ queue'[q2][p2] > 0 => queue[q2][p2] > 0 \/ p2 = p
BY DEF _publish_to_rabbitmq

\* What a busy worker holds.
LEMMA WorkerFields ==
    ASSUME NEW s \in WorkerState, s.pc # "poll"
    PROVE  /\ s.envelope \in QueuePayload
           /\ s.owned \in BOOLEAN
           /\ s.pc = "loaded" => s.loaded \in Event
           /\ [s EXCEPT !.owned = FALSE] \in WorkerState
           /\ [s EXCEPT !.owned = FALSE].owned = FALSE
           /\ [s EXCEPT !.owned = FALSE].pc = s.pc
           /\ [s EXCEPT !.owned = FALSE].envelope = s.envelope
           /\ s.pc = "loaded" => [s EXCEPT !.owned = FALSE].loaded = s.loaded
BY DEF WorkerState

\* What an operator request holds.
LEMMA OperatorFields ==
    ASSUME NEW s \in OperatorState
    PROVE  /\ s.pc = "enqueue" => s.event \in Events
           /\ s.pc \in {"redrive", "publish", "ack", "mark"} => s.redriven \in SUBSET Events
           /\ s.pc = "redrive" => s.left \in Nat
           /\ s.pc \in {"publish", "ack"} =>
                 /\ s.left \in Nat \ {0}
                 /\ s.message \in QueuePayload
                 /\ s.owned \in BOOLEAN
                 /\ [s EXCEPT !.owned = FALSE] \in OperatorState
                 /\ [s EXCEPT !.owned = FALSE].owned = FALSE
                 /\ [s EXCEPT !.owned = FALSE].pc = s.pc
                 /\ [s EXCEPT !.owned = FALSE].message = s.message
                 /\ [s EXCEPT !.owned = FALSE].redriven = s.redriven
BY DEF OperatorState

-----------------------------------------------------------------------------
(* The inductive invariant *)

\* Whatever the system works on belongs to a stored row.  NoDanglingMessage
\* needs the control states too: an event is on its way into a queue while a
\* request holds it, and TypeOK needs it because a worker loads a row it has
\* not created.
Referenced ==
    /\ \A e \in Events : intake[e] # "new" => e \in Stored
    /\ \A p \in QueuePayload :
          (\E q \in Queues : queue[q][p] > 0) \/ orphans[p] > 0 => p.event \in Stored
    /\ \A w \in Workers : worker[w].pc # "poll" => worker[w].envelope.event \in Stored
    /\ \A o \in Operators :
          /\ operator[o].pc = "enqueue" => operator[o].event \in Stored
          /\ operator[o].pc \in {"redrive", "publish", "ack", "mark"}
                => operator[o].redriven \subseteq Stored
          /\ operator[o].pc \in {"publish", "ack"} => operator[o].message.event \in Stored

\* A copy of p that the next acknowledgement does not remove: in a queue, or
\* unacknowledged at an actor that has not published a successor yet.
Secured(p) ==
    \/ \E q \in Queues : queue[q][p] > 0
    \/ orphans[p] > 0
    \/ \E w \in Workers : AtWorker(w, p) /\ worker[w].pc # "routed"
    \/ \E o \in Operators : Holds(o, p) /\ operator[o].pc # "ack"

\* AtLeastOnce is not inductive: an acknowledgement removes a copy, and it is
\* harmless only because the successor of a routed or redriven message was
\* published before, and because a processed envelope's event has succeeded.
SecuredUntilSuccess ==
    /\ \A e \in published \ succeeded : \E p \in QueuePayload : p.event = e /\ Secured(p)
    /\ \A w \in Workers : worker[w].pc = "processed" => worker[w].envelope.event \in succeeded

IInv == TypeOK /\ Referenced /\ SecuredUntilSuccess

-----------------------------------------------------------------------------
(* Initial states and steps of the API's intake *)

\* The empty system satisfies the invariant.
LEMMA InitIInv == Init => IInv
<1> SUFFICES ASSUME Init PROVE IInv
  OBVIOUS
<1>1. TypeOK
  BY ConstantsAssumption DEF Init, TypeOK, IntakeState, WorkerState, OperatorState
<1>2. Referenced
  BY DEF Init, Referenced, Queues
<1>3. SecuredUntilSuccess
  BY DEF Init, SecuredUntilSuccess
<1> QED  BY <1>1, <1>2, <1>3 DEF IInv

\* POST /webhook commits a new row.
LEMMA CreateEventStep ==
    ASSUME IInv, NEW e \in Events, NEW payload \in Payloads, CreateEvent(e, payload)
    PROVE  IInv'
<1> USE DEF IInv, CreateEvent
<1>1. create_event(payload) \in Event /\ create_event(payload) # NoRow
  BY CreateEventType, ConstantsAssumption
<1>2. TypeOK'
  BY <1>1 DEF TypeOK, IntakeState
<1>3. Stored \subseteq Stored' /\ e \in Stored'
  BY <1>1 DEF Stored, TypeOK
<1>4. Referenced'
  BY <1>3 DEF Referenced, TypeOK
<1>5. SecuredUntilSuccess'
  BY DEF SecuredUntilSuccess, Secured, AtWorker, Holds
<1> QED  BY <1>2, <1>4, <1>5

\* A publish to the main queue for a stored event, by POST /webhook or by the
\* retry endpoint, preserves the invariant whatever becomes of the request.
LEMMA EnqueueKeeps ==
    ASSUME IInv, NEW e \in Stored, enqueue_event(e),
           UNCHANGED <<rows, worker, orphans, succeeded>>,
           \A o \in Operators : operator'[o] = operator[o] \/ operator'[o] = [pc |-> "idle"],
           \A o \in Operators : operator'[o] = operator[o] \/ operator[o].pc = "enqueue",
           \A f \in Events : intake'[f] # "new" => intake[f] # "new"
    PROVE  /\ queue' \in [Queues -> [QueuePayload -> Nat]]
           /\ published' \in SUBSET Events
           /\ Referenced'
           /\ SecuredUntilSuccess'
<1> DEFINE p == _queue_payload(e, 1)
<1>1. e \in Events /\ p \in QueuePayload /\ p.event = e
  BY QueuePayloadType, FirstAttempt DEF Stored
<1>2. /\ queue' \in [Queues -> [QueuePayload -> Nat]]
      /\ queue'["main"][p] > 0
      /\ \A q2 \in Queues, p2 \in QueuePayload :
            /\ queue[q2][p2] > 0 => queue'[q2][p2] > 0
            /\ queue'[q2][p2] > 0 => queue[q2][p2] > 0 \/ p2 = p
  BY <1>1, PublishType DEF enqueue_event, IInv, TypeOK, Queues
<1>3. Stored' = Stored
  BY DEF Stored
<1>4. published' = published \cup {e} /\ published \in SUBSET Events
  BY DEF enqueue_event, IInv, TypeOK
<1>5. Referenced'
  <2>1. \A f \in Events : intake'[f] # "new" => f \in Stored'
    BY <1>3 DEF IInv, Referenced
  <2>2. \A r \in QueuePayload :
           (\E q \in Queues : queue'[q][r] > 0) \/ orphans'[r] > 0 => r.event \in Stored'
    BY <1>1, <1>2, <1>3 DEF IInv, Referenced
  <2>3. \A w \in Workers : worker'[w].pc # "poll" => worker'[w].envelope.event \in Stored'
    BY <1>3 DEF IInv, Referenced
  <2>4. \A o \in Operators :
          /\ operator'[o].pc = "enqueue" => operator'[o].event \in Stored'
          /\ operator'[o].pc \in {"redrive", "publish", "ack", "mark"}
                => operator'[o].redriven \subseteq Stored'
          /\ operator'[o].pc \in {"publish", "ack"} => operator'[o].message.event \in Stored'
    BY <1>3 DEF IInv, Referenced
  <2> QED  BY <2>1, <2>2, <2>3, <2>4 DEF Referenced
<1>6. \A r \in QueuePayload : Secured(r) => Secured(r)'
  BY <1>2 DEF Secured, AtWorker, Holds, IInv
<1>7. Secured(p)'
  BY <1>1, <1>2 DEF Secured, Queues
<1>8. SecuredUntilSuccess'
  BY <1>1, <1>4, <1>6, <1>7 DEF SecuredUntilSuccess, IInv
<1> QED  BY <1>1, <1>2, <1>4, <1>5, <1>8

\* POST /webhook publishes the event it stored.
LEMMA EnqueueCreatedStep ==
    ASSUME IInv, NEW e \in Events, EnqueueCreated(e)
    PROVE  IInv'
<1>1. e \in Stored
  BY DEF IInv, Referenced, EnqueueCreated
<1>2. /\ queue' \in [Queues -> [QueuePayload -> Nat]]
      /\ published' \in SUBSET Events
      /\ Referenced'
      /\ SecuredUntilSuccess'
  BY <1>1, EnqueueKeeps DEF EnqueueCreated, IInv, TypeOK
<1>3. TypeOK'
  BY <1>2 DEF EnqueueCreated, IInv, TypeOK, IntakeState
<1> QED  BY <1>2, <1>3 DEF IInv

\* Its publish fails, before or after the broker took the message.
LEMMA EnqueueFailsStep ==
    ASSUME IInv, NEW e \in Events, EnqueueFails(e)
    PROVE  IInv'
<1>1. e \in Stored
  BY DEF IInv, Referenced, EnqueueFails
<1>2. /\ queue' \in [Queues -> [QueuePayload -> Nat]]
      /\ published' \in SUBSET Events
      /\ Referenced'
      /\ SecuredUntilSuccess'
  <2>1. CASE enqueue_event(e)
    BY <1>1, <2>1, EnqueueKeeps DEF EnqueueFails, IInv, TypeOK
  <2>2. CASE UNCHANGED <<queue, published>>
    BY <1>1, <2>2 DEF EnqueueFails, IInv, TypeOK, Referenced, Stored,
                      SecuredUntilSuccess, Secured, AtWorker, Holds
  <2> QED  BY <2>1, <2>2 DEF EnqueueFails
<1>3. TypeOK'
  BY <1>2, ConstantsAssumption DEF EnqueueFails, Fault, IInv, TypeOK, IntakeState
<1> QED  BY <1>2, <1>3 DEF IInv

\* The retry endpoint publishes the event it looked up.
LEMMA EnqueueRetryStep ==
    ASSUME IInv, NEW o \in Operators, EnqueueRetry(o)
    PROVE  IInv'
<1>1. operator[o].event \in Stored
  BY DEF IInv, Referenced, EnqueueRetry
<1>2. \A u \in Operators : operator'[u] = IF u = o THEN [pc |-> "idle"] ELSE operator[u]
  BY DEF EnqueueRetry, IInv, TypeOK
<1>3. /\ queue' \in [Queues -> [QueuePayload -> Nat]]
      /\ published' \in SUBSET Events
      /\ Referenced'
      /\ SecuredUntilSuccess'
  BY <1>1, <1>2, EnqueueKeeps DEF EnqueueRetry
<1>4. TypeOK'
  BY <1>3 DEF EnqueueRetry, IInv, TypeOK, OperatorState
<1> QED  BY <1>3, <1>4 DEF IInv

-----------------------------------------------------------------------------
(* Steps of the broker and of a worker *)

\* Moving one copy between queues, or from the main queue to a worker, loses none.
LEMMA RetryDelayExpiresStep ==
    ASSUME IInv, NEW p \in QueuePayload, RetryDelayExpires(p)
    PROVE  IInv'
<1> USE DEF IInv, RetryDelayExpires
<1>1. TypeOK'
  BY DEF TypeOK, Queues
<1>2. \A r \in QueuePayload :
         (\E q \in Queues : queue'[q][r] > 0) <=> (\E q \in Queues : queue[q][r] > 0)
  BY DEF TypeOK, Queues
<1>3. Referenced'
  BY <1>2 DEF Referenced, Stored
<1>4. \A r \in QueuePayload : Secured(r) => Secured(r)'
  BY <1>2 DEF Secured, AtWorker, Holds
<1>5. SecuredUntilSuccess'
  BY <1>4 DEF SecuredUntilSuccess
<1> QED  BY <1>1, <1>3, <1>5

\* A worker takes a message from the main queue.
LEMMA DequeueStep ==
    ASSUME IInv, NEW w \in Workers, NEW p \in QueuePayload, dequeue_event(w, p)
    PROVE  IInv'
<1> USE DEF IInv, dequeue_event
<1>1. TypeOK'
  BY DEF TypeOK, Queues, WorkerState
<1>2. \A q \in Queues, r \in QueuePayload :
         /\ queue'[q][r] > 0 => queue[q][r] > 0
         /\ queue[q][r] > 0 /\ r # p => queue'[q][r] > 0
  BY DEF TypeOK, Queues
<1>3. \A v \in Workers :
         worker'[v] = IF v = w THEN [pc |-> "got", envelope |-> p, owned |-> TRUE] ELSE worker[v]
  BY DEF TypeOK
<1>4. p.event \in Stored
  BY DEF Referenced, Queues
<1>5. Referenced'
  BY <1>2, <1>3, <1>4 DEF Referenced, Stored
<1>6. \A r \in QueuePayload : Secured(r) => Secured(r)'
  <2> SUFFICES ASSUME NEW r \in QueuePayload, Secured(r) PROVE Secured(r)'
    OBVIOUS
  <2>1. CASE r = p
    BY <1>3, <2>1 DEF Secured, AtWorker
  <2>2. CASE r # p
    BY <1>2, <1>3, <2>2 DEF Secured, AtWorker, Holds
  <2> QED  BY <2>1, <2>2
<1>7. SecuredUntilSuccess'
  BY <1>3, <1>6 DEF SecuredUntilSuccess
<1> QED  BY <1>1, <1>5, <1>7

\* A step of one busy worker that keeps its envelope and leaves the queues alone.
LEMMA WorkerMoves ==
    ASSUME IInv, NEW w \in Workers, worker[w].pc # "poll",
           worker'[w].pc # "poll", worker[w].pc # "routed", worker'[w].pc # "routed",
           worker'[w].envelope = worker[w].envelope, worker'[w].owned = worker[w].owned,
           worker'[w].pc = "processed" => worker[w].envelope.event \in succeeded',
           \A v \in Workers \ {w} : worker'[v] = worker[v],
           succeeded \subseteq succeeded', Stored \subseteq Stored',
           UNCHANGED <<intake, queue, operator, orphans, published>>
    PROVE  Referenced' /\ SecuredUntilSuccess'
<1>1. Referenced'
  BY DEF IInv, Referenced
<1>2. \A p \in QueuePayload : Secured(p) => Secured(p)'
  BY DEF Secured, AtWorker, Holds
<1>3. SecuredUntilSuccess'
  BY <1>2 DEF IInv, SecuredUntilSuccess
<1> QED  BY <1>1, <1>3

\* The worker loads the row, which exists.
LEMMA LoadEventStep ==
    ASSUME IInv, NEW w \in Workers, LoadEvent(w)
    PROVE  IInv'
<1> DEFINE s == worker[w]
<1>1. s \in WorkerState /\ s.pc = "got"
  BY DEF IInv, TypeOK, LoadEvent
<1>2. s.envelope \in QueuePayload /\ s.owned \in BOOLEAN
  BY <1>1, WorkerFields
<1>3. s.envelope.event \in Stored
  BY <1>1 DEF IInv, Referenced
<1>4. rows[s.envelope.event] \in Event
  BY <1>3 DEF IInv, TypeOK, Stored
<1>5. \A v \in Workers :
         worker'[v] = IF v = w
                      THEN [pc |-> "loaded", envelope |-> s.envelope, owned |-> s.owned,
                            loaded |-> rows[s.envelope.event]]
                      ELSE worker[v]
  BY DEF IInv, TypeOK, LoadEvent
<1>6. TypeOK'
  <2>1. worker' \in [Workers -> WorkerState]
    BY <1>2, <1>4 DEF IInv, TypeOK, LoadEvent, WorkerState
  <2> QED  BY <2>1 DEF IInv, TypeOK, LoadEvent
<1>7. Referenced' /\ SecuredUntilSuccess'
  BY <1>1, <1>5, WorkerMoves DEF LoadEvent, Stored
<1> QED  BY <1>6, <1>7 DEF IInv

\* The worker commits the outcome of its attempt.
LEMMA CommitAttemptStep ==
    ASSUME IInv, NEW w \in Workers, CommitAttempt(w)
    PROVE  IInv'
<1> DEFINE s   == worker[w]
           e   == s.envelope.event
           obj == process_event(s.loaded, FinalAttempt(s.envelope))
           t   == [pc       |-> IF Raises(s.loaded) THEN "failed" ELSE "processed",
                   envelope |-> s.envelope,
                   owned    |-> s.owned]
<1>1. s \in WorkerState /\ s.pc = "loaded"
  BY DEF IInv, TypeOK, CommitAttempt
<1>2. s.envelope \in QueuePayload /\ s.owned \in BOOLEAN /\ s.loaded \in Event
  BY <1>1, WorkerFields
<1>3. e \in Stored /\ e \in Events
  BY <1>1 DEF IInv, Referenced, Stored
<1>4. rows[e] \in Event
  BY <1>3 DEF IInv, TypeOK, Stored
<1>5. FinalAttempt(s.envelope) \in BOOLEAN
  BY DEF FinalAttempt
<1>6. commit(rows[e], s.loaded, obj) \in Event
  BY <1>2, <1>4, <1>5, ProcessEventType, CommitType
<1>7. rows' = [rows EXCEPT ![e] = commit(rows[e], s.loaded, obj)]
  BY DEF CommitAttempt
<1>8. rows' \in [Events -> Event \cup {NoRow}] /\ Stored' = Stored
  BY <1>3, <1>4, <1>6, <1>7, EventIsRow DEF IInv, TypeOK, Stored
<1>9. worker' = [worker EXCEPT ![w] = t]
  BY DEF CommitAttempt
<1>10. t \in WorkerState
  BY <1>2 DEF WorkerState
<1>11. worker' \in [Workers -> WorkerState] /\ worker'[w] = t
  BY <1>9, <1>10 DEF IInv, TypeOK
<1>12. /\ succeeded' \in SUBSET Events
       /\ succeeded \subseteq succeeded'
       /\ ~Raises(s.loaded) => e \in succeeded'
  BY <1>3 DEF CommitAttempt, IInv, TypeOK
<1>13. UNCHANGED <<intake, queue, operator, orphans, published, faults, calls>>
  BY DEF CommitAttempt
<1>14. TypeOK'
  BY <1>8, <1>11, <1>12, <1>13 DEF IInv, TypeOK
<1>15. \A v \in Workers \ {w} : worker'[v] = worker[v]
  BY <1>9 DEF IInv, TypeOK
<1>16. /\ t.pc \in {"failed", "processed"} /\ t.envelope = s.envelope /\ t.owned = s.owned
       /\ t.pc = "processed" => ~Raises(s.loaded)
  OBVIOUS
<1> HIDE DEF t
<1>17. Referenced' /\ SecuredUntilSuccess'
  BY <1>1, <1>8, <1>11, <1>12, <1>13, <1>15, <1>16, WorkerMoves
<1> QED  BY <1>14, <1>17 DEF IInv

\* A worker goes back to polling after an acknowledgement.  The copy it held
\* is not needed: it was routed, or its event has succeeded.
LEMMA WorkerAcks ==
    ASSUME IInv, NEW w \in Workers, worker[w].pc \in {"processed", "routed"},
           worker' = [worker EXCEPT ![w] = [pc |-> "poll"]],
           UNCHANGED <<rows, intake, queue, operator, orphans, published, succeeded, faults, calls>>
    PROVE  IInv'
<1>1. \A v \in Workers : worker'[v] = IF v = w THEN [pc |-> "poll"] ELSE worker[v]
  BY DEF IInv, TypeOK
<1>2. TypeOK'
  BY DEF IInv, TypeOK, WorkerState
<1>3. Referenced'
  BY <1>1 DEF IInv, Referenced, Stored
<1>4. \A p \in QueuePayload : Secured(p) /\ p.event \notin succeeded => Secured(p)'
  BY <1>1 DEF IInv, SecuredUntilSuccess, Secured, AtWorker, Holds
<1>5. SecuredUntilSuccess'
  BY <1>1, <1>4 DEF IInv, SecuredUntilSuccess
<1> QED  BY <1>2, <1>3, <1>5 DEF IInv

\* The worker publishes the successor of a failed message, to the retry queue or
\* to the dead-letter queue.
LEMMA PublishFailedStep ==
    ASSUME IInv, NEW w \in Workers, PublishFailed(w)
    PROVE  IInv'
<1> DEFINE s == worker[w]
           t == [pc |-> "routed", envelope |-> s.envelope, owned |-> s.owned]
<1>1. s \in WorkerState /\ s.pc = "failed"
  BY DEF IInv, TypeOK, PublishFailed
<1>2. s.envelope \in QueuePayload /\ s.owned \in BOOLEAN
  BY <1>1, WorkerFields
<1>3. s.envelope.event \in Stored /\ s.envelope.event \in Events /\ s.envelope.attempt \in Attempts
  BY <1>1, <1>2 DEF IInv, Referenced, Stored, QueuePayload
<1>4. PICK q \in Queues, p \in QueuePayload :
         p.event = s.envelope.event /\ _publish_to_rabbitmq(q, p)
  <2>1. CASE s.envelope.attempt + 1 <= MaxAttempts
    <3>1. s.envelope.attempt + 1 \in Attempts
      BY <1>3, <2>1, ConstantsAssumption DEF Attempts
    <3>2. _publish_to_rabbitmq("retry", _queue_payload(s.envelope.event, s.envelope.attempt + 1))
      BY <2>1 DEF PublishFailed
    <3> QED  BY <1>3, <3>1, <3>2, QueuePayloadType DEF Queues
  <2>2. CASE ~(s.envelope.attempt + 1 <= MaxAttempts)
    <3>1. _publish_to_rabbitmq("dead", _queue_payload(s.envelope.event, s.envelope.attempt))
      BY <2>2 DEF PublishFailed
    <3> QED  BY <1>3, <3>1, QueuePayloadType DEF Queues
  <2> QED  BY <2>1, <2>2
<1>5. /\ queue' \in [Queues -> [QueuePayload -> Nat]]
      /\ queue'[q][p] > 0
      /\ \A q2 \in Queues, p2 \in QueuePayload :
            /\ queue[q2][p2] > 0 => queue'[q2][p2] > 0
            /\ queue'[q2][p2] > 0 => queue[q2][p2] > 0 \/ p2 = p
  BY <1>4, PublishType DEF IInv, TypeOK
<1>6. worker' = [worker EXCEPT ![w] = t]
  BY DEF PublishFailed
<1>7. \A v \in Workers : worker'[v] = IF v = w THEN t ELSE worker[v]
  BY <1>6 DEF IInv, TypeOK
<1>8. UNCHANGED <<rows, intake, operator, orphans, published, succeeded, faults, calls>>
  BY DEF PublishFailed
<1>9. t \in WorkerState
  BY <1>2 DEF WorkerState
<1>10. TypeOK'
  BY <1>5, <1>6, <1>8, <1>9 DEF IInv, TypeOK
<1>11. Referenced'
  BY <1>3, <1>4, <1>5, <1>7, <1>8 DEF IInv, Referenced, Stored
<1>12. Secured(p)'
  BY <1>4, <1>5 DEF Secured
<1>13. \A r \in QueuePayload : Secured(r) => Secured(r)' \/ r = s.envelope
  BY <1>5, <1>7, <1>8 DEF Secured, AtWorker, Holds
<1>14. SecuredUntilSuccess'
  BY <1>4, <1>7, <1>8, <1>12, <1>13 DEF IInv, SecuredUntilSuccess
<1> QED  BY <1>10, <1>11, <1>14 DEF IInv

\* The channel of a worker closes: a delivery it owned is requeued, and the
\* worker is left polling, or at work on a delivery it no longer owns.
LEMMA WorkerLosesDelivery ==
    ASSUME IInv, NEW w \in Workers, worker[w].pc # "poll", RequeueDelivery(w),
           NEW t \in WorkerState, worker' = [worker EXCEPT ![w] = t],
           \/ t.pc = "poll"
           \/ t.pc = worker[w].pc /\ t.envelope = worker[w].envelope,
           Fault, UNCHANGED <<rows, intake, operator, orphans, published, succeeded, calls>>
    PROVE  IInv'
<1> DEFINE s == worker[w]
<1>1. s \in WorkerState /\ s.envelope \in QueuePayload /\ s.owned \in BOOLEAN
  BY WorkerFields DEF IInv, TypeOK
<1>2. s.envelope.event \in Stored
  BY DEF IInv, Referenced
<1>3. /\ queue' \in [Queues -> [QueuePayload -> Nat]]
      /\ s.owned => queue'["main"][s.envelope] > 0
      /\ \A q2 \in Queues, p2 \in QueuePayload :
            /\ queue[q2][p2] > 0 => queue'[q2][p2] > 0
            /\ queue'[q2][p2] > 0 => queue[q2][p2] > 0 \/ p2 = s.envelope
  BY <1>1 DEF RequeueDelivery, IInv, TypeOK, Queues
<1>4. \A v \in Workers : worker'[v] = IF v = w THEN t ELSE worker[v]
  BY DEF IInv, TypeOK
<1>5. TypeOK'
  BY <1>3, ConstantsAssumption DEF IInv, TypeOK, Fault
<1>6. Referenced'
  BY <1>2, <1>3, <1>4 DEF IInv, Referenced, Stored
<1>7. \A r \in QueuePayload : Secured(r) => Secured(r)'
  <2> SUFFICES ASSUME NEW r \in QueuePayload, Secured(r) PROVE Secured(r)'
    OBVIOUS
  <2>1. CASE r = s.envelope /\ s.owned
    BY <1>3, <2>1 DEF Secured, Queues
  <2>2. CASE ~(r = s.envelope /\ s.owned)
    BY <1>3, <1>4, <2>2 DEF Secured, AtWorker, Holds
  <2> QED  BY <2>1, <2>2
<1>8. SecuredUntilSuccess'
  BY <1>4, <1>7 DEF IInv, SecuredUntilSuccess
<1> QED  BY <1>5, <1>6, <1>8 DEF IInv

\* Every step of run_worker preserves the invariant.
LEMMA RunWorkerStep ==
    ASSUME IInv, NEW w \in Workers, run_worker(w)
    PROVE  IInv'
<1>1. CASE \E p \in QueuePayload : dequeue_event(w, p)
  BY <1>1, DequeueStep
<1>2. CASE LoadEvent(w)
  BY <1>2, LoadEventStep
<1>3. CASE CommitAttempt(w)
  BY <1>3, CommitAttemptStep
<1>4. CASE complete_event(w)
  BY <1>4, WorkerAcks DEF complete_event
<1>5. CASE PublishFailed(w)
  BY <1>5, PublishFailedStep
<1>6. CASE AckRouted(w)
  BY <1>6, WorkerAcks DEF AckRouted
<1> QED  BY <1>1, <1>2, <1>3, <1>4, <1>5, <1>6 DEF run_worker

\* So do a restart and a lost connection of a worker.
LEMMA WorkerFaultStep ==
    ASSUME IInv, NEW w \in Workers, WorkerRestart(w) \/ WorkerConnectionLost(w)
    PROVE  IInv'
<1>1. CASE WorkerRestart(w)
  <2>1. [pc |-> "poll"] \in WorkerState
    BY DEF WorkerState
  <2> QED  BY <1>1, <2>1, WorkerLosesDelivery DEF WorkerRestart
<1>2. CASE WorkerConnectionLost(w)
  <2> DEFINE t == [worker[w] EXCEPT !.owned = FALSE]
  <2>1. worker[w] \in WorkerState /\ worker[w].pc # "poll"
    BY <1>2 DEF WorkerConnectionLost, IInv, TypeOK
  <2>2. t \in WorkerState /\ t.pc = worker[w].pc /\ t.envelope = worker[w].envelope
    BY <2>1, WorkerFields
  <2>3. worker' = [worker EXCEPT ![w] = t]
    BY <1>2 DEF WorkerConnectionLost
  <2> HIDE DEF t
  <2> QED  BY <1>2, <2>1, <2>2, <2>3, WorkerLosesDelivery DEF WorkerConnectionLost
<1> QED  BY <1>1, <1>2

-----------------------------------------------------------------------------
(* Steps of operator requests *)

\* A step of one request that holds no message which needs securing, neither
\* before nor after it, and that leaves queues and rows alone.
LEMMA OperatorMoves ==
    ASSUME IInv, NEW o \in Operators, NEW t \in OperatorState,
           operator' = [operator EXCEPT ![o] = t],
           operator[o].pc # "publish",
           t.pc \in {"idle", "enqueue", "redrive", "mark"},
           t.pc = "enqueue" => t.event \in Stored,
           t.pc \in {"redrive", "mark"} => t.redriven \subseteq Stored,
           calls' \in 0..MaxCalls,
           UNCHANGED <<rows, intake, queue, worker, orphans, published, succeeded, faults>>
    PROVE  IInv'
<1>1. \A u \in Operators : operator'[u] = IF u = o THEN t ELSE operator[u]
  BY DEF IInv, TypeOK
<1>2. TypeOK'
  BY DEF IInv, TypeOK
<1>3. Referenced'
  BY <1>1 DEF IInv, Referenced, Stored
<1>4. \A p \in QueuePayload : Secured(p) => Secured(p)'
  BY <1>1 DEF Secured, AtWorker, Holds
<1>5. SecuredUntilSuccess'
  BY <1>4 DEF IInv, SecuredUntilSuccess
<1> QED  BY <1>2, <1>3, <1>5 DEF IInv

\* The retry endpoint accepts an event it has read from the table.
LEMMA RetryEventStep ==
    ASSUME IInv, NEW o \in Operators, NEW e \in Events, RetryEvent(o, e)
    PROVE  IInv'
<1> DEFINE t == [pc |-> "enqueue", event |-> e]
<1>1. t \in OperatorState
  BY DEF OperatorState
<1>2. calls' \in 0..MaxCalls
  BY ConstantsAssumption DEF RetryEvent, Call, IInv, TypeOK
<1> QED  BY <1>1, <1>2, OperatorMoves DEF RetryEvent

\* A redrive starts with nothing redriven.
LEMMA RedriveDlqStep ==
    ASSUME IInv, NEW o \in Operators, NEW limit \in Limits, RedriveDlq(o, limit)
    PROVE  IInv'
<1> DEFINE t == [pc |-> "redrive", left |-> limit, redriven |-> {}]
<1>1. t \in OperatorState
  BY ConstantsAssumption DEF OperatorState
<1>2. calls' \in 0..MaxCalls
  BY ConstantsAssumption DEF RedriveDlq, Call, IInv, TypeOK
<1> QED  BY <1>1, <1>2, OperatorMoves DEF RedriveDlq

\* The redrive loop ends.
LEMMA RedriveLoopEndsStep ==
    ASSUME IInv, NEW o \in Operators, RedriveLoopEnds(o)
    PROVE  IInv'
<1> DEFINE t == [pc |-> "mark", redriven |-> operator[o].redriven]
<1>1. operator[o] \in OperatorState /\ operator[o].pc = "redrive"
  BY DEF RedriveLoopEnds, IInv, TypeOK
<1>2. operator[o].redriven \in SUBSET Events
  BY <1>1, OperatorFields
<1>3. operator[o].redriven \subseteq Stored
  BY <1>1 DEF IInv, Referenced
<1>4. t \in OperatorState
  BY <1>2 DEF OperatorState
<1>5. calls' \in 0..MaxCalls
  BY DEF RedriveLoopEnds, IInv, TypeOK
<1> QED  BY <1>1, <1>3, <1>4, <1>5, OperatorMoves DEF RedriveLoopEnds

\* The redrive acknowledges a message whose successor it has published, or learns
\* that its channel is gone.
LEMMA RedriveAckStep ==
    ASSUME IInv, NEW o \in Operators, RedriveAck(o)
    PROVE  IInv'
<1> DEFINE s == operator[o]
           t == IF s.owned
                THEN [pc       |-> "redrive",
                      left     |-> s.left - 1,
                      redriven |-> s.redriven \cup {s.message.event}]
                ELSE [pc |-> "idle"]
<1>1. s \in OperatorState /\ s.pc = "ack"
  BY DEF RedriveAck, IInv, TypeOK
<1>2. /\ s.redriven \in SUBSET Events
      /\ s.left \in Nat \ {0}
      /\ s.message \in QueuePayload
      /\ s.owned \in BOOLEAN
  BY <1>1, OperatorFields
<1>3. s.redriven \subseteq Stored /\ s.message.event \in Stored /\ Stored \subseteq Events
  BY <1>1 DEF IInv, Referenced, Stored
<1>4. t \in OperatorState
  BY <1>2, <1>3 DEF OperatorState
<1>5. /\ t.pc \in {"idle", "redrive"}
      /\ t.pc = "redrive" => t.redriven \subseteq Stored
  BY <1>3
<1>6. operator' = [operator EXCEPT ![o] = t]
  BY DEF RedriveAck
<1>7. calls' \in 0..MaxCalls
  BY DEF RedriveAck, IInv, TypeOK
<1> HIDE DEF t
<1> QED  BY <1>1, <1>4, <1>5, <1>6, <1>7, OperatorMoves DEF RedriveAck

\* The redrive takes a message from the dead-letter queue.
LEMMA RedriveGetStep ==
    ASSUME IInv, NEW o \in Operators, NEW p \in QueuePayload, RedriveGet(o, p)
    PROVE  IInv'
<1> DEFINE s == operator[o]
           t == [pc |-> "publish", left |-> s.left, redriven |-> s.redriven,
                 message |-> p, owned |-> TRUE]
<1>1. s \in OperatorState /\ s.pc = "redrive" /\ s.left > 0
  BY DEF RedriveGet, IInv, TypeOK
<1>2. s.redriven \in SUBSET Events /\ s.left \in Nat \ {0}
  <2>1. s.redriven \in SUBSET Events /\ s.left \in Nat
    BY <1>1, OperatorFields
  <2> QED  BY <1>1, <2>1
<1>3. s.redriven \subseteq Stored /\ p.event \in Stored
  BY <1>1 DEF RedriveGet, IInv, Referenced, Queues
<1>4. t \in OperatorState
  BY <1>2 DEF OperatorState
<1>5. operator' = [operator EXCEPT ![o] = t]
  BY DEF RedriveGet
<1>6. \A u \in Operators : operator'[u] = IF u = o THEN t ELSE operator[u]
  BY <1>5 DEF IInv, TypeOK
<1>7. /\ queue' \in [Queues -> [QueuePayload -> Nat]]
      /\ \A q \in Queues, r \in QueuePayload :
            /\ queue'[q][r] > 0 => queue[q][r] > 0
            /\ queue[q][r] > 0 /\ r # p => queue'[q][r] > 0
  BY DEF RedriveGet, IInv, TypeOK, Queues
<1>8. UNCHANGED <<rows, intake, worker, orphans, published, succeeded, faults, calls>>
  BY DEF RedriveGet
<1>9. TypeOK'
  BY <1>4, <1>5, <1>7, <1>8 DEF IInv, TypeOK
<1>10. Referenced'
  BY <1>3, <1>6, <1>7, <1>8 DEF IInv, Referenced, Stored
<1>11. \A r \in QueuePayload : Secured(r) => Secured(r)'
  <2> SUFFICES ASSUME NEW r \in QueuePayload, Secured(r) PROVE Secured(r)'
    OBVIOUS
  <2>1. CASE r = p
    BY <1>6, <2>1 DEF Secured, Holds
  <2>2. CASE r # p
    BY <1>1, <1>6, <1>7, <1>8, <2>2 DEF Secured, AtWorker, Holds
  <2> QED  BY <2>1, <2>2
<1>12. SecuredUntilSuccess'
  BY <1>8, <1>11 DEF IInv, SecuredUntilSuccess
<1> QED  BY <1>9, <1>10, <1>12 DEF IInv

\* The redrive publishes the message's event anew, at attempt 1.
LEMMA RedrivePublishStep ==
    ASSUME IInv, NEW o \in Operators, RedrivePublish(o)
    PROVE  IInv'
<1> DEFINE s == operator[o]
           t == [pc |-> "ack", left |-> s.left, redriven |-> s.redriven,
                 message |-> s.message, owned |-> s.owned]
<1>1. s \in OperatorState /\ s.pc = "publish"
  BY DEF RedrivePublish, IInv, TypeOK
<1>2. /\ s.redriven \in SUBSET Events
      /\ s.left \in Nat \ {0}
      /\ s.message \in QueuePayload
      /\ s.owned \in BOOLEAN
  BY <1>1, OperatorFields
<1>3. s.redriven \subseteq Stored /\ s.message.event \in Stored /\ s.message.event \in Events
  BY <1>1 DEF IInv, Referenced, Stored
<1>4. PICK p \in QueuePayload : p.event = s.message.event /\ _publish_to_rabbitmq("main", p)
  BY <1>3, FirstAttempt, QueuePayloadType DEF RedrivePublish
<1>5. /\ queue' \in [Queues -> [QueuePayload -> Nat]]
      /\ queue'["main"][p] > 0
      /\ \A q2 \in Queues, p2 \in QueuePayload :
            /\ queue[q2][p2] > 0 => queue'[q2][p2] > 0
            /\ queue'[q2][p2] > 0 => queue[q2][p2] > 0 \/ p2 = p
  BY <1>4, PublishType DEF IInv, TypeOK, Queues
<1>6. t \in OperatorState
  BY <1>2 DEF OperatorState
<1>7. operator' = [operator EXCEPT ![o] = t]
  BY DEF RedrivePublish
<1>8. \A u \in Operators : operator'[u] = IF u = o THEN t ELSE operator[u]
  BY <1>7 DEF IInv, TypeOK
<1>9. UNCHANGED <<rows, intake, worker, orphans, published, succeeded, faults, calls>>
  BY DEF RedrivePublish
<1>10. TypeOK'
  BY <1>5, <1>6, <1>7, <1>9 DEF IInv, TypeOK
<1>11. Referenced'
  BY <1>1, <1>3, <1>4, <1>5, <1>8, <1>9 DEF IInv, Referenced, Stored
<1>12. Secured(p)'
  BY <1>5 DEF Secured, Queues
<1>13. \A r \in QueuePayload : Secured(r) => Secured(r)' \/ r = s.message
  BY <1>5, <1>8, <1>9 DEF Secured, AtWorker, Holds
<1>14. SecuredUntilSuccess'
  BY <1>4, <1>9, <1>12, <1>13 DEF IInv, SecuredUntilSuccess
<1> QED  BY <1>10, <1>11, <1>14 DEF IInv

\* The redrive resets the rows of the events it has redriven.
LEMMA MarkEventsPendingStep ==
    ASSUME IInv, NEW o \in Operators, mark_events_pending(o)
    PROVE  IInv'
<1> DEFINE s == operator[o]
           t == [pc |-> "idle"]
<1>1. s \in OperatorState /\ s.pc = "mark"
  BY DEF mark_events_pending, IInv, TypeOK
<1>2. s.redriven \in SUBSET Events /\ s.redriven \subseteq Stored
  BY <1>1, OperatorFields DEF IInv, Referenced
<1>3. \A e \in s.redriven : rows[e] \in Event /\ mark_pending(rows[e]) \in Event
  BY <1>2, MarkPendingType DEF IInv, TypeOK, Stored
<1>4. rows' \in [Events -> Event \cup {NoRow}] /\ Stored' = Stored
  BY <1>2, <1>3, EventIsRow DEF mark_events_pending, IInv, TypeOK, Stored
<1>5. operator' = [operator EXCEPT ![o] = t]
  BY DEF mark_events_pending
<1>6. \A u \in Operators : operator'[u] = IF u = o THEN t ELSE operator[u]
  BY <1>5 DEF IInv, TypeOK
<1>7. UNCHANGED <<intake, queue, worker, orphans, published, succeeded, faults, calls>>
  BY DEF mark_events_pending
<1>8. TypeOK'
  BY <1>4, <1>5, <1>7 DEF IInv, TypeOK, OperatorState
<1>9. Referenced'
  BY <1>4, <1>6, <1>7 DEF IInv, Referenced
<1>10. \A r \in QueuePayload : Secured(r) => Secured(r)'
  BY <1>1, <1>6, <1>7 DEF Secured, AtWorker, Holds
<1>11. SecuredUntilSuccess'
  BY <1>7, <1>10 DEF IInv, SecuredUntilSuccess
<1> QED  BY <1>8, <1>9, <1>11 DEF IInv

\* An operator request fails: the message it held becomes an orphan.
LEMMA OperatorFailsStep ==
    ASSUME IInv, NEW o \in Operators, OperatorFails(o)
    PROVE  IInv'
<1> DEFINE t == [pc |-> "idle"]
<1>1. operator' = [operator EXCEPT ![o] = t] /\ t \in OperatorState
  BY DEF OperatorFails, OperatorState
<1>2. \A u \in Operators : operator'[u] = IF u = o THEN t ELSE operator[u]
  BY <1>1 DEF IInv, TypeOK
<1>3. /\ orphans' \in [QueuePayload -> Nat]
      /\ \A p \in QueuePayload : orphans'[p] > 0 <=> orphans[p] > 0 \/ Holds(o, p)
  <2>1. orphans \in [QueuePayload -> Nat]
    BY DEF IInv, TypeOK
  <2>2. \A p \in QueuePayload :
           orphans'[p] = IF Holds(o, p) THEN orphans[p] + 1 ELSE orphans[p]
    BY DEF OperatorFails
  <2>3. orphans' \in [QueuePayload -> Nat]
    BY <2>1 DEF OperatorFails
  <2> QED  BY <2>1, <2>2, <2>3
<1>4. UNCHANGED <<rows, intake, queue, worker, published, succeeded, calls>>
  BY DEF OperatorFails
<1>5. TypeOK'
  BY <1>1, <1>3, <1>4, ConstantsAssumption DEF OperatorFails, Fault, IInv, TypeOK
<1>6. \A p \in QueuePayload : Holds(o, p) => p.event \in Stored
  BY DEF Holds, IInv, Referenced
<1>7. Referenced'
  BY <1>2, <1>3, <1>4, <1>6 DEF IInv, Referenced, Stored
<1>8. \A p \in QueuePayload : Secured(p) => Secured(p)'
  BY <1>2, <1>3, <1>4 DEF Secured, AtWorker, Holds
<1>9. SecuredUntilSuccess'
  BY <1>4, <1>8 DEF IInv, SecuredUntilSuccess
<1> QED  BY <1>5, <1>7, <1>9 DEF IInv

-----------------------------------------------------------------------------
(* The API's channel closes *)

\* The requests that hold a message can be counted.
LEMMA HoldersCount ==
    ASSUME NEW p
    PROVE  /\ Cardinality(Holders(p)) \in Nat
           /\ Cardinality(Holders(p)) > 0 <=> \E o \in Operators : Holds(o, p)
<1>1. Holders(p) \subseteq Operators
  BY DEF Holders
<1>2. IsFiniteSet(Holders(p))
  BY <1>1, ConstantsAssumption, FS_Subset
<1>3. Cardinality(Holders(p)) \in Nat
  BY <1>2, FS_CardinalityType
<1>4. Cardinality(Holders(p)) = 0 <=> Holders(p) = {}
  BY <1>2, FS_EmptySet
<1> QED  BY <1>3, <1>4 DEF Holders

\* Every unacknowledged message of the API is in the dead-letter queue again,
\* whether its requests end (restart) or go on without it (lost connection).
LEMMA ChannelCloses ==
    ASSUME IInv, CloseApiChannel, Fault,
           operator' \in [Operators -> OperatorState],
           \A o \in Operators :
              \/ operator'[o] = operator[o]
              \/ operator'[o] = [pc |-> "idle"]
              \/ /\ operator[o].pc \in {"publish", "ack"}
                 /\ operator'[o].pc = operator[o].pc
                 /\ operator'[o].message = operator[o].message
                 /\ operator'[o].redriven = operator[o].redriven,
           intake' \in [Events -> IntakeState],
           \A e \in Events : intake'[e] # "new" => intake[e] # "new",
           UNCHANGED <<rows, worker, published, succeeded, calls>>
    PROVE  IInv'
<1>1. /\ queue \in [Queues -> [QueuePayload -> Nat]]
      /\ orphans \in [QueuePayload -> Nat]
  BY DEF IInv, TypeOK
<1>2. \A p \in QueuePayload : Cardinality(Holders(p)) \in Nat
  BY HoldersCount
<1>3. \A q \in Queues, p \in QueuePayload :
         queue'[q][p] = IF q = "dead"
                        THEN queue["dead"][p] + orphans[p] + Cardinality(Holders(p))
                        ELSE queue[q][p]
  BY <1>1 DEF CloseApiChannel
<1>4. queue' \in [Queues -> [QueuePayload -> Nat]]
  <2> DEFINE dead == [p \in QueuePayload |->
                        queue["dead"][p] + orphans[p] + Cardinality(Holders(p))]
  <2>1. dead \in [QueuePayload -> Nat]
    BY <1>1, <1>2 DEF Queues
  <2>2. queue' = [queue EXCEPT !["dead"] = dead]
    BY DEF CloseApiChannel
  <2> HIDE DEF dead
  <2> QED  BY <1>1, <2>1, <2>2
<1>5. \A p \in QueuePayload :
         (\E q \in Queues : queue'[q][p] > 0)
            <=> \/ \E q \in Queues : queue[q][p] > 0
                \/ orphans[p] > 0
                \/ \E o \in Operators : Holds(o, p)
  <2> SUFFICES ASSUME NEW p \in QueuePayload
               PROVE  (\E q \in Queues : queue'[q][p] > 0)
                         <=> \/ \E q \in Queues : queue[q][p] > 0
                             \/ orphans[p] > 0
                             \/ \E o \in Operators : Holds(o, p)
    OBVIOUS
  <2> DEFINE n == Cardinality(Holders(p))
  <2>1. n \in Nat /\ (n > 0 <=> \E o \in Operators : Holds(o, p))
    BY HoldersCount
  <2>2. /\ queue'["dead"][p] = queue["dead"][p] + orphans[p] + n
        /\ queue'["main"][p] = queue["main"][p]
        /\ queue'["retry"][p] = queue["retry"][p]
    BY <1>3 DEF Queues
  <2> HIDE DEF n
  <2>3. queue'["dead"][p] > 0 <=> queue["dead"][p] > 0 \/ orphans[p] > 0 \/ n > 0
    BY <1>1, <2>1, <2>2 DEF Queues
  <2> QED  BY <2>1, <2>2, <2>3 DEF Queues
<1>6. orphans' = [p \in QueuePayload |-> 0]
  BY DEF CloseApiChannel
<1>7. TypeOK'
  BY <1>4, <1>6, ConstantsAssumption DEF Fault, IInv, TypeOK
<1>8. \A p \in QueuePayload : (\E o \in Operators : Holds(o, p)) => p.event \in Stored
  BY DEF Holds, IInv, Referenced
<1>9. Referenced'
  BY <1>5, <1>6, <1>8 DEF IInv, Referenced, Stored
<1>10. \A p \in QueuePayload : Secured(p) => Secured(p)'
  <2> SUFFICES ASSUME NEW p \in QueuePayload, Secured(p) PROVE Secured(p)'
    OBVIOUS
  <2>1. CASE \E w \in Workers : AtWorker(w, p) /\ worker[w].pc # "routed"
    BY <2>1 DEF Secured, AtWorker
  <2>2. CASE ~\E w \in Workers : AtWorker(w, p) /\ worker[w].pc # "routed"
    <3>1. \E q \in Queues : queue'[q][p] > 0
      BY <1>5, <2>2 DEF Secured
    <3> QED  BY <3>1 DEF Secured
  <2> QED  BY <2>1, <2>2
<1>11. SecuredUntilSuccess'
  BY <1>10 DEF IInv, SecuredUntilSuccess
<1> QED  BY <1>7, <1>9, <1>11 DEF IInv

\* The API restarts.
LEMMA ApiRestartStep ==
    ASSUME IInv, ApiRestart
    PROVE  IInv'
<1>1. operator' = [o \in Operators |-> [pc |-> "idle"]]
  BY DEF ApiRestart
<1>2. operator' \in [Operators -> OperatorState]
  BY <1>1 DEF OperatorState
<1>3. /\ intake' \in [Events -> IntakeState]
      /\ \A e \in Events : intake'[e] # "new" => intake[e] # "new"
  BY DEF ApiRestart, IInv, TypeOK, IntakeState
<1>4. \A o \in Operators : operator'[o] = [pc |-> "idle"]
  BY <1>1
<1> QED  BY <1>2, <1>3, <1>4, ChannelCloses DEF ApiRestart

\* The API loses its broker connection.
LEMMA ApiConnectionLostStep ==
    ASSUME IInv, ApiConnectionLost
    PROVE  IInv'
<1> DEFINE lost(o) == IF operator[o].pc \in {"publish", "ack"}
                      THEN [operator[o] EXCEPT !.owned = FALSE]
                      ELSE operator[o]
<1>1. operator' = [o \in Operators |-> lost(o)]
  BY DEF ApiConnectionLost
<1>2. \A o \in Operators :
         /\ lost(o) \in OperatorState
         /\ \/ lost(o) = operator[o]
            \/ /\ operator[o].pc \in {"publish", "ack"}
               /\ lost(o).pc = operator[o].pc
               /\ lost(o).message = operator[o].message
               /\ lost(o).redriven = operator[o].redriven
  <2> SUFFICES ASSUME NEW o \in Operators
               PROVE  /\ lost(o) \in OperatorState
                      /\ \/ lost(o) = operator[o]
                         \/ /\ operator[o].pc \in {"publish", "ack"}
                            /\ lost(o).pc = operator[o].pc
                            /\ lost(o).message = operator[o].message
                            /\ lost(o).redriven = operator[o].redriven
    OBVIOUS
  <2>1. operator[o] \in OperatorState
    BY DEF IInv, TypeOK
  <2>2. CASE operator[o].pc \in {"publish", "ack"}
    BY <2>1, <2>2, OperatorFields
  <2>3. CASE operator[o].pc \notin {"publish", "ack"}
    BY <2>1, <2>3
  <2> QED  BY <2>2, <2>3
<1> HIDE DEF lost
<1>3. operator' \in [Operators -> OperatorState]
  BY <1>1, <1>2
<1>4. /\ intake' \in [Events -> IntakeState]
      /\ \A e \in Events : intake'[e] # "new" => intake[e] # "new"
  BY DEF ApiConnectionLost, IInv, TypeOK
<1> QED  BY <1>1, <1>2, <1>3, <1>4, ChannelCloses DEF ApiConnectionLost

-----------------------------------------------------------------------------
(* Theorems *)

\* Every step, and every stuttering step, preserves the invariant.
LEMMA NextIInv == IInv /\ [Next]_vars => IInv'
<1> SUFFICES ASSUME IInv, [Next]_vars PROVE IInv'
  OBVIOUS
<1>1. CASE \E e \in Events : \E payload \in Payloads : CreateEvent(e, payload)
  BY <1>1, CreateEventStep
<1>2. CASE \E e \in Events : EnqueueCreated(e)
  BY <1>2, EnqueueCreatedStep
<1>3. CASE \E e \in Events : EnqueueFails(e)
  BY <1>3, EnqueueFailsStep
<1>4. CASE \E w \in Workers : run_worker(w)
  BY <1>4, RunWorkerStep
<1>5. CASE \E w \in Workers : WorkerRestart(w) \/ WorkerConnectionLost(w)
  BY <1>5, WorkerFaultStep
<1>6. CASE \E p \in QueuePayload : RetryDelayExpires(p)
  BY <1>6, RetryDelayExpiresStep
<1>7. CASE \E o \in Operators : \E e \in Events : RetryEvent(o, e)
  BY <1>7, RetryEventStep
<1>8. CASE \E o \in Operators : EnqueueRetry(o)
  BY <1>8, EnqueueRetryStep
<1>9. CASE \E o \in Operators : \E limit \in Limits : RedriveDlq(o, limit)
  BY <1>9, RedriveDlqStep
<1>10. CASE \E o \in Operators : RedriveStep(o)
  BY <1>10, RedriveGetStep, RedriveLoopEndsStep, RedrivePublishStep, RedriveAckStep,
     MarkEventsPendingStep DEF RedriveStep
<1>11. CASE \E o \in Operators : OperatorFails(o)
  BY <1>11, OperatorFailsStep
<1>12. CASE ApiRestart
  BY <1>12, ApiRestartStep
<1>13. CASE ApiConnectionLost
  BY <1>13, ApiConnectionLostStep
<1>14. CASE UNCHANGED vars
  <2>1. TypeOK' /\ Referenced'
    BY <1>14 DEF vars, IInv, TypeOK, Referenced, Stored
  <2>2. SecuredUntilSuccess'
    BY <1>14 DEF vars, IInv, SecuredUntilSuccess, Secured, AtWorker, Holds
  <2> QED  BY <2>1, <2>2 DEF IInv
<1> QED
  BY <1>1, <1>2, <1>3, <1>4, <1>5, <1>6, <1>7, <1>8, <1>9, <1>10, <1>11, <1>12, <1>13, <1>14
  DEF Next, AfterHandOver

\* The invariant holds in every reachable state.
THEOREM DeliveryInvariant == Spec => []IInv
BY InitIInv, NextIInv, PTL DEF Spec

\* Type correctness, for every value of the constants: every row, message and
\* control state the API, the workers and the operators produce is well-formed.
THEOREM TypeCorrect == Spec => []TypeOK
<1>1. IInv => TypeOK
  BY DEF IInv
<1> QED  BY <1>1, DeliveryInvariant, PTL

\* No message refers to a row that does not exist, so the worker never takes
\* the branch of process_event_by_id that acknowledges an unknown event.
THEOREM NeverDangling == Spec => []NoDanglingMessage
<1>1. IInv => NoDanglingMessage
  BY DEF IInv, Referenced, NoDanglingMessage, Kept, AtWorker, Holds
<1> QED  BY <1>1, DeliveryInvariant, PTL

\* At-least-once processing, for any number of workers, operators, events,
\* attempts and faults: the broker keeps a copy of every published event until
\* an attempt has committed success.
THEOREM AtLeastOnceHolds == Spec => []AtLeastOnce
<1>1. IInv => AtLeastOnce
  <2>1. \A p \in QueuePayload : Secured(p) => Kept(p)
    BY DEF Secured, Kept
  <2> QED  BY <2>1 DEF IInv, SecuredUntilSuccess, AtLeastOnce
<1> QED  BY <1>1, DeliveryInvariant, PTL

-----------------------------------------------------------------------------
(* What the table and the histories keep, for the composition with Intake *)

\* No step after the insert stores or deletes a row, takes back a publish, or
\* processes an event that has no row: the worker commits to a row it has loaded,
\* and a redrive resets the rows of messages it has read.
LEMMA OnlyInsertStores ==
    /\ IInv
    /\ \/ AfterHandOver
       \/ ApiRestart
       \/ \E e \in Events : EnqueueCreated(e) \/ EnqueueFails(e)
    =>
    /\ Stored' = Stored
    /\ published \subseteq published'
    /\ succeeded' \subseteq succeeded \cup Stored
<1> SUFFICES ASSUME IInv,
                    \/ AfterHandOver
                    \/ ApiRestart
                    \/ \E e \in Events : EnqueueCreated(e) \/ EnqueueFails(e)
             PROVE  /\ Stored' = Stored
                    /\ published \subseteq published'
                    /\ succeeded' \subseteq succeeded \cup Stored
  OBVIOUS
<1>1. CASE \E w \in Workers : CommitAttempt(w)
  <2>1. PICK w \in Workers : CommitAttempt(w)
    BY <1>1
  <2> DEFINE e == worker[w].envelope.event
             obj == process_event(worker[w].loaded, FinalAttempt(worker[w].envelope))
             new == commit(rows[e], worker[w].loaded, obj)
  <2>2. worker[w].loaded \in Event /\ e \in Stored /\ rows[e] \in Event
    BY <2>1, WorkerFields DEF CommitAttempt, IInv, TypeOK, Referenced, Stored
  <2>3. new # NoRow
    <3>1. FinalAttempt(worker[w].envelope) \in BOOLEAN
      BY DEF FinalAttempt
    <3>2. obj \in Event
      BY <2>2, <3>1, ProcessEventType
    <3> HIDE DEF obj
    <3> QED  BY <2>2, <3>2, CommitType, EventIsRow
  <2>4. /\ rows' = [rows EXCEPT ![e] = new]
        /\ published' = published
        /\ succeeded' \subseteq succeeded \cup {e}
    BY <2>1 DEF CommitAttempt
  <2> HIDE DEF e, obj, new
  <2> QED  BY <2>2, <2>3, <2>4 DEF Stored, IInv, TypeOK
<1>2. CASE \E o \in Operators : mark_events_pending(o)
  <2>1. \A e \in Events : rows[e] # NoRow => mark_pending(rows[e]) # NoRow
    BY MarkPendingType, EventIsRow DEF IInv, TypeOK
  <2> QED  BY <1>2, <2>1 DEF mark_events_pending, Stored, IInv, Referenced
<1>3. CASE UNCHANGED <<rows, succeeded>> /\ published \subseteq published'
  BY <1>3 DEF Stored
<1> QED
  BY <1>1, <1>2, <1>3
  DEF AfterHandOver, ApiRestart, EnqueueCreated, EnqueueFails, enqueue_event, run_worker,
      dequeue_event, LoadEvent, complete_event, PublishFailed, AckRouted, WorkerRestart,
      WorkerConnectionLost, RetryDelayExpires, RetryEvent, EnqueueRetry, RedriveDlq, RedriveStep,
      RedriveGet, RedriveLoopEnds, RedrivePublish, RedriveAck, OperatorFails, ApiConnectionLost

\* The insert stores one row and does nothing else to the table.
LEMMA InsertStores ==
    \A e \in Events, payload \in Payloads :
        IInv /\ CreateEvent(e, payload)
        => Stored' = Stored \cup {e} /\ UNCHANGED <<published, succeeded>>
BY CreateEventType, ConstantsAssumption DEF IInv, TypeOK, CreateEvent, Stored

-----------------------------------------------------------------------------
(* The attempt number of a message decides which queue it is in *)

\* A step that brings no message to an operator's reach or to the retry queue.
LEMMA NothingParked ==
    ASSUME DeadLetterWhenExhausted,
           \A p \in QueuePayload :
              /\ queue'["dead"][p] > 0 => queue["dead"][p] > 0
              /\ queue'["retry"][p] > 0 => queue["retry"][p] > 0
              /\ orphans'[p] > 0 => orphans[p] > 0
              /\ \A o \in Operators : Holds(o, p)' => Holds(o, p)
    PROVE  DeadLetterWhenExhausted'
BY DEF DeadLetterWhenExhausted

\* The only step that adds to the retry queue or, in the end, to the dead-letter
\* queue chooses by the attempt number of the message it replaces.
LEMMA PublishFailedRoutes ==
    ASSUME IInv, DeadLetterWhenExhausted, NEW w \in Workers, PublishFailed(w)
    PROVE  DeadLetterWhenExhausted'
<1> DEFINE envelope == worker[w].envelope
<1>1. envelope \in QueuePayload
  BY WorkerFields DEF PublishFailed, IInv, TypeOK
<1>2. envelope.event \in Events /\ envelope.attempt \in Attempts
  BY <1>1 DEF QueuePayload
<1>3. envelope.attempt \in Nat /\ envelope.attempt >= 1 /\ envelope.attempt <= MaxAttempts
  BY <1>2, ConstantsAssumption DEF Attempts
<1>4. \E q \in {"retry", "dead"}, p \in QueuePayload :
         /\ _publish_to_rabbitmq(q, p)
         /\ q = "retry" => p.attempt > 1
         /\ q = "dead" => p.attempt = MaxAttempts
  <2>1. CASE envelope.attempt + 1 <= MaxAttempts
    <3>1. envelope.attempt + 1 \in Attempts
      BY <1>3, <2>1, ConstantsAssumption DEF Attempts
    <3>2. _publish_to_rabbitmq("retry", _queue_payload(envelope.event, envelope.attempt + 1))
      BY <2>1 DEF PublishFailed
    <3>3. /\ _queue_payload(envelope.event, envelope.attempt + 1) \in QueuePayload
          /\ _queue_payload(envelope.event, envelope.attempt + 1).attempt > 1
      BY <1>2, <1>3, <3>1, QueuePayloadType
    <3> QED  BY <3>2, <3>3
  <2>2. CASE ~(envelope.attempt + 1 <= MaxAttempts)
    <3>1. _publish_to_rabbitmq("dead", _queue_payload(envelope.event, envelope.attempt))
      BY <2>2 DEF PublishFailed
    <3>2. envelope.attempt = MaxAttempts
      BY <1>3, <2>2, ConstantsAssumption
    <3> QED  BY <1>2, <3>1, <3>2, QueuePayloadType
  <2> QED  BY <2>1, <2>2
<1>5. PICK q \in {"retry", "dead"}, p \in QueuePayload :
         /\ _publish_to_rabbitmq(q, p)
         /\ q = "retry" => p.attempt > 1
         /\ q = "dead" => p.attempt = MaxAttempts
  BY <1>4
<1>6. queue \in [Queues -> [QueuePayload -> Nat]]
  BY DEF IInv, TypeOK
<1>7. \A q2 \in Queues, p2 \in QueuePayload :
         queue'[q2][p2] > 0 => queue[q2][p2] > 0 \/ (q2 = q /\ p2 = p)
  BY <1>5, <1>6 DEF _publish_to_rabbitmq, Queues
<1>8. orphans' = orphans /\ operator' = operator
  BY DEF PublishFailed
<1> QED  BY <1>5, <1>7, <1>8 DEF DeadLetterWhenExhausted, Holds, Queues

\* A publish to the main queue parks nothing.
LEMMA MainPublish ==
    ASSUME queue \in [Queues -> [QueuePayload -> Nat]], NEW r \in QueuePayload,
           _publish_to_rabbitmq("main", r)
    PROVE  \A p \in QueuePayload :
              queue'["dead"][p] = queue["dead"][p] /\ queue'["retry"][p] = queue["retry"][p]
BY DEF _publish_to_rabbitmq, Queues

\* A step of a redrive: the message it takes, keeps or gives up was parked before.
LEMMA OperatorRoutes ==
    ASSUME IInv, DeadLetterWhenExhausted, NEW o \in Operators,
           \/ \E e \in Events : RetryEvent(o, e)
           \/ EnqueueRetry(o)
           \/ \E limit \in Limits : RedriveDlq(o, limit)
           \/ RedriveStep(o)
           \/ OperatorFails(o)
    PROVE  DeadLetterWhenExhausted'
<1>1. /\ queue \in [Queues -> [QueuePayload -> Nat]]
      /\ orphans \in [QueuePayload -> Nat]
      /\ operator \in [Operators -> OperatorState]
  BY DEF IInv, TypeOK
<1>2. ASSUME \/ \E e \in Events : RetryEvent(o, e)
             \/ \E limit \in Limits : RedriveDlq(o, limit)
             \/ RedriveLoopEnds(o) \/ RedriveAck(o) \/ mark_events_pending(o)
      PROVE  DeadLetterWhenExhausted'
  <2>1. /\ queue' = queue /\ orphans' = orphans
        /\ \A u \in Operators \ {o} : operator'[u] = operator[u]
        /\ operator'[o].pc \notin {"publish", "ack"}
    BY <1>1, <1>2 DEF RetryEvent, RedriveDlq, RedriveLoopEnds, RedriveAck, mark_events_pending
  <2> QED  BY <2>1, NothingParked DEF Holds
<1>3. CASE EnqueueRetry(o)
  <2>1. operator[o].event \in Events
    BY <1>1, <1>3, OperatorFields DEF EnqueueRetry
  <2>2. \A p \in QueuePayload :
           queue'["dead"][p] = queue["dead"][p] /\ queue'["retry"][p] = queue["retry"][p]
    BY <1>1, <1>3, <2>1, MainPublish, QueuePayloadType, FirstAttempt DEF EnqueueRetry, enqueue_event
  <2>3. /\ orphans' = orphans
        /\ \A u \in Operators \ {o} : operator'[u] = operator[u]
        /\ operator'[o].pc \notin {"publish", "ack"}
    BY <1>1, <1>3 DEF EnqueueRetry
  <2> QED  BY <2>2, <2>3, NothingParked DEF Holds
<1>4. CASE RedrivePublish(o)
  <2>1. operator[o].message.event \in Events
    BY <1>1, <1>4, OperatorFields DEF RedrivePublish, QueuePayload
  <2>2. \A p \in QueuePayload :
           queue'["dead"][p] = queue["dead"][p] /\ queue'["retry"][p] = queue["retry"][p]
    BY <1>1, <1>4, <2>1, MainPublish, QueuePayloadType, FirstAttempt DEF RedrivePublish
  <2>3. /\ orphans' = orphans
        /\ \A u \in Operators \ {o} : operator'[u] = operator[u]
        /\ operator[o].pc = "publish"
        /\ operator'[o].message = operator[o].message
        /\ operator'[o].owned = operator[o].owned
    BY <1>1, <1>4 DEF RedrivePublish
  <2> QED  BY <2>2, <2>3, NothingParked DEF Holds
<1>5. ASSUME NEW r \in QueuePayload, RedriveGet(o, r)
      PROVE  DeadLetterWhenExhausted'
  <2>1. /\ queue["dead"][r] > 0
        /\ \A p \in QueuePayload :
              /\ queue'["dead"][p] > 0 => queue["dead"][p] > 0
              /\ queue'["retry"][p] > 0 => queue["retry"][p] > 0
    BY <1>1, <1>5 DEF RedriveGet, Queues
  <2>2. /\ orphans' = orphans
        /\ \A u \in Operators \ {o} : operator'[u] = operator[u]
        /\ operator'[o].message = r
    BY <1>1, <1>5 DEF RedriveGet
  <2> QED  BY <2>1, <2>2 DEF DeadLetterWhenExhausted, Holds
<1>6. CASE OperatorFails(o)
  <2>1. /\ queue' = queue
        /\ \A u \in Operators \ {o} : operator'[u] = operator[u]
        /\ operator'[o].pc = "idle"
    BY <1>1, <1>6 DEF OperatorFails
  <2>2. \A p \in QueuePayload :
           orphans'[p] = IF Holds(o, p) THEN orphans[p] + 1 ELSE orphans[p]
    BY <1>6 DEF OperatorFails
  <2>3. \A p \in QueuePayload : orphans'[p] > 0 => orphans[p] > 0 \/ Holds(o, p)
    BY <2>2
  <2>4. \A p \in QueuePayload, u \in Operators : Holds(u, p)' => Holds(u, p)
    BY <2>1 DEF Holds
  <2> QED  BY <2>1, <2>3, <2>4 DEF DeadLetterWhenExhausted
<1> QED  BY <1>2, <1>3, <1>4, <1>5, <1>6 DEF RedriveStep

\* The API's channel returns to the dead-letter queue what was parked before.
LEMMA ChannelRoutes ==
    ASSUME IInv, DeadLetterWhenExhausted, ApiRestart \/ ApiConnectionLost
    PROVE  DeadLetterWhenExhausted'
<1>1. /\ queue \in [Queues -> [QueuePayload -> Nat]]
      /\ orphans \in [QueuePayload -> Nat]
      /\ operator \in [Operators -> OperatorState]
  BY DEF IInv, TypeOK
<1>2. CloseApiChannel
  BY DEF ApiRestart, ApiConnectionLost
<1>3. \A p \in QueuePayload :
         /\ queue'["dead"][p] = queue["dead"][p] + orphans[p] + Cardinality(Holders(p))
         /\ queue'["retry"][p] = queue["retry"][p]
         /\ orphans'[p] = 0
  BY <1>1, <1>2 DEF CloseApiChannel, Queues
<1>4. \A p \in QueuePayload :
         queue'["dead"][p] > 0 =>
            queue["dead"][p] > 0 \/ orphans[p] > 0 \/ \E o \in Operators : Holds(o, p)
  <2> SUFFICES ASSUME NEW p \in QueuePayload, queue'["dead"][p] > 0
               PROVE  queue["dead"][p] > 0 \/ orphans[p] > 0 \/ \E o \in Operators : Holds(o, p)
    OBVIOUS
  <2> DEFINE n == Cardinality(Holders(p))
  <2>1. n \in Nat /\ (n > 0 <=> \E o \in Operators : Holds(o, p))
    BY HoldersCount
  <2>2. queue["dead"][p] \in Nat /\ orphans[p] \in Nat
    BY <1>1 DEF Queues
  <2>3. queue["dead"][p] + orphans[p] + n > 0
    BY <1>3
  <2> HIDE DEF n
  <2> QED  BY <2>1, <2>2, <2>3
<1>5. \A p \in QueuePayload, o \in Operators : ~Holds(o, p)'
  <2>1. CASE ApiRestart
    BY <2>1 DEF ApiRestart, Holds
  <2>2. CASE ApiConnectionLost
    <3>1. \A o \in Operators :
             operator'[o] = IF operator[o].pc \in {"publish", "ack"}
                            THEN [operator[o] EXCEPT !.owned = FALSE]
                            ELSE operator[o]
      BY <2>2 DEF ApiConnectionLost
    <3>2. \A o \in Operators : operator[o].pc \in {"publish", "ack"} => operator'[o].owned = FALSE
      BY <1>1, <3>1, OperatorFields
    <3>3. \A o \in Operators : operator[o].pc \notin {"publish", "ack"} => operator'[o] = operator[o]
      BY <3>1
    <3> QED  BY <3>2, <3>3 DEF Holds
  <2> QED  BY <2>1, <2>2
<1> QED  BY <1>3, <1>4, <1>5 DEF DeadLetterWhenExhausted

\* The remaining steps touch the main queue, empty the retry queue, or touch no
\* queue.
LEMMA OtherRoutes ==
    ASSUME IInv, DeadLetterWhenExhausted,
           \/ \E e \in Events :
                 \/ \E payload \in Payloads : CreateEvent(e, payload)
                 \/ EnqueueCreated(e) \/ EnqueueFails(e)
           \/ \E w \in Workers :
                 \/ \E p \in QueuePayload : dequeue_event(w, p)
                 \/ LoadEvent(w) \/ CommitAttempt(w) \/ complete_event(w) \/ AckRouted(w)
                 \/ WorkerRestart(w) \/ WorkerConnectionLost(w)
           \/ \E p \in QueuePayload : RetryDelayExpires(p)
           \/ UNCHANGED vars
    PROVE  DeadLetterWhenExhausted'
<1>1. queue \in [Queues -> [QueuePayload -> Nat]]
  BY DEF IInv, TypeOK
<1>2. orphans' = orphans /\ operator' = operator
  BY DEF CreateEvent, EnqueueCreated, EnqueueFails, dequeue_event, LoadEvent, CommitAttempt,
         complete_event, AckRouted, WorkerRestart, WorkerConnectionLost, RetryDelayExpires, vars
<1>3. \A p \in QueuePayload :
         /\ queue'["dead"][p] > 0 => queue["dead"][p] > 0
         /\ queue'["retry"][p] > 0 => queue["retry"][p] > 0
  <2>1. ASSUME NEW e \in Events, enqueue_event(e)
        PROVE  \A p \in QueuePayload :
                  queue'["dead"][p] = queue["dead"][p] /\ queue'["retry"][p] = queue["retry"][p]
    BY <1>1, <2>1, MainPublish, QueuePayloadType, FirstAttempt DEF enqueue_event
  <2>2. CASE \E e \in Events : EnqueueCreated(e) \/ EnqueueFails(e)
    BY <2>1, <2>2 DEF EnqueueCreated, EnqueueFails
  <2>3. CASE \E w \in Workers, p \in QueuePayload : dequeue_event(w, p)
    BY <1>1, <2>3 DEF dequeue_event, Queues
  <2>4. CASE \E w \in Workers : WorkerRestart(w) \/ WorkerConnectionLost(w)
    BY <1>1, <2>4 DEF WorkerRestart, WorkerConnectionLost, RequeueDelivery, Queues
  <2>5. CASE \E r \in QueuePayload : RetryDelayExpires(r)
    BY <1>1, <2>5 DEF RetryDelayExpires, Queues
  <2>6. CASE queue' = queue
    BY <2>6
  <2> QED  BY <2>2, <2>3, <2>4, <2>5, <2>6
           DEF CreateEvent, LoadEvent, CommitAttempt, complete_event, AckRouted, vars
<1> QED  BY <1>2, <1>3, NothingParked DEF Holds

\* Whatever restarts, requeues and redrives happen, only messages that have used
\* up their attempts are parked where an operator has to fetch them.
THEOREM OnlyExhaustedAreParked == Spec => []DeadLetterWhenExhausted
<1>1. Init => DeadLetterWhenExhausted
  BY DEF Init, DeadLetterWhenExhausted, Holds, Queues
<1>2. IInv /\ DeadLetterWhenExhausted /\ [Next]_vars => DeadLetterWhenExhausted'
  BY PublishFailedRoutes, OperatorRoutes, ChannelRoutes, OtherRoutes DEF Next, AfterHandOver, run_worker
<1> QED  BY <1>1, <1>2, DeliveryInvariant, PTL DEF Spec

-----------------------------------------------------------------------------
(* Counting messages.  A bag is counted by the set of its numbered copies, so
   what a step does to a depth is what it does to the cardinality of a set. *)

\* A copy is a message and a number up to the count of that message.
LEMMA CopiesOf ==
    ASSUME NEW bag
    PROVE  /\ \A p \in QueuePayload : \A i : <<p, i>> \in Copies(bag) <=> i \in 1..bag[p]
           /\ \A x \in Copies(bag) : /\ x = <<x[1], x[2]>>
                                     /\ x[1] \in QueuePayload
                                     /\ x[2] \in 1..bag[x[1]]
BY DEF Copies

\* The empty bag has no copies.
LEMMA EmptyBag ==
    ASSUME NEW bag, \A p \in QueuePayload : bag[p] = 0
    PROVE  IsFiniteSet(Copies(bag)) /\ Depth(bag) = 0
<1>1. Copies(bag) = {}
  <2>1. \A x \in Copies(bag) : x[1] \in QueuePayload /\ x[2] \in 1..bag[x[1]]
    BY CopiesOf
  <2> QED  BY <2>1
<1> QED  BY <1>1, FS_EmptySet DEF Depth

\* One more copy of one message.
LEMMA AddCopy ==
    ASSUME NEW b \in [QueuePayload -> Nat], NEW c \in [QueuePayload -> Nat],
           NEW p \in QueuePayload, c[p] = b[p] + 1,
           \A r \in QueuePayload \ {p} : c[r] = b[r],
           IsFiniteSet(Copies(b))
    PROVE  IsFiniteSet(Copies(c)) /\ Depth(b) \in Nat /\ Depth(c) = Depth(b) + 1
<1> DEFINE x == <<p, c[p]>>
<1>1. x \notin Copies(b)
  <2>1. c[p] \notin 1..b[p]
    OBVIOUS
  <2> QED  BY <2>1, CopiesOf
<1>2. Copies(c) \subseteq Copies(b) \cup {x}
  <2> SUFFICES ASSUME NEW y \in Copies(c), y # x PROVE y \in Copies(b)
    OBVIOUS
  <2>1. y = <<y[1], y[2]>> /\ y[1] \in QueuePayload /\ y[2] \in 1..c[y[1]]
    BY CopiesOf
  <2>2. y[2] \in 1..b[y[1]]
    BY <2>1
  <2> QED  BY <2>1, <2>2, CopiesOf
<1>3. Copies(b) \cup {x} \subseteq Copies(c)
  <2>1. x \in Copies(c)
    <3>1. c[p] \in 1..c[p]
      OBVIOUS
    <3> QED  BY <3>1, CopiesOf
  <2>2. ASSUME NEW y \in Copies(b) PROVE y \in Copies(c)
    <3>1. y = <<y[1], y[2]>> /\ y[1] \in QueuePayload /\ y[2] \in 1..b[y[1]]
      BY CopiesOf
    <3>2. y[2] \in 1..c[y[1]]
      BY <3>1
    <3> QED  BY <3>1, <3>2, CopiesOf
  <2> QED  BY <2>1, <2>2
<1>4. Copies(c) = Copies(b) \cup {x}
  BY <1>2, <1>3
<1> HIDE DEF x
<1>5. /\ IsFiniteSet(Copies(b) \cup {x}) /\ Cardinality(Copies(b)) \in Nat
      /\ Cardinality(Copies(b) \cup {x}) = Cardinality(Copies(b)) + 1
  BY <1>1, FS_AddElement, FS_CardinalityType
<1> QED  BY <1>4, <1>5 DEF Depth

\* One copy less.
LEMMA RemoveCopy ==
    ASSUME NEW b \in [QueuePayload -> Nat], NEW c \in [QueuePayload -> Nat],
           NEW p \in QueuePayload, b[p] = c[p] + 1,
           \A r \in QueuePayload \ {p} : c[r] = b[r],
           IsFiniteSet(Copies(b))
    PROVE  IsFiniteSet(Copies(c)) /\ Depth(c) \in Nat /\ Depth(b) = Depth(c) + 1
<1>1. Copies(c) \subseteq Copies(b)
  <2> SUFFICES ASSUME NEW y \in Copies(c) PROVE y \in Copies(b)
    OBVIOUS
  <2>1. y = <<y[1], y[2]>> /\ y[1] \in QueuePayload /\ y[2] \in 1..c[y[1]]
    BY CopiesOf
  <2>2. y[2] \in 1..b[y[1]]
    BY <2>1
  <2> QED  BY <2>1, <2>2, CopiesOf
<1>2. IsFiniteSet(Copies(c))
  BY <1>1, FS_Subset
<1>3. \A r \in QueuePayload \ {p} : b[r] = c[r]
  OBVIOUS
<1> QED  BY <1>2, <1>3, AddCopy

\* The copies of a sum of two bags: those of the second are numbered after
\* those of the first.
LEMMA SumOfBags ==
    ASSUME NEW b \in [QueuePayload -> Nat], NEW c \in [QueuePayload -> Nat],
           NEW d \in [QueuePayload -> Nat], \A p \in QueuePayload : d[p] = b[p] + c[p],
           IsFiniteSet(Copies(b)), IsFiniteSet(Copies(c))
    PROVE  IsFiniteSet(Copies(d)) /\ Depth(d) \in Nat /\ Depth(d) <= Depth(b) + Depth(c)
<1> DEFINE New == Copies(d) \ Copies(b)
           f == [x \in Copies(c) |-> <<x[1], x[2] + b[x[1]]>>]
<1>1. \A x \in Copies(c) : f[x] \in New
  <2> SUFFICES ASSUME NEW x \in Copies(c) PROVE <<x[1], x[2] + b[x[1]]>> \in New
    OBVIOUS
  <2>1. x[1] \in QueuePayload /\ x[2] \in 1..c[x[1]]
    BY CopiesOf
  <2>2. x[2] + b[x[1]] \in 1..d[x[1]] /\ x[2] + b[x[1]] \notin 1..b[x[1]]
    BY <2>1
  <2> QED  BY <2>1, <2>2, CopiesOf
<1>2. \A y \in New : \E x \in Copies(c) : f[x] = y
  <2> SUFFICES ASSUME NEW y \in New PROVE \E x \in Copies(c) : <<x[1], x[2] + b[x[1]]>> = y
    OBVIOUS
  <2>1. y = <<y[1], y[2]>> /\ y[1] \in QueuePayload /\ y[2] \in 1..d[y[1]]
    BY CopiesOf
  <2>2. y[2] \notin 1..b[y[1]]
    BY <2>1, CopiesOf
  <2> DEFINE i == y[2] - b[y[1]]
  <2>3. i \in 1..c[y[1]] /\ i + b[y[1]] = y[2]
    BY <2>1, <2>2
  <2>4. <<y[1], i>> \in Copies(c)
    BY <2>1, <2>3, CopiesOf
  <2>5. << <<y[1], i>>[1], <<y[1], i>>[2] + b[<<y[1], i>>[1]] >> = y
    BY <2>1, <2>3
  <2> QED  BY <2>4, <2>5
<1>3. f \in Surjection(Copies(c), New)
  BY <1>1, <1>2 DEF Surjection
<1>4. IsFiniteSet(New) /\ Cardinality(New) <= Depth(c)
  BY <1>3, FS_Surjection DEF Depth
<1>5. Copies(b) \subseteq Copies(d)
  <2> SUFFICES ASSUME NEW y \in Copies(b) PROVE y \in Copies(d)
    OBVIOUS
  <2>1. y = <<y[1], y[2]>> /\ y[1] \in QueuePayload /\ y[2] \in 1..b[y[1]]
    BY CopiesOf
  <2>2. y[2] \in 1..d[y[1]]
    BY <2>1
  <2> QED  BY <2>1, <2>2, CopiesOf
<1>6. Copies(d) = Copies(b) \cup New /\ Copies(b) \cap New = {}
  BY <1>5
<1> HIDE DEF New
<1>7. /\ IsFiniteSet(Copies(d))
      /\ Cardinality(Copies(d)) = Cardinality(Copies(b)) + Cardinality(New) - Cardinality({})
  <2>1. /\ IsFiniteSet(Copies(b) \cup New)
        /\ Cardinality(Copies(b) \cup New)
              = Cardinality(Copies(b)) + Cardinality(New) - Cardinality(Copies(b) \cap New)
    BY <1>4, FS_Union
  <2> QED  BY <1>6, <2>1
<1>8. /\ Cardinality(Copies(d)) \in Nat /\ Cardinality(Copies(b)) \in Nat
      /\ Cardinality(New) \in Nat /\ Cardinality({}) = 0 /\ Depth(c) \in Nat
  BY <1>4, <1>7, FS_CardinalityType, FS_EmptySet DEF Depth
<1> QED  BY <1>4, <1>7, <1>8 DEF Depth

\* T has what S has, but for x, and counts accordingly.
DiffersIn(x, S, T) ==
    /\ IsFiniteSet(T)
    /\ Cardinality(S) \in Nat /\ Cardinality(T) \in Nat
    /\ x \in S /\ x \in T => Cardinality(T) = Cardinality(S)
    /\ x \in S /\ x \notin T => Cardinality(T) = Cardinality(S) - 1
    /\ x \notin S /\ x \in T => Cardinality(T) = Cardinality(S) + 1
    /\ x \notin S /\ x \notin T => Cardinality(T) = Cardinality(S)

\* Two sets that differ in at most one element.
LEMMA OneDiffers ==
    ASSUME NEW S, NEW T, NEW x, IsFiniteSet(S), S \ {x} = T \ {x}
    PROVE  DiffersIn(x, S, T)
<1> DEFINE R == S \ {x}
<1>1. x \notin R /\ IsFiniteSet(R)
  BY FS_RemoveElement
<1>2. (S = R \/ S = R \cup {x}) /\ (T = R \/ T = R \cup {x})
  OBVIOUS
<1> HIDE DEF R
<1>3. /\ IsFiniteSet(R \cup {x}) /\ Cardinality(R) \in Nat
      /\ Cardinality(R \cup {x}) = Cardinality(R) + 1
  BY <1>1, FS_AddElement, FS_CardinalityType
<1> QED  BY <1>1, <1>2, <1>3 DEF DiffersIn

-----------------------------------------------------------------------------
(* Where messages are, and where one more can still come from *)

Waiting == Depth(queue["main"]) + Depth(queue["retry"]) + Depth(queue["dead"])

\* Workers with a delivery.
Busy == {w \in Workers : worker[w].pc # "poll"}

\* Those that have not routed or acknowledged their delivery yet.
Working == {w \in Workers : worker[w].pc \in {"got", "loaded", "processed", "failed"}}

\* Redrives with a message from the dead-letter queue that they have not published.
Fetched == {o \in Operators : operator[o].pc = "publish" /\ operator[o].owned}

\* Requests that can still add the one message they are good for.  A redrive
\* that has lost its delivery before the publish adds it there and ends at the
\* acknowledgement.
Owing == {o \in Operators : \/ operator[o].pc \in {"enqueue", "redrive", "publish", "mark"}
                            \/ operator[o].pc = "ack" /\ operator[o].owned}

\* Events that the retry endpoint has published before their own request does.
Overtaken == {e \in published : intake[e] \in {"new", "created"}}

FiniteCounts ==
    /\ \A q \in Queues : IsFiniteSet(Copies(queue[q]))
    /\ IsFiniteSet(Copies(orphans))
    /\ IsFiniteSet(published)
    /\ IsFiniteSet(Busy)

\* DuplicatesAccounted is not inductive: a step that adds a message must have
\* been paid for before.  Whatever can still add one is charged in advance: a
\* delivery at work for its successor, a request for its message, an event the
\* retry endpoint has published for the publish of its own request.
MessagesCounted ==
    Waiting + Depth(orphans) + Cardinality(Working) + Cardinality(Fetched) + Cardinality(Owing)
        + Cardinality(Overtaken)
    <= Cardinality(published) + calls + faults

CountInv == FiniteCounts /\ MessagesCounted

\* Every count is a natural number.
LEMMA CountsAreNat ==
    ASSUME IInv, FiniteCounts
    PROVE  /\ \A q \in Queues : Depth(queue[q]) \in Nat
           /\ Waiting \in Nat /\ Depth(orphans) \in Nat
           /\ IsFiniteSet(Working) /\ Cardinality(Working) \in Nat
           /\ Cardinality(published) \in Nat
           /\ IsFiniteSet(Fetched) /\ Cardinality(Fetched) \in Nat
           /\ IsFiniteSet(Owing) /\ Cardinality(Owing) \in Nat
           /\ IsFiniteSet(Overtaken) /\ Cardinality(Overtaken) \in Nat
           /\ calls \in Nat /\ faults \in Nat
<1>1. \A q \in Queues : Depth(queue[q]) \in Nat
  BY FS_CardinalityType DEF FiniteCounts, Depth
<1>2. Waiting \in Nat
  <2>1. /\ Depth(queue["main"]) \in Nat /\ Depth(queue["retry"]) \in Nat
        /\ Depth(queue["dead"]) \in Nat
    BY <1>1 DEF Queues
  <2> QED  BY <2>1 DEF Waiting
<1>3. Depth(orphans) \in Nat /\ Cardinality(published) \in Nat
  BY FS_CardinalityType DEF FiniteCounts, Depth
<1>4. /\ Fetched \subseteq Operators /\ Owing \subseteq Operators
      /\ Overtaken \subseteq published /\ Working \subseteq Busy
  BY DEF Fetched, Owing, Overtaken, Working, Busy
<1>5. IsFiniteSet(Operators) /\ IsFiniteSet(published) /\ IsFiniteSet(Busy)
  BY ConstantsAssumption DEF FiniteCounts
<1>6. /\ IsFiniteSet(Fetched) /\ IsFiniteSet(Owing) /\ IsFiniteSet(Overtaken)
      /\ IsFiniteSet(Working)
  BY <1>4, <1>5, FS_Subset
<1>7. /\ Cardinality(Fetched) \in Nat /\ Cardinality(Owing) \in Nat
      /\ Cardinality(Overtaken) \in Nat /\ Cardinality(Working) \in Nat
  BY <1>6, FS_CardinalityType
<1>8. calls \in Nat /\ faults \in Nat
  BY ConstantsAssumption DEF IInv, TypeOK
<1> QED  BY <1>1, <1>2, <1>3, <1>6, <1>7, <1>8

\* A publish, and the return of a delivery to its queue, add one message.
LEMMA PublishCounts ==
    ASSUME IInv, FiniteCounts, NEW q \in Queues, NEW p \in QueuePayload,
           _publish_to_rabbitmq(q, p)
    PROVE  (\A r \in Queues : IsFiniteSet(Copies(queue'[r]))) /\ Waiting' = Waiting + 1
<1>1. queue \in [Queues -> [QueuePayload -> Nat]]
  BY DEF IInv, TypeOK
<1>2. /\ queue'[q] = [queue[q] EXCEPT ![p] = @ + 1]
      /\ \A r \in Queues \ {q} : queue'[r] = queue[r]
  BY <1>1 DEF _publish_to_rabbitmq
<1>3. /\ queue[q] \in [QueuePayload -> Nat] /\ queue'[q] \in [QueuePayload -> Nat]
      /\ queue'[q][p] = queue[q][p] + 1
      /\ \A r \in QueuePayload \ {p} : queue'[q][r] = queue[q][r]
  BY <1>1, <1>2
<1>4. IsFiniteSet(Copies(queue'[q])) /\ Depth(queue'[q]) = Depth(queue[q]) + 1
  BY <1>3, AddCopy DEF FiniteCounts
<1>5. \A r \in Queues \ {q} : Depth(queue'[r]) = Depth(queue[r]) /\ IsFiniteSet(Copies(queue'[r]))
  BY <1>2 DEF FiniteCounts
<1>6. \A r \in Queues : Depth(queue[r]) \in Nat
  BY CountsAreNat
<1> QED  BY <1>4, <1>5, <1>6 DEF Waiting, Queues

\* Whoever takes a message from a queue leaves one message less in it.
LEMMA TakeCounts ==
    ASSUME IInv, FiniteCounts, NEW q \in Queues, NEW p \in QueuePayload,
           queue[q][p] > 0, queue' = [queue EXCEPT ![q][p] = @ - 1]
    PROVE  (\A r \in Queues : IsFiniteSet(Copies(queue'[r]))) /\ Waiting' = Waiting - 1
<1>1. queue \in [Queues -> [QueuePayload -> Nat]]
  BY DEF IInv, TypeOK
<1>2. /\ queue'[q] = [queue[q] EXCEPT ![p] = @ - 1]
      /\ \A r \in Queues \ {q} : queue'[r] = queue[r]
  BY <1>1
<1>3. /\ queue[q] \in [QueuePayload -> Nat] /\ queue'[q] \in [QueuePayload -> Nat]
      /\ queue[q][p] = queue'[q][p] + 1
      /\ \A r \in QueuePayload \ {p} : queue'[q][r] = queue[q][r]
  BY <1>1, <1>2
<1>4. /\ IsFiniteSet(Copies(queue'[q])) /\ Depth(queue'[q]) \in Nat
      /\ Depth(queue[q]) = Depth(queue'[q]) + 1
  <2>1. IsFiniteSet(Copies(queue[q]))
    BY DEF FiniteCounts
  <2> QED  BY <1>3, <2>1, RemoveCopy
<1>5. \A r \in Queues \ {q} : Depth(queue'[r]) = Depth(queue[r]) /\ IsFiniteSet(Copies(queue'[r]))
  BY <1>2 DEF FiniteCounts
<1>6. \A r \in Queues : Depth(queue[r]) \in Nat
  BY CountsAreNat
<1> QED  BY <1>4, <1>5, <1>6 DEF Waiting, Queues

\* The end of a retry delay moves one message.
LEMMA RetryDelayCounts ==
    ASSUME IInv, FiniteCounts, NEW p \in QueuePayload, RetryDelayExpires(p)
    PROVE  (\A r \in Queues : IsFiniteSet(Copies(queue'[r]))) /\ Waiting' = Waiting
<1>1. queue \in [Queues -> [QueuePayload -> Nat]]
  BY DEF IInv, TypeOK
<1>2. /\ queue["retry"][p] > 0
      /\ queue'["retry"] = [queue["retry"] EXCEPT ![p] = @ - 1]
      /\ queue'["main"] = [queue["main"] EXCEPT ![p] = @ + 1]
      /\ queue'["dead"] = queue["dead"]
  BY <1>1 DEF RetryDelayExpires, Queues
<1>3. /\ queue["retry"] \in [QueuePayload -> Nat] /\ queue'["retry"] \in [QueuePayload -> Nat]
      /\ queue["retry"][p] = queue'["retry"][p] + 1
      /\ \A r \in QueuePayload \ {p} : queue'["retry"][r] = queue["retry"][r]
  BY <1>1, <1>2 DEF Queues
<1>4. /\ queue["main"] \in [QueuePayload -> Nat] /\ queue'["main"] \in [QueuePayload -> Nat]
      /\ queue'["main"][p] = queue["main"][p] + 1
      /\ \A r \in QueuePayload \ {p} : queue'["main"][r] = queue["main"][r]
  BY <1>1, <1>2 DEF Queues
<1>5. /\ IsFiniteSet(Copies(queue["retry"])) /\ IsFiniteSet(Copies(queue["main"]))
      /\ IsFiniteSet(Copies(queue["dead"]))
  BY DEF FiniteCounts, Queues
<1>6. /\ IsFiniteSet(Copies(queue'["retry"])) /\ Depth(queue'["retry"]) \in Nat
      /\ Depth(queue["retry"]) = Depth(queue'["retry"]) + 1
  BY <1>3, <1>5, RemoveCopy
<1>7. /\ IsFiniteSet(Copies(queue'["main"])) /\ Depth(queue["main"]) \in Nat
      /\ Depth(queue'["main"]) = Depth(queue["main"]) + 1
  BY <1>4, <1>5, AddCopy
<1>8. /\ IsFiniteSet(Copies(queue'["dead"])) /\ Depth(queue'["dead"]) = Depth(queue["dead"])
      /\ Depth(queue["dead"]) \in Nat
  BY <1>2, <1>5, CountsAreNat DEF Queues
<1> QED  BY <1>6, <1>7, <1>8 DEF Waiting, Queues

\* A step of one worker.
LEMMA WorkerCounts ==
    ASSUME IInv, FiniteCounts, NEW w \in Workers,
           \A v \in Workers \ {w} : worker'[v] = worker[v]
    PROVE  IsFiniteSet(Busy') /\ DiffersIn(w, Working, Working')
<1>1. Working \ {w} = Working' \ {w}
  BY DEF Working
<1>2. Busy \ {w} = Busy' \ {w}
  BY DEF Busy
<1>3. IsFiniteSet(Working) /\ IsFiniteSet(Busy)
  BY CountsAreNat DEF FiniteCounts
<1>4. DiffersIn(w, Working, Working') /\ DiffersIn(w, Busy, Busy')
  BY <1>1, <1>2, <1>3, OneDiffers
<1> QED  BY <1>4 DEF DiffersIn

\* A step of one operator request.
LEMMA OperatorCounts ==
    ASSUME IInv, FiniteCounts, NEW o \in Operators,
           \A u \in Operators \ {o} : operator'[u] = operator[u]
    PROVE  DiffersIn(o, Fetched, Fetched') /\ DiffersIn(o, Owing, Owing')
<1>1. Fetched \ {o} = Fetched' \ {o}
  BY DEF Fetched
<1>2. Owing \ {o} = Owing' \ {o}
  BY DEF Owing
<1>3. IsFiniteSet(Fetched) /\ IsFiniteSet(Owing)
  BY CountsAreNat
<1> QED  BY <1>1, <1>2, <1>3, OneDiffers

\* A step of the request that creates one event, or a publish of that event.
LEMMA PublishedCounts ==
    ASSUME IInv, FiniteCounts, NEW e \in Events,
           published' \ {e} = published \ {e},
           \A f \in Events \ {e} : intake'[f] = intake[f]
    PROVE  DiffersIn(e, published, published') /\ DiffersIn(e, Overtaken, Overtaken')
<1>1. published \in SUBSET Events
  BY DEF IInv, TypeOK
<1>2. published \ {e} = published' \ {e}
  OBVIOUS
<1>3. Overtaken \ {e} = Overtaken' \ {e}
  BY <1>1 DEF Overtaken
<1>4. IsFiniteSet(published) /\ IsFiniteSet(Overtaken)
  BY CountsAreNat DEF FiniteCounts
<1> QED  BY <1>2, <1>3, <1>4, OneDiffers

-----------------------------------------------------------------------------
(* Each step is paid for *)

\* POST /webhook commits its row, publishes the event, or fails to.  An event
\* that the retry endpoint has published before is charged already.
LEMMA IntakeCounted ==
    ASSUME IInv, CountInv, NEW e \in Events,
           \/ \E payload \in Payloads : CreateEvent(e, payload)
           \/ EnqueueCreated(e)
           \/ EnqueueFails(e)
    PROVE  CountInv'
<1>1. FiniteCounts /\ MessagesCounted
  BY DEF CountInv
<1>2. /\ UNCHANGED <<worker, operator, orphans, calls>>
      /\ \A f \in Events \ {e} : intake'[f] = intake[f]
      /\ published' \ {e} = published \ {e}
  BY DEF CreateEvent, EnqueueCreated, EnqueueFails, enqueue_event, IInv, TypeOK
<1>3. DiffersIn(e, published, published') /\ DiffersIn(e, Overtaken, Overtaken')
  BY <1>1, <1>2, PublishedCounts
<1>4. Working' = Working /\ Busy' = Busy /\ Fetched' = Fetched /\ Owing' = Owing
  BY <1>2 DEF Working, Busy, Fetched, Owing
<1>5. /\ Waiting \in Nat /\ Depth(orphans) \in Nat /\ Cardinality(Working) \in Nat
      /\ Cardinality(Fetched) \in Nat /\ Cardinality(Owing) \in Nat
      /\ calls \in Nat /\ faults \in Nat
  BY <1>1, CountsAreNat
<1>6. /\ IsFiniteSet(Copies(orphans')) /\ IsFiniteSet(published') /\ IsFiniteSet(Busy')
      /\ Depth(orphans') = Depth(orphans)
  BY <1>1, <1>2, <1>3, <1>4 DEF FiniteCounts, DiffersIn
<1>7. intake \in [Events -> IntakeState]
  BY DEF IInv, TypeOK
<1>8. ASSUME enqueue_event(e)
      PROVE  (\A r \in Queues : IsFiniteSet(Copies(queue'[r]))) /\ Waiting' = Waiting + 1
  BY <1>1, <1>8, PublishCounts, QueuePayloadType, FirstAttempt DEF enqueue_event, Queues
<1>9. ASSUME UNCHANGED queue
      PROVE  (\A r \in Queues : IsFiniteSet(Copies(queue'[r]))) /\ Waiting' = Waiting
  BY <1>1, <1>9 DEF FiniteCounts, Waiting
<1>10. CASE \E payload \in Payloads : CreateEvent(e, payload)
  <2>1. UNCHANGED <<queue, published, faults>> /\ (e \in Overtaken' <=> e \in Overtaken)
    BY <1>7, <1>10 DEF CreateEvent, Overtaken
  <2> QED  BY <1>1, <1>2, <1>3, <1>4, <1>5, <1>6, <1>9, <2>1
           DEF CountInv, FiniteCounts, MessagesCounted, DiffersIn
<1>11. CASE EnqueueCreated(e)
  <2>1. /\ enqueue_event(e) /\ faults' = faults /\ e \in published' /\ e \notin Overtaken'
        /\ (e \in Overtaken <=> e \in published)
    BY <1>7, <1>11 DEF EnqueueCreated, enqueue_event, Overtaken
  <2> QED  BY <1>1, <1>2, <1>3, <1>4, <1>5, <1>6, <1>8, <2>1
           DEF CountInv, FiniteCounts, MessagesCounted, DiffersIn
<1>12. CASE EnqueueFails(e)
  <2>1. faults' = faults + 1 /\ e \notin Overtaken' /\ (e \in Overtaken <=> e \in published)
    BY <1>7, <1>12 DEF EnqueueFails, Fault, Overtaken
  <2>2. CASE enqueue_event(e)
    <3>1. e \in published'
      BY <2>2 DEF enqueue_event
    <3> QED  BY <1>1, <1>2, <1>3, <1>4, <1>5, <1>6, <1>8, <2>1, <2>2, <3>1
             DEF CountInv, FiniteCounts, MessagesCounted, DiffersIn
  <2>3. CASE UNCHANGED <<queue, published>>
    BY <1>1, <1>2, <1>3, <1>4, <1>5, <1>6, <1>9, <2>1, <2>3
    DEF CountInv, FiniteCounts, MessagesCounted, DiffersIn
  <2> QED  BY <1>12, <2>2, <2>3 DEF EnqueueFails
<1> QED  BY <1>10, <1>11, <1>12

\* A step of a worker: a delivery at work is charged for its successor, and a
\* fault pays for the delivery it requeues.
LEMMA WorkerCounted ==
    ASSUME IInv, CountInv, NEW w \in Workers,
           run_worker(w) \/ WorkerRestart(w) \/ WorkerConnectionLost(w)
    PROVE  CountInv'
<1>1. FiniteCounts /\ MessagesCounted
  BY DEF CountInv
<1>2. /\ queue \in [Queues -> [QueuePayload -> Nat]]
      /\ worker \in [Workers -> WorkerState]
  BY DEF IInv, TypeOK
<1>3. /\ UNCHANGED <<intake, operator, orphans, published, calls>>
      /\ \A v \in Workers \ {w} : worker'[v] = worker[v]
  BY <1>2 DEF run_worker, dequeue_event, LoadEvent, CommitAttempt, complete_event, PublishFailed,
              AckRouted, WorkerRestart, WorkerConnectionLost
<1>4. IsFiniteSet(Busy') /\ DiffersIn(w, Working, Working')
  BY <1>1, <1>3, WorkerCounts
<1>5. Fetched' = Fetched /\ Owing' = Owing /\ Overtaken' = Overtaken
  BY <1>3 DEF Fetched, Owing, Overtaken
<1>6. /\ Waiting \in Nat /\ Depth(orphans) \in Nat /\ Cardinality(Working) \in Nat
      /\ Cardinality(Fetched) \in Nat /\ Cardinality(Owing) \in Nat
      /\ Cardinality(Overtaken) \in Nat /\ Cardinality(published) \in Nat
      /\ calls \in Nat /\ faults \in Nat
  BY <1>1, CountsAreNat
<1>7. /\ IsFiniteSet(Copies(orphans')) /\ IsFiniteSet(published') /\ IsFiniteSet(Busy')
      /\ Depth(orphans') = Depth(orphans) /\ Cardinality(published') = Cardinality(published)
  BY <1>1, <1>3, <1>4 DEF FiniteCounts, DiffersIn
<1>8. ASSUME UNCHANGED queue
      PROVE  (\A r \in Queues : IsFiniteSet(Copies(queue'[r]))) /\ Waiting' = Waiting
  BY <1>1, <1>8 DEF FiniteCounts, Waiting
<1>9. CASE \E p \in QueuePayload : dequeue_event(w, p)
  <2>1. (\A r \in Queues : IsFiniteSet(Copies(queue'[r]))) /\ Waiting' = Waiting - 1
    BY <1>1, <1>9, TakeCounts DEF dequeue_event, Queues
  <2>2. w \notin Working /\ w \in Working' /\ faults' = faults
    BY <1>2, <1>9 DEF dequeue_event, Working
  <2> QED  BY <1>1, <1>3, <1>4, <1>5, <1>6, <1>7, <2>1, <2>2
           DEF CountInv, FiniteCounts, MessagesCounted, DiffersIn
<1>10. CASE LoadEvent(w) \/ CommitAttempt(w)
  <2>1. w \in Working /\ w \in Working' /\ faults' = faults /\ queue' = queue
    BY <1>2, <1>10 DEF LoadEvent, CommitAttempt, Working
  <2> QED  BY <1>1, <1>3, <1>4, <1>5, <1>6, <1>7, <1>8, <2>1
           DEF CountInv, FiniteCounts, MessagesCounted, DiffersIn
<1>11. CASE complete_event(w) \/ AckRouted(w)
  <2>1. w \notin Working' /\ faults' = faults /\ queue' = queue
    BY <1>2, <1>11 DEF complete_event, AckRouted, Working
  <2> QED  BY <1>1, <1>3, <1>4, <1>5, <1>6, <1>7, <1>8, <2>1
           DEF CountInv, FiniteCounts, MessagesCounted, DiffersIn
<1>12. CASE PublishFailed(w)
  <2>1. worker[w].envelope \in QueuePayload
    BY <1>2, <1>12, WorkerFields DEF PublishFailed
  <2>2. \E q \in Queues, p \in QueuePayload : _publish_to_rabbitmq(q, p)
    <3> DEFINE envelope == worker[w].envelope
    <3>1. envelope.event \in Events /\ envelope.attempt \in Attempts
      BY <2>1 DEF QueuePayload
    <3>2. CASE envelope.attempt + 1 <= MaxAttempts
      <4>1. envelope.attempt + 1 \in Attempts
        BY <3>1, <3>2, ConstantsAssumption DEF Attempts
      <4> QED  BY <1>12, <3>1, <3>2, <4>1, QueuePayloadType DEF PublishFailed, Queues
    <3>3. CASE ~(envelope.attempt + 1 <= MaxAttempts)
      BY <1>12, <3>1, <3>3, QueuePayloadType DEF PublishFailed, Queues
    <3> QED  BY <3>2, <3>3
  <2>3. (\A r \in Queues : IsFiniteSet(Copies(queue'[r]))) /\ Waiting' = Waiting + 1
    BY <1>1, <2>2, PublishCounts
  <2>4. w \in Working /\ w \notin Working' /\ faults' = faults
    BY <1>2, <1>12 DEF PublishFailed, Working
  <2> QED  BY <1>1, <1>3, <1>4, <1>5, <1>6, <1>7, <2>3, <2>4
           DEF CountInv, FiniteCounts, MessagesCounted, DiffersIn
<1>13. CASE WorkerRestart(w) \/ WorkerConnectionLost(w)
  <2>1. faults' = faults + 1 /\ RequeueDelivery(w)
    BY <1>13 DEF WorkerRestart, WorkerConnectionLost, Fault
  <2>2. worker[w].pc # "poll"
    BY <1>13 DEF WorkerRestart, WorkerConnectionLost
  <2>3. worker[w] \in WorkerState /\ worker[w].envelope \in QueuePayload
    BY <1>2, <2>2, WorkerFields
  <2>4. worker'[w].pc \in {"poll", worker[w].pc}
    <3>1. CASE WorkerRestart(w)
      BY <1>2, <3>1 DEF WorkerRestart
    <3>2. CASE WorkerConnectionLost(w)
      <4>1. worker'[w] = [worker[w] EXCEPT !.owned = FALSE]
        BY <1>2, <3>2 DEF WorkerConnectionLost
      <4> QED  BY <2>2, <2>3, <4>1, WorkerFields
    <3> QED  BY <1>13, <3>1, <3>2
  <2>5. w \in Working' => w \in Working
    BY <2>4 DEF Working
  <2>6. CASE worker[w].owned
    <3>1. _publish_to_rabbitmq("main", worker[w].envelope)
      BY <2>1, <2>6 DEF RequeueDelivery, _publish_to_rabbitmq
    <3>2. (\A r \in Queues : IsFiniteSet(Copies(queue'[r]))) /\ Waiting' = Waiting + 1
      BY <1>1, <2>3, <3>1, PublishCounts DEF Queues
    <3> QED  BY <1>1, <1>3, <1>4, <1>5, <1>6, <1>7, <2>1, <2>5, <3>2
             DEF CountInv, FiniteCounts, MessagesCounted, DiffersIn
  <2>7. CASE ~worker[w].owned
    <3>1. queue' = queue
      BY <2>1, <2>7 DEF RequeueDelivery
    <3> QED  BY <1>1, <1>3, <1>4, <1>5, <1>6, <1>7, <1>8, <2>1, <2>5, <3>1
             DEF CountInv, FiniteCounts, MessagesCounted, DiffersIn
  <2> QED  BY <2>6, <2>7
<1> QED  BY <1>9, <1>10, <1>11, <1>12, <1>13 DEF run_worker

\* A request to retry an event or to redrive the dead-letter queue pays for one
\* message when it starts.
LEMMA OperatorCounted ==
    ASSUME IInv, CountInv, NEW o \in Operators,
           \/ \E e \in Events : RetryEvent(o, e)
           \/ EnqueueRetry(o)
           \/ \E limit \in Limits : RedriveDlq(o, limit)
           \/ RedriveStep(o)
    PROVE  CountInv'
<1>1. FiniteCounts /\ MessagesCounted
  BY DEF CountInv
<1>2. /\ queue \in [Queues -> [QueuePayload -> Nat]]
      /\ operator \in [Operators -> OperatorState]
  BY DEF IInv, TypeOK
<1>3. /\ UNCHANGED <<intake, worker, orphans, faults>>
      /\ \A u \in Operators \ {o} : operator'[u] = operator[u]
  BY <1>2 DEF RetryEvent, EnqueueRetry, RedriveDlq, RedriveStep, RedriveGet, RedriveLoopEnds,
              RedrivePublish, RedriveAck, mark_events_pending
<1>4. DiffersIn(o, Fetched, Fetched') /\ DiffersIn(o, Owing, Owing')
  BY <1>1, <1>3, OperatorCounts
<1>5. Working' = Working /\ Busy' = Busy
  BY <1>3 DEF Working, Busy
<1>6. /\ Waiting \in Nat /\ Depth(orphans) \in Nat /\ Cardinality(Working) \in Nat
      /\ Cardinality(Fetched) \in Nat /\ Cardinality(Owing) \in Nat
      /\ Cardinality(Overtaken) \in Nat /\ Cardinality(published) \in Nat
      /\ calls \in Nat /\ faults \in Nat
  BY <1>1, CountsAreNat
<1>7. /\ IsFiniteSet(Copies(orphans')) /\ IsFiniteSet(Busy')
      /\ Depth(orphans') = Depth(orphans)
  BY <1>1, <1>3, <1>5 DEF FiniteCounts
<1>8. ASSUME UNCHANGED queue
      PROVE  (\A r \in Queues : IsFiniteSet(Copies(queue'[r]))) /\ Waiting' = Waiting
  BY <1>1, <1>8 DEF FiniteCounts, Waiting
<1>9. ASSUME UNCHANGED published
      PROVE  /\ IsFiniteSet(published') /\ Cardinality(published') = Cardinality(published)
             /\ Cardinality(Overtaken') = Cardinality(Overtaken)
  <2>1. Overtaken' = Overtaken
    BY <1>3, <1>9 DEF Overtaken
  <2> QED  BY <1>1, <1>9, <2>1 DEF FiniteCounts
<1>10. CASE (\E e \in Events : RetryEvent(o, e)) \/ (\E limit \in Limits : RedriveDlq(o, limit))
  <2>1. /\ UNCHANGED <<queue, published>> /\ calls' = calls + 1
        /\ operator[o].pc = "idle" /\ operator'[o].pc \in {"enqueue", "redrive"}
    BY <1>2, <1>10 DEF RetryEvent, RedriveDlq, Call
  <2>2. o \notin Fetched' /\ o \notin Owing
    BY <2>1 DEF Fetched, Owing
  <2> QED  BY <1>1, <1>3, <1>4, <1>5, <1>6, <1>7, <1>8, <1>9, <2>1, <2>2
           DEF CountInv, FiniteCounts, MessagesCounted, DiffersIn
<1>11. CASE EnqueueRetry(o)
  <2> DEFINE e == operator[o].event
  <2>1. /\ e \in Events /\ enqueue_event(e) /\ intake' = intake /\ calls' = calls
        /\ operator[o].pc = "enqueue" /\ operator'[o].pc = "idle"
    BY <1>2, <1>11, OperatorFields DEF EnqueueRetry
  <2>2. o \notin Fetched' /\ o \in Owing /\ o \notin Owing'
    BY <2>1 DEF Fetched, Owing
  <2>3. (\A r \in Queues : IsFiniteSet(Copies(queue'[r]))) /\ Waiting' = Waiting + 1
    BY <1>1, <2>1, PublishCounts, QueuePayloadType, FirstAttempt DEF enqueue_event, Queues
  <2>4. DiffersIn(e, published, published') /\ DiffersIn(e, Overtaken, Overtaken')
    BY <1>1, <2>1, PublishedCounts DEF enqueue_event
  <2>5. e \in published' /\ (e \in published => (e \in Overtaken' <=> e \in Overtaken))
        /\ (e \notin published => e \notin Overtaken)
    BY <2>1 DEF enqueue_event, Overtaken
  <2> HIDE DEF e
  <2> QED  BY <1>1, <1>3, <1>4, <1>5, <1>6, <1>7, <2>1, <2>2, <2>3, <2>4, <2>5
           DEF CountInv, FiniteCounts, MessagesCounted, DiffersIn
<1>12. CASE \E p \in QueuePayload : RedriveGet(o, p)
  <2>1. (\A r \in Queues : IsFiniteSet(Copies(queue'[r]))) /\ Waiting' = Waiting - 1
    BY <1>1, <1>12, TakeCounts DEF RedriveGet, Queues
  <2>2. /\ UNCHANGED <<published, calls>>
        /\ operator[o].pc = "redrive" /\ operator'[o].pc = "publish"
    BY <1>2, <1>12 DEF RedriveGet
  <2>3. o \notin Fetched /\ o \in Owing /\ o \in Owing'
    BY <2>2 DEF Fetched, Owing
  <2> QED  BY <1>1, <1>3, <1>4, <1>5, <1>6, <1>7, <1>9, <2>1, <2>2, <2>3
           DEF CountInv, FiniteCounts, MessagesCounted, DiffersIn
<1>13. CASE RedriveLoopEnds(o) \/ RedriveAck(o) \/ mark_events_pending(o)
  <2>1. UNCHANGED <<queue, published, calls>>
    BY <1>13 DEF RedriveLoopEnds, RedriveAck, mark_events_pending
  <2>2. /\ operator'[o].pc \in {"mark", "redrive", "idle"}
        /\ operator'[o].pc # "idle"
              => operator[o].pc = "redrive" \/ (operator[o].pc = "ack" /\ operator[o].owned)
    BY <1>2, <1>13 DEF RedriveLoopEnds, RedriveAck, mark_events_pending
  <2>3. o \notin Fetched' /\ (o \in Owing' => o \in Owing)
    BY <2>2 DEF Fetched, Owing
  <2> QED  BY <1>1, <1>3, <1>4, <1>5, <1>6, <1>7, <1>8, <1>9, <2>1, <2>3
           DEF CountInv, FiniteCounts, MessagesCounted, DiffersIn
<1>14. CASE RedrivePublish(o)
  <2>1. operator[o].message \in QueuePayload
    BY <1>2, <1>14, OperatorFields DEF RedrivePublish
  <2>2. operator[o].message.event \in Events
    BY <2>1 DEF QueuePayload
  <2>3. (\A r \in Queues : IsFiniteSet(Copies(queue'[r]))) /\ Waiting' = Waiting + 1
    BY <1>1, <1>14, <2>2, PublishCounts, QueuePayloadType, FirstAttempt DEF RedrivePublish, Queues
  <2>4. /\ UNCHANGED <<published, calls>>
        /\ operator[o].pc = "publish" /\ operator'[o].pc = "ack"
        /\ operator'[o].owned = operator[o].owned
    BY <1>2, <1>14 DEF RedrivePublish
  <2>5. /\ o \in Owing /\ o \notin Fetched'
        /\ o \in Fetched \/ o \notin Owing'
    BY <2>4 DEF Fetched, Owing
  <2> QED  BY <1>1, <1>3, <1>4, <1>5, <1>6, <1>7, <1>9, <2>3, <2>4, <2>5
           DEF CountInv, FiniteCounts, MessagesCounted, DiffersIn
<1> QED  BY <1>10, <1>11, <1>12, <1>13, <1>14 DEF RedriveStep

\* A failed request hides at most one message, which its fault pays for.
LEMMA OrphanCounts ==
    ASSUME IInv, IsFiniteSet(Copies(orphans)), NEW o \in Operators, OperatorFails(o)
    PROVE  /\ IsFiniteSet(Copies(orphans')) /\ Depth(orphans) \in Nat /\ Depth(orphans') \in Nat
           /\ Depth(orphans') <= Depth(orphans) + 1
<1>1. orphans \in [QueuePayload -> Nat] /\ operator \in [Operators -> OperatorState]
  BY DEF IInv, TypeOK
<1>2. orphans' = [p \in QueuePayload |-> IF Holds(o, p) THEN orphans[p] + 1 ELSE orphans[p]]
  BY DEF OperatorFails
<1>3. orphans' \in [QueuePayload -> Nat]
  BY <1>1, <1>2
<1>4. Depth(orphans) \in Nat
  BY FS_CardinalityType DEF Depth
<1>5. CASE \E p \in QueuePayload : Holds(o, p)
  <2>1. PICK p \in QueuePayload : Holds(o, p)
    BY <1>5
  <2>2. \A r \in QueuePayload \ {p} : ~Holds(o, r)
    BY <2>1 DEF Holds
  <2>3. orphans'[p] = orphans[p] + 1 /\ \A r \in QueuePayload \ {p} : orphans'[r] = orphans[r]
    BY <1>2, <2>1, <2>2
  <2> QED  BY <1>1, <1>3, <1>4, <2>3, AddCopy
<1>6. CASE ~\E p \in QueuePayload : Holds(o, p)
  <2>1. orphans' = orphans
    BY <1>1, <1>2, <1>6
  <2> QED  BY <1>4, <2>1
<1> QED  BY <1>5, <1>6

\* It gives up what it was charged for, and leaves at most that one behind.
LEMMA OperatorFailsCounted ==
    ASSUME IInv, CountInv, NEW o \in Operators, OperatorFails(o)
    PROVE  CountInv'
<1>1. FiniteCounts /\ MessagesCounted
  BY DEF CountInv
<1>2. operator \in [Operators -> OperatorState]
  BY DEF IInv, TypeOK
<1>3. /\ UNCHANGED <<intake, queue, worker, published, calls>> /\ faults' = faults + 1
      /\ \A u \in Operators \ {o} : operator'[u] = operator[u]
      /\ operator'[o].pc = "idle"
  BY <1>2 DEF OperatorFails, Fault
<1>4. DiffersIn(o, Fetched, Fetched') /\ DiffersIn(o, Owing, Owing')
  BY <1>1, <1>3, OperatorCounts
<1>5. o \notin Fetched' /\ o \notin Owing'
  BY <1>3 DEF Fetched, Owing
<1>6. /\ Working' = Working /\ Busy' = Busy /\ Overtaken' = Overtaken /\ Waiting' = Waiting
      /\ \A r \in Queues : IsFiniteSet(Copies(queue'[r]))
  BY <1>1, <1>3 DEF Working, Busy, Overtaken, Waiting, FiniteCounts
<1>7. /\ Waiting \in Nat /\ Depth(orphans) \in Nat /\ Cardinality(Working) \in Nat
      /\ Cardinality(Fetched) \in Nat /\ Cardinality(Owing) \in Nat
      /\ Cardinality(Overtaken) \in Nat /\ Cardinality(published) \in Nat
      /\ calls \in Nat /\ faults \in Nat
  BY <1>1, CountsAreNat
<1>8. /\ IsFiniteSet(Copies(orphans')) /\ Depth(orphans') \in Nat
      /\ Depth(orphans') <= Depth(orphans) + 1
  BY <1>1, OrphanCounts DEF FiniteCounts
<1> QED  BY <1>1, <1>3, <1>4, <1>5, <1>6, <1>7, <1>8
         DEF CountInv, FiniteCounts, MessagesCounted, DiffersIn

\* Requests with an unacknowledged delivery, and the same counted by message.
Holding == {o \in Operators : \E p \in QueuePayload : Holds(o, p)}

HeldMessages == [p \in QueuePayload |-> Cardinality(Holders(p))]

\* Every request holds one message at a time, so the messages held are at most
\* as many as the requests: the holders of each message are numbered.
LEMMA HeldCounts ==
    ASSUME IInv
    PROVE  /\ HeldMessages \in [QueuePayload -> Nat] /\ IsFiniteSet(Copies(HeldMessages))
           /\ Depth(HeldMessages) \in Nat /\ Depth(HeldMessages) <= Cardinality(Holding)
<1> DEFINE n(p) == Cardinality(Holders(p))
           holder(p) == CHOOSE f : f \in Bijection(1..n(p), Holders(p))
           g == [x \in Copies(HeldMessages) |-> holder(x[1])[x[2]]]
<1>1. \A p \in QueuePayload : n(p) \in Nat /\ holder(p) \in Bijection(1..n(p), Holders(p))
  <2> SUFFICES ASSUME NEW p \in QueuePayload
               PROVE  n(p) \in Nat /\ \E f : f \in Bijection(1..n(p), Holders(p))
    OBVIOUS
  <2>1. Holders(p) \subseteq Operators
    BY DEF Holders
  <2>2. IsFiniteSet(Holders(p))
    BY <2>1, ConstantsAssumption, FS_Subset
  <2> QED  BY <2>2, FS_CardinalityType DEF ExistsBijection
<1>2. /\ HeldMessages \in [QueuePayload -> Nat]
      /\ \A p \in QueuePayload : HeldMessages[p] = n(p)
  BY <1>1 DEF HeldMessages
<1>3. \A p \in QueuePayload : \A o \in Holders(p) : o \in Holding /\ operator[o].message = p
  BY DEF Holding, Holders, Holds
<1> HIDE DEF n, holder
<1>4. \A p \in QueuePayload : \A i \in 1..n(p) :
         /\ holder(p)[i] \in Holders(p)
         /\ \A j \in 1..n(p) : holder(p)[i] = holder(p)[j] => i = j
  BY <1>1 DEF Bijection, Injection, IsInjective
<1>5. \A x \in Copies(HeldMessages) :
         /\ x = <<x[1], x[2]>> /\ x[1] \in QueuePayload /\ x[2] \in 1..n(x[1])
         /\ holder(x[1])[x[2]] \in Holders(x[1])
  <2>1. \A x \in Copies(HeldMessages) :
           x = <<x[1], x[2]>> /\ x[1] \in QueuePayload /\ x[2] \in 1..HeldMessages[x[1]]
    BY CopiesOf
  <2> QED  BY <1>2, <1>4, <2>1
<1>6. \A x \in Copies(HeldMessages) : g[x] \in Holding
  BY <1>3, <1>5
<1>7. ASSUME NEW x \in Copies(HeldMessages), NEW y \in Copies(HeldMessages), g[x] = g[y]
      PROVE  x = y
  <2>1. holder(x[1])[x[2]] = holder(y[1])[y[2]]
    BY <1>7
  <2>2. x[1] = y[1]
    BY <1>3, <1>5, <2>1
  <2>3. x[2] = y[2]
    BY <1>4, <1>5, <2>1, <2>2
  <2> QED  BY <1>5, <2>2, <2>3
<1>8. g \in Injection(Copies(HeldMessages), Holding)
  BY <1>6, <1>7 DEF Injection, IsInjective
<1>9. IsFiniteSet(Holding)
  <2>1. Holding \subseteq Operators
    BY DEF Holding
  <2> QED  BY <2>1, ConstantsAssumption, FS_Subset
<1>10. /\ IsFiniteSet(Copies(HeldMessages))
       /\ Cardinality(Copies(HeldMessages)) <= Cardinality(Holding)
  BY <1>8, <1>9, FS_Injection
<1> QED  BY <1>2, <1>10, FS_CardinalityType DEF Depth

\* The close of the API's channel returns what it held, and no more.
LEMMA CloseCounts ==
    ASSUME IInv, FiniteCounts, CloseApiChannel
    PROVE  /\ \A r \in Queues : IsFiniteSet(Copies(queue'[r]))
           /\ IsFiniteSet(Copies(orphans')) /\ Depth(orphans') = 0
           /\ Waiting' \in Nat
           /\ Waiting' <= Waiting + Depth(orphans) + Cardinality(Holding)
<1> DEFINE kept == [p \in QueuePayload |-> queue["dead"][p] + orphans[p]]
<1>1. /\ queue \in [Queues -> [QueuePayload -> Nat]] /\ orphans \in [QueuePayload -> Nat]
      /\ queue["dead"] \in [QueuePayload -> Nat]
  BY DEF IInv, TypeOK, Queues
<1>2. /\ HeldMessages \in [QueuePayload -> Nat] /\ IsFiniteSet(Copies(HeldMessages))
      /\ Depth(HeldMessages) \in Nat /\ Depth(HeldMessages) <= Cardinality(Holding)
  BY HeldCounts
<1>3. /\ queue'["main"] = queue["main"] /\ queue'["retry"] = queue["retry"]
      /\ queue'["dead"] = [p \in QueuePayload |->
                              queue["dead"][p] + orphans[p] + Cardinality(Holders(p))]
      /\ \A p \in QueuePayload : orphans'[p] = 0
  BY <1>1 DEF CloseApiChannel, Queues
<1>4. kept \in [QueuePayload -> Nat] /\ \A p \in QueuePayload : kept[p] = queue["dead"][p] + orphans[p]
  BY <1>1
<1>5. /\ queue'["dead"] \in [QueuePayload -> Nat]
      /\ \A p \in QueuePayload : queue'["dead"][p] = kept[p] + HeldMessages[p]
  <2>1. \A p \in QueuePayload : HeldMessages[p] = Cardinality(Holders(p)) /\ HeldMessages[p] \in Nat
    BY <1>2 DEF HeldMessages
  <2> QED  BY <1>1, <1>3, <2>1
<1> HIDE DEF kept
<1>6. IsFiniteSet(Copies(queue["dead"])) /\ IsFiniteSet(Copies(orphans))
  BY DEF FiniteCounts, Queues
<1>7. /\ IsFiniteSet(Copies(kept)) /\ Depth(kept) \in Nat
      /\ Depth(kept) <= Depth(queue["dead"]) + Depth(orphans)
  BY <1>1, <1>4, <1>6, SumOfBags
<1>8. /\ IsFiniteSet(Copies(queue'["dead"])) /\ Depth(queue'["dead"]) \in Nat
      /\ Depth(queue'["dead"]) <= Depth(kept) + Depth(HeldMessages)
  BY <1>2, <1>4, <1>5, <1>7, SumOfBags
<1>9. IsFiniteSet(Copies(orphans')) /\ Depth(orphans') = 0
  BY <1>3, EmptyBag
<1>10. /\ Depth(queue["main"]) \in Nat /\ Depth(queue["retry"]) \in Nat
       /\ Depth(queue["dead"]) \in Nat /\ Depth(orphans) \in Nat
  BY CountsAreNat DEF Queues
<1>11. Cardinality(Holding) \in Nat
  <2>1. Holding \subseteq Operators
    BY DEF Holding
  <2> QED  BY <2>1, ConstantsAssumption, FS_Subset, FS_CardinalityType
<1>12. \A r \in Queues : IsFiniteSet(Copies(queue'[r]))
  BY <1>3, <1>8 DEF FiniteCounts, Queues
<1> QED  BY <1>2, <1>3, <1>7, <1>8, <1>9, <1>10, <1>11, <1>12 DEF Waiting

\* What returns when the channel closes was charged as fetched, or as a message
\* its request still owed.
LEMMA ChannelCounted ==
    ASSUME IInv, CountInv, ApiRestart \/ ApiConnectionLost
    PROVE  CountInv'
<1> DEFINE Acking == {o \in Operators : operator[o].pc = "ack" /\ operator[o].owned}
<1>1. FiniteCounts /\ MessagesCounted
  BY DEF CountInv
<1>2. operator \in [Operators -> OperatorState]
  BY DEF IInv, TypeOK
<1>3. /\ UNCHANGED <<worker, published, calls>> /\ faults' = faults + 1 /\ CloseApiChannel
  BY DEF ApiRestart, ApiConnectionLost, Fault
<1>4. /\ \A r \in Queues : IsFiniteSet(Copies(queue'[r]))
      /\ IsFiniteSet(Copies(orphans')) /\ Depth(orphans') = 0
      /\ Waiting' \in Nat
      /\ Waiting' <= Waiting + Depth(orphans) + Cardinality(Holding)
  BY <1>1, <1>3, CloseCounts
<1>5. Acking \subseteq Operators /\ Acking \subseteq Owing /\ Owing \subseteq Operators
  BY DEF Owing
<1>6. IsFiniteSet(Acking) /\ IsFiniteSet(Owing) /\ IsFiniteSet(Fetched) /\ IsFiniteSet(Overtaken)
  BY <1>1, <1>5, CountsAreNat, FS_Subset, ConstantsAssumption
<1>7. Holding \subseteq Fetched \cup Acking /\ Fetched \cap Acking = {}
  BY DEF Holding, Holds, Fetched
<1>8. Fetched' = {} /\ Owing' \subseteq Owing \ Acking /\ Overtaken' \subseteq Overtaken
  <2>1. CASE ApiRestart
    <3>1. \A o \in Operators : operator'[o].pc = "idle"
      BY <2>1 DEF ApiRestart
    <3>2. \A e \in Events : intake'[e] \in {"new", "created"} => intake[e] \in {"new", "created"}
      BY <2>1 DEF ApiRestart
    <3>3. published \in SUBSET Events
      BY DEF IInv, TypeOK
    <3>4. Overtaken' \subseteq Overtaken
      BY <1>3, <3>2, <3>3 DEF Overtaken
    <3> QED  BY <3>1, <3>4 DEF Fetched, Owing
  <2>2. CASE ApiConnectionLost
    <3>1. \A o \in Operators :
             operator'[o] = IF operator[o].pc \in {"publish", "ack"}
                            THEN [operator[o] EXCEPT !.owned = FALSE]
                            ELSE operator[o]
      BY <2>2 DEF ApiConnectionLost
    <3>2. \A o \in Operators :
             operator[o].pc \in {"publish", "ack"}
                => operator'[o].owned = FALSE /\ operator'[o].pc = operator[o].pc
      BY <1>2, <3>1, OperatorFields
    <3>3. \A o \in Operators : operator[o].pc \notin {"publish", "ack"} => operator'[o] = operator[o]
      BY <3>1
    <3>4. Overtaken' = Overtaken
      BY <2>2 DEF ApiConnectionLost, Overtaken
    <3> QED  BY <3>2, <3>3, <3>4 DEF Fetched, Owing
  <2> QED  BY <2>1, <2>2
<1> HIDE DEF Acking
<1>9. Cardinality(Holding) <= Cardinality(Fetched) + Cardinality(Acking)
      /\ Cardinality(Holding) \in Nat /\ Cardinality(Acking) \in Nat
  <2>1. /\ IsFiniteSet(Fetched \cup Acking)
        /\ Cardinality(Fetched \cup Acking)
              = Cardinality(Fetched) + Cardinality(Acking) - Cardinality(Fetched \cap Acking)
    BY <1>6, FS_Union
  <2>2. IsFiniteSet(Holding) /\ Cardinality(Holding) <= Cardinality(Fetched \cup Acking)
    BY <1>7, <2>1, FS_Subset
  <2>3. Cardinality(Holding) \in Nat /\ Cardinality(Acking) \in Nat /\ Cardinality(Fetched) \in Nat
    BY <1>6, <2>2, FS_CardinalityType
  <2>4. Cardinality(Fetched \cap Acking) = 0
    BY <1>7, FS_EmptySet
  <2> QED  BY <2>1, <2>2, <2>3, <2>4
<1>10. Cardinality(Owing') \in Nat /\ Cardinality(Owing') <= Cardinality(Owing) - Cardinality(Acking)
  <2>1. /\ IsFiniteSet(Owing \ Acking)
        /\ Cardinality(Owing \ Acking) = Cardinality(Owing) - Cardinality(Owing \cap Acking)
    BY <1>6, FS_Difference
  <2>2. Owing \cap Acking = Acking
    BY <1>5
  <2>3. IsFiniteSet(Owing') /\ Cardinality(Owing') <= Cardinality(Owing \ Acking)
    BY <1>8, <2>1, FS_Subset
  <2>4. Cardinality(Owing') \in Nat
    BY <2>3, FS_CardinalityType
  <2> QED  BY <2>1, <2>2, <2>3, <2>4
<1>11. Cardinality(Overtaken') \in Nat /\ Cardinality(Overtaken') <= Cardinality(Overtaken)
  BY <1>6, <1>8, FS_Subset, FS_CardinalityType
<1>12. Cardinality(Fetched') = 0
  BY <1>8, FS_EmptySet
<1>13. Working' = Working /\ Busy' = Busy
  BY <1>3 DEF Working, Busy
<1>14. /\ Waiting \in Nat /\ Depth(orphans) \in Nat /\ Cardinality(Working) \in Nat
       /\ Cardinality(Fetched) \in Nat /\ Cardinality(Owing) \in Nat
       /\ Cardinality(Overtaken) \in Nat /\ Cardinality(published) \in Nat
       /\ calls \in Nat /\ faults \in Nat
  BY <1>1, CountsAreNat
<1>15. MessagesCounted'
  BY <1>1, <1>3, <1>4, <1>9, <1>10, <1>11, <1>12, <1>13, <1>14 DEF MessagesCounted
<1>16. FiniteCounts'
  BY <1>1, <1>3, <1>4, <1>13 DEF FiniteCounts
<1> QED  BY <1>15, <1>16 DEF CountInv

\* At first there is no message.
LEMMA InitCounted == Init => CountInv
<1> SUFFICES ASSUME Init PROVE CountInv
  OBVIOUS
<1>1. \A q \in Queues : IsFiniteSet(Copies(queue[q])) /\ Depth(queue[q]) = 0
  <2>1. \A q \in Queues : \A p \in QueuePayload : queue[q][p] = 0
    BY DEF Init
  <2> QED  BY <2>1, EmptyBag
<1>2. IsFiniteSet(Copies(orphans)) /\ Depth(orphans) = 0
  <2>1. \A p \in QueuePayload : orphans[p] = 0
    BY DEF Init
  <2> QED  BY <2>1, EmptyBag
<1>3. published = {} /\ Overtaken = {} /\ calls = 0 /\ faults = 0
  BY DEF Init, Overtaken
<1>4. \A w \in Workers : worker[w].pc = "poll"
  BY DEF Init
<1>5. \A o \in Operators : operator[o].pc = "idle"
  BY DEF Init
<1>6. Busy = {} /\ Working = {} /\ Fetched = {} /\ Owing = {}
  BY <1>4, <1>5 DEF Busy, Working, Fetched, Owing
<1>7. Waiting = 0
  BY <1>1 DEF Waiting, Queues
<1> QED  BY <1>1, <1>2, <1>3, <1>6, <1>7, FS_EmptySet DEF CountInv, FiniteCounts, MessagesCounted

\* Every step keeps the account.
LEMMA NextCounted == IInv /\ CountInv /\ [Next]_vars => CountInv'
<1> SUFFICES ASSUME IInv, CountInv, [Next]_vars PROVE CountInv'
  OBVIOUS
<1>1. CASE \E e \in Events :
              \/ \E payload \in Payloads : CreateEvent(e, payload)
              \/ EnqueueCreated(e)
              \/ EnqueueFails(e)
  BY <1>1, IntakeCounted
<1>2. CASE \E w \in Workers : run_worker(w) \/ WorkerRestart(w) \/ WorkerConnectionLost(w)
  BY <1>2, WorkerCounted
<1>3. CASE \E p \in QueuePayload : RetryDelayExpires(p)
  <2>1. (\A r \in Queues : IsFiniteSet(Copies(queue'[r]))) /\ Waiting' = Waiting
    BY <1>3, RetryDelayCounts DEF CountInv
  <2>2. UNCHANGED <<rows, intake, worker, operator, orphans, published, succeeded, faults, calls>>
    BY <1>3 DEF RetryDelayExpires
  <2>3. /\ Busy' = Busy /\ Working' = Working /\ Fetched' = Fetched /\ Owing' = Owing
        /\ Overtaken' = Overtaken
    BY <2>2 DEF Busy, Working, Fetched, Owing, Overtaken
  <2> QED  BY <2>1, <2>2, <2>3 DEF CountInv, FiniteCounts, MessagesCounted
<1>4. CASE \E o \in Operators :
              \/ \E e \in Events : RetryEvent(o, e)
              \/ EnqueueRetry(o)
              \/ \E limit \in Limits : RedriveDlq(o, limit)
              \/ RedriveStep(o)
  BY <1>4, OperatorCounted
<1>5. CASE \E o \in Operators : OperatorFails(o)
  BY <1>5, OperatorFailsCounted
<1>6. CASE ApiRestart \/ ApiConnectionLost
  BY <1>6, ChannelCounted
<1>7. CASE UNCHANGED vars
  BY <1>7 DEF vars, CountInv, FiniteCounts, MessagesCounted, Waiting, Busy, Working, Fetched,
              Owing, Overtaken
<1> QED  BY <1>1, <1>2, <1>3, <1>4, <1>5, <1>6, <1>7 DEF Next, AfterHandOver

\* No reachable state has more messages, at hand or still to come, than publishes,
\* operator requests and faults account for.
THEOREM CountInvariant == Spec => []CountInv
BY InitCounted, NextCounted, DeliveryInvariant, PTL DEF Spec

\* What a worker or a redrive holds unacknowledged is at work, or has its
\* successor published.
LEMMA HeldIsCounted ==
    ASSUME IInv, FiniteCounts
    PROVE  /\ Held \in Nat /\ Superseded \in Nat
           /\ Held <= Cardinality(Working) + Cardinality(Fetched) + Superseded
<1> DEFINE AtWork  == {w \in Workers : \E p \in QueuePayload : AtWorker(w, p)}
           Routed  == {w \in Workers : worker[w].pc = "routed" /\ worker[w].owned}
           Acking  == {o \in Operators : operator[o].pc = "ack" /\ operator[o].owned}
<1>1. ASSUME NEW S, NEW T, NEW U, IsFiniteSet(T), IsFiniteSet(U), S \subseteq T \cup U
      PROVE  /\ Cardinality(S) \in Nat /\ Cardinality(T) \in Nat /\ Cardinality(U) \in Nat
             /\ Cardinality(S) <= Cardinality(T) + Cardinality(U)
  <2>1. /\ IsFiniteSet(T \cup U)
        /\ Cardinality(T \cup U) = Cardinality(T) + Cardinality(U) - Cardinality(T \cap U)
    BY <1>1, FS_Union
  <2>2. IsFiniteSet(S) /\ IsFiniteSet(T \cap U) /\ Cardinality(S) <= Cardinality(T \cup U)
    BY <1>1, <2>1, FS_Subset, FS_Intersection
  <2>3. /\ Cardinality(S) \in Nat /\ Cardinality(T) \in Nat /\ Cardinality(U) \in Nat
        /\ Cardinality(T \cap U) \in Nat
    BY <1>1, <2>2, FS_CardinalityType
  <2> QED  BY <2>1, <2>2, <2>3
<1>2. IsFiniteSet(Busy) /\ IsFiniteSet(Operators) /\ IsFiniteSet(Working) /\ IsFiniteSet(Fetched)
  BY CountsAreNat, ConstantsAssumption DEF FiniteCounts
<1>3. \A w \in Workers :
         worker[w].pc \in {"poll", "got", "loaded", "processed", "failed", "routed"}
  <2>1. \A s \in WorkerState : s.pc \in {"poll", "got", "loaded", "processed", "failed", "routed"}
    BY DEF WorkerState
  <2> QED  BY <2>1 DEF IInv, TypeOK
<1>4. AtWork \subseteq Working \cup Routed /\ Routed \subseteq Busy
  BY <1>3 DEF AtWorker, Working, Busy
<1>5. Holding \subseteq Fetched \cup Acking /\ Acking \subseteq Operators
  BY DEF Holding, Holds, Fetched
<1>6. IsFiniteSet(Routed) /\ IsFiniteSet(Acking)
  BY <1>2, <1>4, <1>5, FS_Subset
<1>7. /\ Held = Cardinality(AtWork) + Cardinality(Holding)
      /\ Superseded = Cardinality(Routed) + Cardinality(Acking)
  BY DEF Held, Superseded, Holding
<1> HIDE DEF AtWork, Routed, Acking
<1>8. /\ Cardinality(AtWork) \in Nat /\ Cardinality(Working) \in Nat /\ Cardinality(Routed) \in Nat
      /\ Cardinality(AtWork) <= Cardinality(Working) + Cardinality(Routed)
  BY <1>1, <1>2, <1>4, <1>6
<1>9. /\ Cardinality(Holding) \in Nat /\ Cardinality(Fetched) \in Nat /\ Cardinality(Acking) \in Nat
      /\ Cardinality(Holding) <= Cardinality(Fetched) + Cardinality(Acking)
  BY <1>1, <1>2, <1>5, <1>6
<1> QED  BY <1>7, <1>8, <1>9

\* Redelivery does not multiply messages, for any number of workers, operators,
\* events and faults: whatever interleaving of restarts, lost connections,
\* retries and redrives, each published event, each operator request and each
\* fault accounts for one message.
THEOREM MessagesAreCounted == Spec => []DuplicatesAccounted
<1>1. IInv /\ CountInv => DuplicatesAccounted
  <2> SUFFICES ASSUME IInv, CountInv PROVE DuplicatesAccounted
    OBVIOUS
  <2>1. FiniteCounts /\ MessagesCounted
    BY DEF CountInv
  <2>2. /\ Held \in Nat /\ Superseded \in Nat
        /\ Held <= Cardinality(Working) + Cardinality(Fetched) + Superseded
    BY <2>1, HeldIsCounted
  <2>3. /\ Waiting \in Nat /\ Depth(orphans) \in Nat /\ Cardinality(Working) \in Nat
        /\ Cardinality(Fetched) \in Nat /\ Cardinality(Owing) \in Nat
        /\ Cardinality(Overtaken) \in Nat /\ Cardinality(published) \in Nat
        /\ calls \in Nat /\ faults \in Nat
    BY <2>1, CountsAreNat
  <2>4. Waiting + Depth(orphans) + Held <= Cardinality(published) + calls + faults + Superseded
    BY <2>1, <2>2, <2>3 DEF MessagesCounted
  <2> QED  BY <2>4 DEF DuplicatesAccounted, Waiting
<1> QED  BY <1>1, DeliveryInvariant, CountInvariant, PTL

\* A failed redrive hides at most one message on the API's channel, and nothing
\* else hides any.
THEOREM OrphansAreCounted == Spec => []OrphansAccounted
<1>1. Init => OrphansAccounted
  <2> SUFFICES ASSUME Init PROVE OrphansAccounted
    OBVIOUS
  <2>1. (\A p \in QueuePayload : orphans[p] = 0) /\ faults = 0
    BY DEF Init
  <2>2. Depth(orphans) = 0
    BY <2>1, EmptyBag
  <2> QED  BY <2>1, <2>2 DEF OrphansAccounted
<1>2. IInv /\ CountInv /\ OrphansAccounted /\ [Next]_vars => OrphansAccounted'
  <2> SUFFICES ASSUME IInv, CountInv, OrphansAccounted, [Next]_vars PROVE OrphansAccounted'
    OBVIOUS
  <2>1. IsFiniteSet(Copies(orphans)) /\ faults \in Nat /\ Depth(orphans) \in Nat
    BY CountsAreNat DEF CountInv, FiniteCounts
  <2>2. CASE \E o \in Operators : OperatorFails(o)
    <3>1. faults' = faults + 1
      BY <2>2 DEF OperatorFails, Fault
    <3>2. Depth(orphans') \in Nat /\ Depth(orphans') <= Depth(orphans) + 1
      BY <2>1, <2>2, OrphanCounts
    <3> QED  BY <2>1, <3>1, <3>2 DEF OrphansAccounted
  <2>3. CASE ApiRestart \/ ApiConnectionLost
    <3>1. faults' = faults + 1 /\ CloseApiChannel
      BY <2>3 DEF ApiRestart, ApiConnectionLost, Fault
    <3>2. Depth(orphans') = 0
      BY <3>1, CloseCounts DEF CountInv
    <3> QED  BY <2>1, <3>1, <3>2 DEF OrphansAccounted
  <2>4. CASE ~(\E o \in Operators : OperatorFails(o)) /\ ~(ApiRestart \/ ApiConnectionLost)
    <3>1. orphans' = orphans /\ faults' \in {faults, faults + 1}
      BY <2>4 DEF Next, AfterHandOver, vars, Fault, CreateEvent, EnqueueCreated, EnqueueFails, run_worker,
                  dequeue_event, LoadEvent, CommitAttempt, complete_event, PublishFailed, AckRouted,
                  WorkerRestart, WorkerConnectionLost, RetryDelayExpires, RetryEvent, EnqueueRetry,
                  RedriveDlq, RedriveStep, RedriveGet, RedriveLoopEnds, RedrivePublish, RedriveAck,
                  mark_events_pending
    <3> QED  BY <2>1, <3>1 DEF OrphansAccounted
  <2> QED  BY <2>2, <2>3, <2>4
<1> QED  BY <1>1, <1>2, DeliveryInvariant, CountInvariant, PTL DEF Spec

=============================================================================
