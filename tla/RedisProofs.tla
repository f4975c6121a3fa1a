---------------------------- MODULE RedisProofs -----------------------------
(***************************************************************************)
(* Proofs about RedisDelivery, for any number of events, payloads and      *)
(* workers and any number of faults and retries.                           *)
(***************************************************************************)
EXTENDS RedisDelivery, TLAPS

\* Somebody still has the event to do: a request, the list or a worker.
Alive(e) == requests[e] > 0 \/ InList(e) # {} \/ AtWorkers(e) # {}

\* Ids are published after their row is committed.
RefersToStored == \A e \in Events : Alive(e) => rows[e] # NoRow

\* Before the first operator retry an event has one copy, which is gone once the
\* event is processed; so what a worker has loaded is the row.
OneCopy ==
    calls = 0 => \A e \in Events :
        /\ requests[e] <= 1
        /\ requests[e] > 0 => InList(e) = {} /\ AtWorkers(e) = {}
        /\ InList(e) # {} => AtWorkers(e) = {}
        /\ \A i, j \in InList(e) : i = j
        /\ \A v, w \in AtWorkers(e) : v = w
        /\ Alive(e) => rows[e].status # PROCESSED
        /\ \A w \in AtWorkers(e) : worker[w].pc = "loaded" => worker[w].loaded = rows[e]

IInv == TypeOK /\ RefersToStored /\ LostOnlyByFault /\ OneCopy

-----------------------------------------------------------------------------
(* Rows, the list and the workers *)

\* A stored row is not the absent one.
LEMMA RowIsNoNoRow == \A row \in Event : row # NoRow /\ row.status \in ProcessingStatus /\ row.status # "absent"
BY DEF Event, NoRow, ProcessingStatus, PENDING, PROCESSED, FAILED

\* crud.create_event stores a well-formed row that is not processed.
LEMMA CreatedType ==
    ASSUME NEW payload \in Payload
    PROVE  /\ create_event(payload) \in Event
           /\ create_event(payload).status = PENDING /\ create_event(payload).attempts = 0
BY DEF create_event, Event, ProcessingStatus, ErrorMessage

\* The object process_event commits, the verdict and the count it has.
LEMMA ProcessedType ==
    ASSUME NEW row \in Event
    PROVE  /\ process_event(row, FinalAttempt) \in Event
           /\ process_event(row, FinalAttempt).attempts = row.attempts + 1
           /\ Raises(row) => process_event(row, FinalAttempt).status # PROCESSED
<1>1. row.payload.remaining \in Int /\ row.payload.force \in BOOLEAN /\ row.attempts \in Nat
  BY DEF Event, Payload
<1>2. CASE Raises(row)
  <2>1. [remaining |-> IF row.payload.remaining > 0
                       THEN row.payload.remaining - 1
                       ELSE row.payload.remaining,
         force     |-> row.payload.force] \in Payload
    BY <1>1 DEF Payload
  <2>2. process_event(row, FinalAttempt) \in Event
    BY <1>1, <1>2, <2>1 DEF process_event, Event, ProcessingStatus, ErrorMessage
  <2>3. process_event(row, FinalAttempt).attempts = row.attempts + 1
    BY <1>2 DEF process_event
  <2>4. process_event(row, FinalAttempt).status \in {FAILED, PENDING}
    BY <1>2 DEF process_event
  <2> QED  BY <2>2, <2>3, <2>4 DEF PENDING, PROCESSED, FAILED
<1>3. CASE ~Raises(row)
  <2>1. process_event(row, FinalAttempt) \in Event
    BY <1>1, <1>3 DEF process_event, Event, ProcessingStatus, ErrorMessage
  <2>2. process_event(row, FinalAttempt).attempts = row.attempts + 1
    BY <1>3 DEF process_event
  <2> QED  BY <1>3, <2>1, <2>2
<1> QED  BY <1>2, <1>3

\* The commit keeps a row well-formed, and writes the verdict and the count of the
\* attempt where the row is still the one that was loaded.
LEMMA CommittedType ==
    ASSUME NEW row \in Event, NEW loaded \in Event, NEW obj \in Event
    PROVE  /\ Counted(commit(row, loaded, obj)) \in Event
           /\ loaded = row => Counted(commit(row, loaded, obj)).status = obj.status
           /\ loaded = row /\ CountLimit = NoLimit
                 => Counted(commit(row, loaded, obj)).attempts = obj.attempts
<1> DEFINE new == commit(row, loaded, obj)
<1>1. new \in Event
  BY DEF commit, Column, Event
<1>2. loaded = row => new.status = obj.status /\ new.attempts = obj.attempts
  BY DEF commit, Column
<1> HIDE DEF new
<1>3. /\ Counted(new) \in Event /\ Counted(new).status = new.status
      /\ CountLimit = NoLimit => Counted(new).attempts = new.attempts
  BY <1>1, RedisAssumption DEF Counted, Event, NoLimit
<1> QED  BY <1>2, <1>3 DEF new

\* RPUSH adds one place to the list.
LEMMA Pushed ==
    ASSUME list \in Seq(Events), NEW e \in Events, list' = Append(list, e)
    PROVE  /\ list' \in Seq(Events)
           /\ InList(e)' = InList(e) \cup {Len(list) + 1}
           /\ \A f \in Events \ {e} : InList(f)' = InList(f)
BY DEF InList

\* BLPOP takes the head; the others keep their order.
LEMMA Popped ==
    ASSUME list \in Seq(Events), list # <<>>, list' = Tail(list)
    PROVE  /\ list' \in Seq(Events) /\ Head(list) \in Events /\ 1 \in InList(Head(list))
           /\ \A f \in Events : \A i \in InList(f)' : i \in Nat \ {0} /\ i + 1 \in InList(f)
           /\ \A f \in Events \ {Head(list)} : InList(f) # {} => InList(f)' # {}
<1>1. /\ list' \in Seq(Events) /\ Head(list) \in Events /\ Len(list) \in Nat \ {0}
      /\ Head(list) = list[1] /\ Len(list') = Len(list) - 1
      /\ \A i \in 1..Len(list') : list'[i] = list[i + 1]
  OBVIOUS
<1>2. DOMAIN list = 1..Len(list) /\ DOMAIN list' = 1..Len(list')
  BY <1>1
<1>3. 1 \in InList(Head(list))
  BY <1>1, <1>2 DEF InList
<1>4. ASSUME NEW f \in Events, NEW i \in InList(f)' PROVE i \in Nat \ {0} /\ i + 1 \in InList(f)
  BY <1>1, <1>2, <1>4 DEF InList
<1>5. ASSUME NEW f \in Events \ {Head(list)}, NEW i \in InList(f) PROVE i - 1 \in InList(f)'
  BY <1>1, <1>2, <1>5 DEF InList
<1> QED  BY <1>1, <1>3, <1>4, <1>5

LEMMA WorkerStates ==
    /\ \A s \in WorkerState :
          /\ s.pc \in {"poll", "got", "failed", "loaded"}
          /\ s.pc # "poll" => s.event \in Events
          /\ s.pc = "loaded" => s.loaded \in Event
    /\ Polling \in WorkerState /\ Polling.pc = "poll"
    /\ \A e \in Events : [pc |-> "got", event |-> e] \in WorkerState
    /\ \A e \in Events : [pc |-> "failed", event |-> e] \in WorkerState
    /\ \A e \in Events, row \in Event : [pc |-> "loaded", event |-> e, loaded |-> row] \in WorkerState
BY DEF WorkerState, Polling

\* One worker goes on and takes its event with it.
LEMMA WorkerMoves ==
    ASSUME worker \in [Workers -> WorkerState], NEW w \in Workers, NEW s \in WorkerState, Goto(w, s)
    PROVE  /\ worker' \in [Workers -> WorkerState]
           /\ worker'[w] = s /\ \A v \in Workers \ {w} : worker'[v] = worker[v]
           /\ \A e \in Events :
                 AtWorkers(e)' = (AtWorkers(e) \ {w})
                                 \cup (IF s.pc # "poll" /\ s.event = e THEN {w} ELSE {})
<1>1. /\ worker' \in [Workers -> WorkerState]
      /\ worker'[w] = s /\ \A v \in Workers \ {w} : worker'[v] = worker[v]
  BY DEF Goto
<1>2. ASSUME NEW e \in Events
      PROVE  AtWorkers(e)' = (AtWorkers(e) \ {w})
                             \cup (IF s.pc # "poll" /\ s.event = e THEN {w} ELSE {})
  BY <1>1 DEF AtWorkers
<1> QED  BY <1>1, <1>2

-----------------------------------------------------------------------------
(* Each action keeps the invariant *)

LEMMA InitIInv == Init => IInv
<1> SUFFICES ASSUME Init PROVE IInv
  OBVIOUS
<1>1. Polling \in WorkerState /\ Polling.pc = "poll"
  BY WorkerStates
<1>2. TypeOK
  BY <1>1, RedisAssumption DEF Init, TypeOK
<1>3. \A e \in Events : InList(e) = {} /\ AtWorkers(e) = {} /\ requests[e] = 0
  BY <1>1 DEF Init, InList, AtWorkers
<1>4. RefersToStored /\ OneCopy
  BY <1>3 DEF RefersToStored, OneCopy, Alive
<1>5. LostOnlyByFault
  BY DEF Init, LostOnlyByFault
<1> QED  BY <1>2, <1>4, <1>5 DEF IInv

\* A fault is counted up to the bound.
LEMMA FaultType == ASSUME TypeOK, Fault PROVE faults' \in 0..MaxFaults
BY RedisAssumption DEF TypeOK, Fault

\* The first copy of an event is the request that stored it.
LEMMA CreateStep ==
    ASSUME IInv, NEW e \in Events, NEW payload \in Payloads, CreateEvent(e, payload)
    PROVE  IInv'
<1>1. TypeOK /\ RefersToStored /\ LostOnlyByFault /\ OneCopy
  BY DEF IInv
<1>2. /\ rows[e] = NoRow /\ rows' = [rows EXCEPT ![e] = create_event(payload)]
      /\ requests' = [requests EXCEPT ![e] = @ + 1]
      /\ UNCHANGED <<list, worker, published, dropped, succeeded, faults, calls>>
  BY DEF CreateEvent
<1>3. create_event(payload) \in Event /\ create_event(payload).status = PENDING
  BY CreatedType, RedisAssumption
<1>4. /\ rows'[e] = create_event(payload) /\ \A f \in Events \ {e} : rows'[f] = rows[f]
      /\ requests'[e] = requests[e] + 1 /\ \A f \in Events \ {e} : requests'[f] = requests[f]
  BY <1>1, <1>2 DEF TypeOK
<1>5. TypeOK'
  BY <1>1, <1>2, <1>3 DEF TypeOK
<1>6. \A f \in Events : InList(f)' = InList(f) /\ AtWorkers(f)' = AtWorkers(f)
  BY <1>2 DEF InList, AtWorkers
<1>7. requests[e] = 0 /\ InList(e) = {} /\ AtWorkers(e) = {}
  BY <1>1, <1>2 DEF RefersToStored, Alive, TypeOK
<1>8. rows'[e] # NoRow /\ rows'[e].status # PROCESSED
  BY <1>3, <1>4, RowIsNoNoRow DEF PENDING, PROCESSED
<1>9. RefersToStored'
  BY <1>1, <1>4, <1>6, <1>8 DEF RefersToStored, Alive
<1>10. LostOnlyByFault'
  BY <1>1, <1>2, <1>6 DEF LostOnlyByFault, TypeOK
<1>11. OneCopy'
  BY <1>1, <1>2, <1>4, <1>6, <1>7, <1>8 DEF OneCopy, Alive
<1> QED  BY <1>5, <1>9, <1>10, <1>11 DEF IInv

\* An operator retry adds a copy, and from then on copies may meet.
LEMMA RetryEventStep ==
    ASSUME IInv, NEW e \in Events, RetryEvent(e)
    PROVE  IInv'
<1>1. TypeOK /\ RefersToStored /\ LostOnlyByFault
  BY DEF IInv
<1>2. /\ calls' \in 0..MaxCalls /\ calls' # 0 /\ rows[e] # NoRow
      /\ requests' = [requests EXCEPT ![e] = @ + 1]
      /\ UNCHANGED <<rows, list, worker, published, dropped, succeeded, faults>>
  BY <1>1, RedisAssumption DEF RetryEvent, Stored, TypeOK
<1>3. TypeOK'
  BY <1>1, <1>2 DEF TypeOK
<1>4. \A f \in Events : InList(f)' = InList(f) /\ AtWorkers(f)' = AtWorkers(f)
  BY <1>2 DEF InList, AtWorkers
<1>5. \A f \in Events \ {e} : requests'[f] = requests[f]
  BY <1>1, <1>2 DEF TypeOK
<1>6. RefersToStored'
  BY <1>1, <1>2, <1>4, <1>5 DEF RefersToStored, Alive
<1>7. LostOnlyByFault'
  BY <1>1, <1>2, <1>4 DEF LostOnlyByFault, TypeOK
<1>8. OneCopy'
  BY <1>2 DEF OneCopy
<1> QED  BY <1>3, <1>6, <1>7, <1>8 DEF IInv

\* A request pushes its copy, whether or not it learns that it did.
LEMMA RequestPushes ==
    ASSUME IInv, NEW e \in Events, requests[e] > 0,
           requests' = [requests EXCEPT ![e] = @ - 1], enqueue_event(e),
           faults' \in 0..MaxFaults, UNCHANGED <<rows, worker, dropped, succeeded, calls>>
    PROVE  IInv'
<1>1. TypeOK /\ RefersToStored /\ LostOnlyByFault /\ OneCopy
  BY DEF IInv
<1>2. list' = Append(list, e) /\ published' = published \cup {e}
  BY DEF enqueue_event
<1>3. /\ list' \in Seq(Events)
      /\ InList(e)' = InList(e) \cup {Len(list) + 1}
      /\ \A f \in Events \ {e} : InList(f)' = InList(f)
  BY <1>1, <1>2, Pushed DEF TypeOK
<1>4. \A f \in Events : AtWorkers(f)' = AtWorkers(f)
  BY DEF AtWorkers
<1>5. /\ requests \in [Events -> Nat] /\ requests'[e] = requests[e] - 1
      /\ \A f \in Events \ {e} : requests'[f] = requests[f]
  BY <1>1 DEF TypeOK
<1>6. TypeOK'
  BY <1>1, <1>2, <1>3, <1>5 DEF TypeOK
<1>7. RefersToStored'
  BY <1>1, <1>3, <1>4, <1>5 DEF RefersToStored, Alive
<1>8. LostOnlyByFault'
  BY <1>1, <1>2, <1>3, <1>4 DEF LostOnlyByFault, TypeOK
<1>9. OneCopy'
  BY <1>1, <1>3, <1>4, <1>5 DEF OneCopy, Alive
<1> QED  BY <1>6, <1>7, <1>8, <1>9 DEF IInv

\* Requests that end without a push take their copies with them.
LEMMA RequestsEnd ==
    ASSUME IInv, requests' \in [Events -> Nat], \A e \in Events : requests'[e] <= requests[e],
           faults' \in 0..MaxFaults,
           UNCHANGED <<rows, list, worker, published, dropped, succeeded, calls>>
    PROVE  IInv'
<1>1. TypeOK /\ RefersToStored /\ LostOnlyByFault /\ OneCopy
  BY DEF IInv
<1>2. \A f \in Events : InList(f)' = InList(f) /\ AtWorkers(f)' = AtWorkers(f)
  BY DEF InList, AtWorkers
<1>3. requests \in [Events -> Nat]
  BY <1>1 DEF TypeOK
<1>4. TypeOK'
  BY <1>1 DEF TypeOK
<1>5. RefersToStored'
  BY <1>1, <1>2, <1>3 DEF RefersToStored, Alive
<1>6. LostOnlyByFault'
  BY <1>1, <1>2 DEF LostOnlyByFault, TypeOK
<1>7. OneCopy'
  BY <1>1, <1>2, <1>3 DEF OneCopy, Alive
<1> QED  BY <1>4, <1>5, <1>6, <1>7 DEF IInv

LEMMA EnqueueStep ==
    ASSUME IInv, NEW e \in Events, EnqueueRequested(e) \/ EnqueueFails(e)
    PROVE  IInv'
<1>1. /\ requests[e] > 0 /\ requests' = [requests EXCEPT ![e] = @ - 1]
      /\ UNCHANGED <<rows, worker, dropped, succeeded, calls>>
      /\ enqueue_event(e) \/ UNCHANGED <<list, published>>
  BY DEF EnqueueRequested, EnqueueFails
<1>2. faults' \in 0..MaxFaults
  <2>1. CASE EnqueueRequested(e)
    BY <2>1 DEF EnqueueRequested, IInv, TypeOK
  <2>2. CASE EnqueueFails(e)
    BY <2>2, FaultType DEF EnqueueFails, IInv
  <2> QED  BY <2>1, <2>2
<1>3. CASE enqueue_event(e)
  BY <1>1, <1>2, <1>3, RequestPushes
<1>4. CASE UNCHANGED <<list, published>>
  <2>1. requests' \in [Events -> Nat] /\ \A f \in Events : requests'[f] <= requests[f]
    BY <1>1 DEF IInv, TypeOK
  <2> QED  BY <1>1, <1>2, <1>4, <2>1, RequestsEnd
<1> QED  BY <1>1, <1>3, <1>4

LEMMA ApiRestartStep ==
    ASSUME IInv, ApiRestart
    PROVE  IInv'
<1>1. /\ requests' = [e \in Events |-> 0] /\ faults' \in 0..MaxFaults
      /\ UNCHANGED <<rows, list, worker, published, dropped, succeeded, calls>>
  BY FaultType DEF ApiRestart, IInv
<1>2. requests' \in [Events -> Nat] /\ \A e \in Events : requests'[e] <= requests[e]
  BY <1>1 DEF IInv, TypeOK
<1> QED  BY <1>1, <1>2, RequestsEnd

\* A pop hands the copy at the head to one worker, or to none.
LEMMA PopStep ==
    ASSUME IInv, NEW w \in Workers, dequeue_event(w) \/ PollReplyLost(w)
    PROVE  IInv'
<1>1. TypeOK /\ RefersToStored /\ LostOnlyByFault /\ OneCopy
  BY DEF IInv
<1>2. /\ worker[w].pc = "poll" /\ list # <<>> /\ list' = Tail(list)
      /\ UNCHANGED <<rows, requests, published, succeeded, calls>>
      /\ \/ Goto(w, [pc |-> "got", event |-> Head(list)]) /\ dropped' = dropped
         \/ worker' = worker /\ dropped' = dropped \cup {Head(list)}
  BY DEF dequeue_event, PollReplyLost
<1>3. faults' \in 0..MaxFaults
  <2>1. CASE dequeue_event(w)
    BY <1>1, <2>1 DEF dequeue_event, TypeOK
  <2>2. CASE PollReplyLost(w)
    BY <1>1, <2>2, FaultType DEF PollReplyLost
  <2> QED  BY <2>1, <2>2
<1>0. PICK h \in Events : h = Head(list)
  BY <1>1, <1>2, Popped DEF TypeOK
<1>4. /\ list' \in Seq(Events) /\ h \in Events /\ 1 \in InList(h)
      /\ \A f \in Events : \A i \in InList(f)' : i \in Nat \ {0} /\ i + 1 \in InList(f)
      /\ \A f \in Events \ {h} : InList(f) # {} => InList(f)' # {}
  BY <1>1, <1>2, <1>0, Popped DEF TypeOK
<1>5. \/ /\ \A f \in Events : AtWorkers(f)' = AtWorkers(f)
         /\ worker' = worker /\ dropped' = dropped \cup {h}
      \/ /\ worker'[w].pc = "got" /\ worker' \in [Workers -> WorkerState]
         /\ \A v \in Workers \ {w} : worker'[v] = worker[v]
         /\ dropped' = dropped
         /\ w \in AtWorkers(h)' /\ AtWorkers(h)' \subseteq AtWorkers(h) \cup {w}
         /\ AtWorkers(h) \subseteq AtWorkers(h)'
         /\ \A f \in Events \ {h} : AtWorkers(f)' = AtWorkers(f)
  <2>1. CASE worker' = worker /\ dropped' = dropped \cup {h}
    BY <2>1 DEF AtWorkers
  <2>2. CASE Goto(w, [pc |-> "got", event |-> h]) /\ dropped' = dropped
    <3>1. [pc |-> "got", event |-> h] \in WorkerState
      BY <1>4, WorkerStates
    <3>2. /\ worker' \in [Workers -> WorkerState]
          /\ worker'[w] = [pc |-> "got", event |-> h]
          /\ \A v \in Workers \ {w} : worker'[v] = worker[v]
          /\ \A e \in Events :
                AtWorkers(e)' = (AtWorkers(e) \ {w}) \cup (IF h = e THEN {w} ELSE {})
      BY <1>1, <2>2, <3>1, WorkerMoves DEF TypeOK
    <3>3. \A e \in Events : w \notin AtWorkers(e)
      BY <1>2 DEF AtWorkers
    <3>4. /\ w \in AtWorkers(h)' /\ AtWorkers(h)' \subseteq AtWorkers(h) \cup {w}
          /\ AtWorkers(h) \subseteq AtWorkers(h)'
      BY <3>2, <3>3
    <3>5. \A f \in Events \ {h} : AtWorkers(f)' = AtWorkers(f)
      BY <3>2, <3>3
    <3>6. worker'[w].pc = "got"
      BY <3>2
    <3> QED  BY <2>2, <3>2, <3>4, <3>5, <3>6
  <2> QED  BY <1>2, <1>0, <2>1, <2>2
<1>6. TypeOK'
  BY <1>1, <1>2, <1>3, <1>4, <1>5 DEF TypeOK
<1>7. RefersToStored'
  BY <1>1, <1>2, <1>4, <1>5 DEF RefersToStored, Alive
<1>8. LostOnlyByFault'
  BY <1>1, <1>2, <1>4, <1>5 DEF LostOnlyByFault, TypeOK
<1>9. OneCopy'
  <2> SUFFICES ASSUME calls = 0 PROVE OneCopy'
    BY <1>2 DEF OneCopy
  <2>1. InList(h)' = {} /\ AtWorkers(h) = {} /\ requests[h] = 0
    BY <1>1, <1>4 DEF OneCopy, TypeOK
  <2>2. \A f \in Events : \A i, j \in InList(f)' : i = j
    BY <1>1, <1>4 DEF OneCopy
  <2>3. \A f \in Events : InList(f)' # {} => InList(f) # {}
    BY <1>4
  <2>4. \A v \in Workers : worker'[v].pc = "loaded" => worker'[v] = worker[v]
    BY <1>5
  <2>5. \A f \in Events : \A v \in AtWorkers(f)' : v \in Workers
    BY DEF AtWorkers
  <2>6. \A f \in Events : \A v \in AtWorkers(f)' : worker'[v].pc = "loaded" => v \in AtWorkers(f)
    BY <2>4, <2>5 DEF AtWorkers
  <2>7. ASSUME NEW f \in Events
        PROVE  /\ requests'[f] > 0 => InList(f)' = {} /\ AtWorkers(f)' = {}
               /\ InList(f)' # {} => AtWorkers(f)' = {}
               /\ \A v, x \in AtWorkers(f)' : v = x
    BY <1>1, <1>2, <1>4, <1>5, <2>1, <2>3 DEF OneCopy
  <2>8. ASSUME NEW f \in Events
        PROVE  /\ requests'[f] <= 1
               /\ Alive(f)' => rows'[f].status # PROCESSED
    BY <1>1, <1>2, <1>4, <1>5, <2>3 DEF OneCopy, Alive
  <2>9. ASSUME NEW f \in Events
        PROVE  \A v \in AtWorkers(f)' : worker'[v].pc = "loaded" => worker'[v].loaded = rows'[f]
    BY <1>1, <1>2, <2>4, <2>5, <2>6 DEF OneCopy
  <2> QED  BY <2>2, <2>7, <2>8, <2>9 DEF OneCopy
<1> QED  BY <1>6, <1>7, <1>8, <1>9 DEF IInv

LEMMA LoadStep ==
    ASSUME IInv, NEW w \in Workers, LoadEvent(w)
    PROVE  IInv'
<1> DEFINE e == worker[w].event
           s == [pc |-> "loaded", event |-> e, loaded |-> rows[e]]
<1>1. TypeOK /\ RefersToStored /\ LostOnlyByFault /\ OneCopy
  BY DEF IInv
<1>2. /\ worker[w].pc = "got" /\ Goto(w, s)
      /\ UNCHANGED <<rows, requests, list, published, dropped, succeeded, faults, calls>>
  BY DEF LoadEvent
<1>3. e \in Events /\ w \in AtWorkers(e)
  BY <1>1, <1>2, WorkerStates DEF TypeOK, AtWorkers
<1>4. rows[e] \in Event
  BY <1>1, <1>3 DEF RefersToStored, Alive, TypeOK
<1>5. s \in WorkerState
  BY <1>3, <1>4, WorkerStates
<1>6. /\ worker' \in [Workers -> WorkerState]
      /\ worker'[w] = s /\ \A v \in Workers \ {w} : worker'[v] = worker[v]
  BY <1>1, <1>2, <1>5, WorkerMoves DEF TypeOK
<1>7. \A f \in Events : AtWorkers(f)' = AtWorkers(f)
  BY <1>2, <1>6 DEF AtWorkers
<1>8. \A f \in Events : InList(f)' = InList(f)
  BY <1>2 DEF InList
<1>9. TypeOK'
  BY <1>1, <1>2, <1>6 DEF TypeOK
<1>10. RefersToStored'
  BY <1>1, <1>2, <1>7, <1>8 DEF RefersToStored, Alive
<1>11. LostOnlyByFault'
  BY <1>1, <1>2, <1>7, <1>8 DEF LostOnlyByFault, TypeOK
<1>12. OneCopy'
  <2>1. \A f \in Events : \A v \in AtWorkers(f) : v \in Workers /\ worker[v].event = f
    BY DEF AtWorkers
  <2>2. worker'[w].loaded = rows[e]
    BY <1>6
  <2> HIDE DEF s
  <2>3. \A f \in Events : Alive(f)' <=> Alive(f)
    BY <1>2, <1>7, <1>8 DEF Alive
  <2> QED  BY <1>1, <1>2, <1>6, <1>7, <1>8, <2>1, <2>2, <2>3 DEF OneCopy
<1> QED  BY <1>9, <1>10, <1>11, <1>12 DEF IInv

\* The commit of the event's only copy: a success ends it, a failure leaves it with
\* the worker, on a row that is not processed.
LEMMA CommitOnRow ==
    ASSUME IInv, NEW w \in Workers, CommitAttempt(w)
    PROVE  LET e == worker[w].event IN
           /\ e \in Events /\ w \in AtWorkers(e) /\ worker[w].loaded \in Event
           /\ rows[e] \in Event /\ rows'[e] \in Event
           /\ \A f \in Events \ {e} : rows'[f] = rows[f]
           /\ rows' \in [Events -> Event \cup {NoRow}]
           /\ calls = 0 =>
                 /\ rows[e].status # PROCESSED
                 /\ Raises(worker[w].loaded) => rows'[e].status # PROCESSED
                 /\ CountLimit = NoLimit => rows'[e].attempts = rows[e].attempts + 1
<1> DEFINE e == worker[w].event
           loaded == worker[w].loaded
           obj == process_event(loaded, FinalAttempt)
           new == Counted(commit(rows[e], loaded, obj))
<1>1. TypeOK /\ RefersToStored /\ OneCopy
  BY DEF IInv
<1>2. worker[w].pc = "loaded" /\ rows' = [rows EXCEPT ![e] = new]
  BY DEF CommitAttempt
<1>3. e \in Events /\ w \in AtWorkers(e) /\ loaded \in Event
  BY <1>1, <1>2, WorkerStates DEF TypeOK, AtWorkers
<1>4. rows[e] \in Event
  BY <1>1, <1>3 DEF RefersToStored, Alive, TypeOK
<1>5. /\ obj \in Event /\ obj.attempts = loaded.attempts + 1
      /\ Raises(loaded) => obj.status # PROCESSED
  BY <1>3, ProcessedType
<1> HIDE DEF obj
<1>6. /\ new \in Event
      /\ loaded = rows[e] => new.status = obj.status
      /\ loaded = rows[e] /\ CountLimit = NoLimit => new.attempts = obj.attempts
  BY <1>3, <1>4, <1>5, CommittedType
<1> HIDE DEF new
<1>7. calls = 0 => loaded = rows[e] /\ rows[e].status # PROCESSED
  BY <1>1, <1>2, <1>3 DEF OneCopy, Alive
<1>8. /\ rows'[e] = new /\ \A f \in Events \ {e} : rows'[f] = rows[f]
      /\ rows' \in [Events -> Event \cup {NoRow}]
  BY <1>1, <1>2, <1>3, <1>6 DEF TypeOK
<1> QED  BY <1>3, <1>4, <1>5, <1>6, <1>7, <1>8

LEMMA CommitStep ==
    ASSUME IInv, NEW w \in Workers, CommitAttempt(w)
    PROVE  IInv'
<1>1. TypeOK /\ RefersToStored /\ LostOnlyByFault /\ OneCopy
  BY DEF IInv
<1>e. PICK e \in Events : e = worker[w].event
  BY CommitOnRow
<1>r. PICK raises \in BOOLEAN : raises = Raises(worker[w].loaded)
  BY DEF Raises
<1> DEFINE s == IF raises THEN [pc |-> "failed", event |-> e] ELSE Polling
<1>2. /\ Goto(w, s)
      /\ succeeded' = IF raises THEN succeeded ELSE succeeded \cup {e}
      /\ UNCHANGED <<requests, list, published, dropped, faults, calls>>
  BY <1>e, <1>r DEF CommitAttempt
<1>3. /\ e \in Events /\ w \in AtWorkers(e) /\ rows'[e] \in Event
      /\ \A f \in Events \ {e} : rows'[f] = rows[f]
      /\ rows' \in [Events -> Event \cup {NoRow}]
      /\ calls = 0 /\ raises => rows'[e].status # PROCESSED
  BY <1>e, <1>r, CommitOnRow
<1>4. s \in WorkerState /\ s.pc \in {"failed", "poll"} /\ (raises <=> s.pc # "poll") /\ (raises => s.event = e)
  BY <1>3, WorkerStates
<1> HIDE DEF s
<1>5. /\ worker' \in [Workers -> WorkerState]
      /\ worker'[w] = s /\ \A v \in Workers \ {w} : worker'[v] = worker[v]
      /\ \A f \in Events :
            AtWorkers(f)' = (AtWorkers(f) \ {w}) \cup (IF s.pc # "poll" /\ s.event = f THEN {w} ELSE {})
  BY <1>1, <1>2, <1>4, WorkerMoves DEF TypeOK
<1>6. \A f \in Events \ {e} : w \notin AtWorkers(f)
  BY <1>e, <1>3 DEF AtWorkers
<1>7. /\ \A f \in Events \ {e} : AtWorkers(f)' = AtWorkers(f)
      /\ AtWorkers(e)' \subseteq AtWorkers(e)
      /\ raises => w \in AtWorkers(e)'
      /\ ~raises => AtWorkers(e)' = AtWorkers(e) \ {w}
  BY <1>3, <1>4, <1>5, <1>6
<1>8. \A f \in Events : InList(f)' = InList(f)
  BY <1>2 DEF InList
<1>9. TypeOK'
  BY <1>1, <1>2, <1>3, <1>5 DEF TypeOK
<1>10. RefersToStored'
  BY <1>1, <1>2, <1>3, <1>7, <1>8, RowIsNoNoRow DEF RefersToStored, Alive
<1>11. LostOnlyByFault'
  BY <1>1, <1>2, <1>3, <1>7, <1>8 DEF LostOnlyByFault, TypeOK
<1>12. OneCopy'
  <2> SUFFICES ASSUME calls = 0 PROVE OneCopy'
    BY <1>2 DEF OneCopy
  <2>1. \A f \in Events : \A v \in AtWorkers(f) : v \in Workers
    BY DEF AtWorkers
  <2>2. \A f \in Events \ {e} : \A v \in AtWorkers(f) : worker'[v] = worker[v]
    BY <1>5, <1>6, <2>1
  <2>3. requests[e] = 0 /\ InList(e) = {} /\ AtWorkers(e) = {w}
    BY <1>1, <1>3 DEF OneCopy, TypeOK
  <2>4. Alive(e)' => raises
    BY <1>2, <1>7, <1>8, <2>3 DEF Alive
  <2>5. ASSUME NEW f \in Events \ {e}
        PROVE  /\ requests'[f] <= 1
               /\ requests'[f] > 0 => InList(f)' = {} /\ AtWorkers(f)' = {}
               /\ InList(f)' # {} => AtWorkers(f)' = {}
               /\ \A i, j \in InList(f)' : i = j
               /\ \A v, x \in AtWorkers(f)' : v = x
               /\ Alive(f)' => rows'[f].status # PROCESSED
               /\ \A v \in AtWorkers(f)' : worker'[v].pc = "loaded" => worker'[v].loaded = rows'[f]
    BY <1>1, <1>2, <1>3, <1>7, <1>8, <2>2 DEF OneCopy, Alive
  <2>6. /\ requests'[e] = 0 /\ InList(e)' = {} /\ AtWorkers(e)' \subseteq {w}
        /\ Alive(e)' => rows'[e].status # PROCESSED
        /\ worker'[w].pc # "loaded"
    BY <1>2, <1>3, <1>4, <1>5, <1>7, <1>8, <2>3, <2>4
  <2> QED  BY <1>3, <2>5, <2>6 DEF OneCopy
<1> QED  BY <1>9, <1>10, <1>11, <1>12 DEF IInv

\* A worker that is done with a copy: pushed back, or lost with the process.
LEMMA RetryStep ==
    ASSUME IInv, NEW w \in Workers, retry_or_dead_letter(w)
    PROVE  IInv'
<1>1. TypeOK /\ RefersToStored /\ LostOnlyByFault /\ OneCopy
  BY DEF IInv
<1>2. PICK e \in Events : e = worker[w].event
  BY <1>1, WorkerStates DEF retry_or_dead_letter, TypeOK
<1>3. /\ worker[w].pc = "failed" /\ list' = Append(list, e) /\ published' = published \cup {e}
      /\ Goto(w, Polling) /\ UNCHANGED <<rows, requests, dropped, succeeded, faults, calls>>
  BY <1>2 DEF retry_or_dead_letter, enqueue_event
<1>4. w \in AtWorkers(e) /\ \A f \in Events \ {e} : w \notin AtWorkers(f)
  BY <1>2, <1>3 DEF AtWorkers
<1>5. /\ list' \in Seq(Events)
      /\ InList(e)' = InList(e) \cup {Len(list) + 1}
      /\ \A f \in Events \ {e} : InList(f)' = InList(f)
  BY <1>1, <1>3, Pushed DEF TypeOK
<1>6. Polling \in WorkerState /\ Polling.pc = "poll"
  BY WorkerStates
<1>7. /\ worker' \in [Workers -> WorkerState]
      /\ worker'[w] = Polling /\ \A v \in Workers \ {w} : worker'[v] = worker[v]
      /\ \A f \in Events : AtWorkers(f)' = AtWorkers(f) \ {w}
  BY <1>1, <1>3, <1>6, WorkerMoves DEF TypeOK
<1>8. TypeOK'
  BY <1>1, <1>3, <1>5, <1>7 DEF TypeOK
<1>9. RefersToStored'
  BY <1>1, <1>3, <1>4, <1>5, <1>7 DEF RefersToStored, Alive
<1>10. LostOnlyByFault'
  <2>0. Len(list) + 1 \in InList(e)'
    BY <1>5
  <2>1. InList(e)' # {} /\ \A f \in Events \ {e} : AtWorkers(f)' = AtWorkers(f)
    BY <1>4, <1>7, <2>0
  <2>2. published' \subseteq Events
    BY <1>8 DEF TypeOK
  <2>3. ASSUME NEW f \in published' \ succeeded'
        PROVE  InList(f)' # {} \/ AtWorkers(f)' # {} \/ f \in dropped'
    <3>1. CASE f = e
      BY <2>1, <3>1
    <3>2. CASE f # e
      BY <1>1, <1>3, <1>5, <2>1, <2>2, <2>3, <3>2 DEF LostOnlyByFault
    <3> QED  BY <3>1, <3>2
  <2> QED  BY <2>3 DEF LostOnlyByFault
<1>11. OneCopy'
  <2>1. \A f \in Events : \A v \in AtWorkers(f)' : v \in Workers /\ worker'[v] = worker[v]
    BY <1>7 DEF AtWorkers
  <2> QED  BY <1>1, <1>3, <1>4, <1>5, <1>7, <2>1 DEF OneCopy, Alive
<1> QED  BY <1>8, <1>9, <1>10, <1>11 DEF IInv

LEMMA WorkerRestartStep ==
    ASSUME IInv, NEW w \in Workers, WorkerRestart(w)
    PROVE  IInv'
<1>1. TypeOK /\ RefersToStored /\ LostOnlyByFault /\ OneCopy
  BY DEF IInv
<1>2. PICK e \in Events : e = worker[w].event
  BY <1>1, WorkerStates DEF WorkerRestart, TypeOK
<1>3. /\ dropped' = dropped \cup {e} /\ Goto(w, Polling) /\ faults' \in 0..MaxFaults
      /\ UNCHANGED <<rows, requests, list, published, succeeded, calls>>
  BY <1>1, <1>2, FaultType DEF WorkerRestart
<1>4. \A f \in Events \ {e} : w \notin AtWorkers(f)
  BY <1>2 DEF AtWorkers
<1>5. Polling \in WorkerState /\ Polling.pc = "poll"
  BY WorkerStates
<1>6. /\ worker' \in [Workers -> WorkerState]
      /\ worker'[w] = Polling /\ \A v \in Workers \ {w} : worker'[v] = worker[v]
      /\ \A f \in Events : AtWorkers(f)' = AtWorkers(f) \ {w}
  BY <1>1, <1>3, <1>5, WorkerMoves DEF TypeOK
<1>7. \A f \in Events : InList(f)' = InList(f)
  BY <1>3 DEF InList
<1>8. TypeOK'
  BY <1>1, <1>3, <1>6 DEF TypeOK
<1>9. RefersToStored'
  BY <1>1, <1>3, <1>6, <1>7 DEF RefersToStored, Alive
<1>10. LostOnlyByFault'
  BY <1>1, <1>3, <1>4, <1>6, <1>7 DEF LostOnlyByFault, TypeOK
<1>11. OneCopy'
  <2>1. \A f \in Events : \A v \in AtWorkers(f)' : v \in Workers /\ worker'[v] = worker[v]
    BY <1>5, <1>6 DEF AtWorkers
  <2> QED  BY <1>1, <1>3, <1>6, <1>7, <2>1 DEF OneCopy, Alive
<1> QED  BY <1>8, <1>9, <1>10, <1>11 DEF IInv

LEMMA RedisRestartStep ==
    ASSUME IInv, RedisRestart
    PROVE  IInv'
<1>1. TypeOK /\ RefersToStored /\ LostOnlyByFault /\ OneCopy
  BY DEF IInv
<1>2. /\ list' = <<>> /\ faults' \in 0..MaxFaults
      /\ dropped' = dropped \cup {list[i] : i \in DOMAIN list}
      /\ UNCHANGED <<rows, requests, worker, published, succeeded, calls>>
  BY <1>1, FaultType DEF RedisRestart
<1>3. \A f \in Events : InList(f)' = {} /\ AtWorkers(f)' = AtWorkers(f)
  BY <1>2 DEF InList, AtWorkers
<1>4. \A f \in Events : InList(f) # {} => f \in dropped'
  BY <1>2 DEF InList
<1>5. TypeOK'
  <2>1. {list[i] : i \in DOMAIN list} \subseteq Events
    BY <1>1 DEF TypeOK
  <2> QED  BY <1>1, <1>2, <2>1 DEF TypeOK
<1>6. RefersToStored'
  BY <1>1, <1>2, <1>3 DEF RefersToStored, Alive
<1>7. LostOnlyByFault'
  BY <1>1, <1>2, <1>3, <1>4 DEF LostOnlyByFault, TypeOK
<1>8. OneCopy'
  BY <1>1, <1>2, <1>3 DEF OneCopy, Alive
<1> QED  BY <1>5, <1>6, <1>7, <1>8 DEF IInv

LEMMA NextIInv == IInv /\ [Next]_vars => IInv'
<1> SUFFICES ASSUME IInv, [Next]_vars PROVE IInv'
  OBVIOUS
<1>1. ASSUME NEW e \in Events, NEW payload \in Payloads, CreateEvent(e, payload) PROVE IInv'
  BY <1>1, CreateStep
<1>2. ASSUME NEW e \in Events, RetryEvent(e) \/ EnqueueRequested(e) \/ EnqueueFails(e) PROVE IInv'
  BY <1>2, RetryEventStep, EnqueueStep
<1>3. ASSUME NEW w \in Workers, run_worker(w) \/ PollReplyLost(w) \/ WorkerRestart(w) PROVE IInv'
  BY <1>3, PopStep, LoadStep, CommitStep, RetryStep, WorkerRestartStep DEF run_worker
<1>4. CASE ApiRestart \/ RedisRestart
  BY <1>4, ApiRestartStep, RedisRestartStep
<1>5. CASE UNCHANGED vars
  <2>1. UNCHANGED <<rows, requests, list, worker, published, dropped, succeeded, faults, calls>>
    BY <1>5 DEF vars
  <2>2. faults' \in 0..MaxFaults /\ requests' \in [Events -> Nat] /\ \A e \in Events : requests'[e] <= requests[e]
    BY <2>1 DEF IInv, TypeOK
  <2> QED  BY <2>1, <2>2, RequestsEnd
<1> QED  BY <1>1, <1>2, <1>3, <1>4, <1>5 DEF Next

THEOREM RedisInvariant == Spec => []IInv
BY InitIInv, NextIInv, PTL DEF Spec

\* Every variable of the Redis backend keeps its type: in particular a worker never
\* loads a row that does not exist.
THEOREM RedisTypeCorrect == Spec => []TypeOK
<1>1. IInv => TypeOK
  BY DEF IInv
<1> QED  BY <1>1, RedisInvariant, PTL

\* Without acknowledgements an event is lost only by a fault: no failed attempt and
\* no other event takes it out of the list and the workers before it has succeeded.
THEOREM RedisLosesOnlyByFault == Spec => []LostOnlyByFault
<1>1. IInv => LostOnlyByFault
  BY DEF IInv
<1> QED  BY <1>1, RedisInvariant, PTL

-----------------------------------------------------------------------------
(* The table keeps the promises of EventLifecycle until an operator retries *)

LEMMA NextFollows ==
    ASSUME CountLimit = NoLimit, IInv, [Next]_vars, calls' = 0
    PROVE  Lifecycle!Next \/ UNCHANGED Lifecycle!lifecycle
<1> DEFINE Count(row) == IF row = NoRow THEN 0 ELSE row.attempts
           st == [f \in Events |-> rows[f].status]
           at == [f \in Events |-> Count(rows[f])]
<1>1. ASSUME NEW e \in Events, NEW payload \in Payloads, CreateEvent(e, payload)
      PROVE  Lifecycle!Next
  <2>1. rows[e] = NoRow /\ \A f \in Events : rows'[f] = IF f = e THEN create_event(payload) ELSE rows[f]
    BY <1>1 DEF CreateEvent, IInv, TypeOK
  <2>2. /\ create_event(payload) # NoRow
        /\ create_event(payload).status = PENDING /\ create_event(payload).attempts = 0
    BY CreatedType, RowIsNoNoRow, RedisAssumption
  <2>3. st[e] = "absent"
    BY <2>1 DEF NoRow
  <2>4. st' = [st EXCEPT ![e] = PENDING]
    BY <2>1, <2>2
  <2>5. at' = at
    BY <2>1, <2>2
  <2>6. Lifecycle!Arrive(e)
    BY <2>3, <2>4, <2>5 DEF Lifecycle!Arrive, Lifecycle!Absent, Lifecycle!PENDING, PENDING
  <2> QED  BY <2>6 DEF Lifecycle!Next
<1>2. ASSUME NEW w \in Workers, CommitAttempt(w)
      PROVE  Lifecycle!Next
  <2>1. PICK e \in Events : e = worker[w].event
    BY <1>2, CommitOnRow
  <2>2. calls = 0
    BY <1>2 DEF CommitAttempt
  <2>3. /\ rows[e] \in Event /\ rows'[e] \in Event
        /\ \A f \in Events \ {e} : rows'[f] = rows[f]
        /\ rows[e].status # PROCESSED
        /\ rows'[e].attempts = rows[e].attempts + 1
    BY <1>2, <2>1, <2>2, CommitOnRow
  <2>4. PICK verdict \in ProcessingStatus : verdict = rows'[e].status
    BY <2>3, RowIsNoNoRow
  <2>5. st[e] # "absent" /\ st[e] # PROCESSED
    BY <2>3, RowIsNoNoRow
  <2>6. st' = [st EXCEPT ![e] = verdict]
    BY <2>3, <2>4
  <2>7. at' = [at EXCEPT ![e] = at[e] + 1]
    BY <2>3, RowIsNoNoRow
  <2>8. Lifecycle!Attempt(e, verdict)
    BY <2>5, <2>6, <2>7 DEF Lifecycle!Attempt, Lifecycle!Absent, Lifecycle!PROCESSED, PROCESSED
  <2> QED  BY <2>8 DEF Lifecycle!Next, Lifecycle!ProcessingStatus, ProcessingStatus,
                       Lifecycle!PENDING, Lifecycle!PROCESSED, Lifecycle!FAILED, PENDING, PROCESSED, FAILED
<1>3. CASE rows' = rows
  BY <1>3 DEF Lifecycle!lifecycle
<1>4. \/ rows' = rows
      \/ \E e \in Events, payload \in Payloads : CreateEvent(e, payload)
      \/ \E w \in Workers : CommitAttempt(w)
  BY DEF Next, vars, RetryEvent, EnqueueRequested, EnqueueFails, run_worker, dequeue_event, LoadEvent,
         retry_or_dead_letter, PollReplyLost, WorkerRestart, ApiRestart, RedisRestart
<1> QED  BY <1>1, <1>2, <1>3, <1>4

\* With the counter of the code, which has no limit, and any number of workers the
\* table follows the event lifecycle until the first operator retry: an event
\* arrives once, each commit counts one attempt, and processed is final.
THEOREM RedisFollowsLifecycle ==
    ASSUME CountLimit = NoLimit
    PROVE  Spec => FollowsLifecycle
<1>1. IInv /\ [Next]_vars
         => [calls' = 0 => Lifecycle!Next \/ UNCHANGED Lifecycle!lifecycle]_vars
  BY NextFollows
<1> QED  BY <1>1, RedisInvariant, PTL DEF Spec, FollowsLifecycle

=============================================================================
