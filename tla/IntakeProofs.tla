---------------------------- MODULE IntakeProofs ----------------------------
(***************************************************************************)
(* Proofs about Intake, for any number of concurrent requests and delivery *)
(* ids and any settings, and about its composition with Delivery.          *)
(***************************************************************************)
EXTENDS Service, TLAPS

\* A request stores its event in the step that takes it from the insert to the
\* publish, and publishes it afterwards.
StoredByInsert ==
    /\ published \subseteq events
    /\ \A r \in Requests :
          /\ pc[r] \in {"new", "lookup", "create"} => r \notin events /\ answer[r] = NoAnswer
          /\ pc[r] = "enqueue" => r \in events \ published /\ answer[r] = NoAnswer

IInv == TypeOK /\ StoredByInsert /\ OneEventPerDelivery /\ AnswerIsTrue /\ StrandedIsReported

\* The three promises, the type and the control facts depend on one another.
LEMMA InitIInv == Init => IInv
BY IntakeAssumption
DEF Init, IInv, TypeOK, StoredByInsert, OneEventPerDelivery, AnswerIsTrue, StrandedIsReported,
    NoAnswer, Codes

\* A request that stores nothing is rejected, or passes the checks.
LEMMA ArriveStep ==
    ASSUME IInv, NEW r \in Requests, NEW h \in Headers, Reject(r, h) \/ Arrive(r, h)
    PROVE  IInv'
<1>1. /\ pc[r] = "new" /\ header' \in {header, [header EXCEPT ![r] = h]}
      /\ UNCHANGED <<events, published, faults>>
  BY DEF Reject, Arrive
<1>2. /\ r \notin events /\ r \notin published /\ answer[r] = NoAnswer
      /\ \A u \in Requests \ {r} : header'[u] = header[u]
      /\ \A u \in Requests : answer[u].event # r
  BY <1>1, IntakeAssumption DEF IInv, StoredByInsert, TypeOK, OneEventPerDelivery, NoAnswer
<1>3. \/ pc' = [pc EXCEPT ![r] = "done"] /\ \E code \in {"401", "422"} :
                  answer' = [answer EXCEPT ![r] = [code |-> code, event |-> Nobody]]
      \/ (\E label \in {"lookup", "create"} : pc' = [pc EXCEPT ![r] = label]) /\ answer' = answer
  BY DEF Reject, Arrive, Respond, Goto
<1>4. /\ \A u \in Requests \ {r} : pc'[u] = pc[u] /\ answer'[u] = answer[u]
      /\ pc'[r] \in {"done", "lookup", "create"}
      /\ pc'[r] # "done" => answer'[r] = NoAnswer
      /\ answer'[r].event = Nobody /\ answer'[r].code \in {"401", "422", "none"}
  BY <1>2, <1>3 DEF IInv, TypeOK, NoAnswer
<1>5. TypeOK'
  BY <1>1, <1>3 DEF IInv, TypeOK, Codes
<1>6. StoredByInsert'
  BY <1>1, <1>2, <1>4 DEF IInv, StoredByInsert, TypeOK
<1>7. OneEventPerDelivery'
  BY <1>1, <1>2, <1>4 DEF IInv, OneEventPerDelivery, StoredByInsert, TypeOK
<1>8. AnswerIsTrue' /\ StrandedIsReported'
  BY <1>1, <1>2, <1>4 DEF IInv, AnswerIsTrue, StrandedIsReported, TypeOK
<1> QED  BY <1>5, <1>6, <1>7, <1>8 DEF IInv

\* The lookup changes the request alone: it finds an event that another request
\* has stored under the same delivery id, finds none, or fails.
LEMMA LookupStep ==
    ASSUME IInv, NEW r \in Requests, get_event_by_delivery_id(r) \/ LookupFails(r)
    PROVE  IInv'
<1>1. /\ pc[r] = "lookup" /\ UNCHANGED <<header, events, published>>
      /\ faults' \in 0..MaxFaults
  BY IntakeAssumption DEF get_event_by_delivery_id, LookupFails, Fault, IInv, TypeOK
<1>2. r \notin events
  BY <1>1 DEF IInv, StoredByInsert
<1>3. \/ pc' = [pc EXCEPT ![r] = "create"] /\ answer' = answer
      \/ /\ pc' = [pc EXCEPT ![r] = "done"]
         /\ \/ \E existing \in Rows(header[r].delivery) :
                  answer' = [answer EXCEPT ![r] = [code |-> "duplicate", event |-> existing]]
            \/ answer' = [answer EXCEPT ![r] = [code |-> "500", event |-> Nobody]]
  BY DEF get_event_by_delivery_id, LookupFails, Respond, Goto
<1>4. /\ \A u \in Requests \ {r} : pc'[u] = pc[u] /\ answer'[u] = answer[u]
      /\ \/ pc'[r] = "create" /\ answer'[r] = answer[r]
         \/ /\ pc'[r] = "done"
            /\ \/ /\ answer'[r].code = "duplicate"
                  /\ answer'[r].event \in Rows(header[r].delivery)
               \/ answer'[r].code = "500" /\ answer'[r].event = Nobody
  BY <1>3 DEF IInv, TypeOK
<1>5. TypeOK'
  BY <1>1, <1>3 DEF IInv, TypeOK, Codes, Rows
<1>6. StoredByInsert'
  BY <1>1, <1>2, <1>4 DEF IInv, StoredByInsert, TypeOK
<1>7. OneEventPerDelivery'
  BY <1>1, <1>4 DEF IInv, OneEventPerDelivery, Rows, TypeOK
<1>8. AnswerIsTrue' /\ StrandedIsReported'
  BY <1>1, <1>2, <1>4 DEF IInv, AnswerIsTrue, StrandedIsReported, Rows, TypeOK
<1> QED  BY <1>5, <1>6, <1>7, <1>8 DEF IInv

\* The insert stores an event under a delivery id no stored event has, whatever
\* was looked up before.
LEMMA CreateStep ==
    ASSUME IInv, NEW r \in Requests, create_event(r) \/ CreateFails(r)
    PROVE  IInv'
<1>1. /\ pc[r] = "create" /\ UNCHANGED <<header, published>>
      /\ faults' \in 0..MaxFaults
  BY IntakeAssumption DEF create_event, CreateFails, Fault, IInv, TypeOK
<1>2. /\ r \notin events /\ r \notin published /\ answer[r] = NoAnswer
      /\ \A u \in Requests : answer[u].event # r
  BY <1>1, IntakeAssumption DEF IInv, StoredByInsert, OneEventPerDelivery, NoAnswer
<1>3. events' = events \/ (~UniqueViolation(r) /\ events' = events \cup {r})
  BY DEF create_event, CreateFails
<1>4. \/ /\ pc' = [pc EXCEPT ![r] = "done"]
         /\ answer' = [answer EXCEPT ![r] = [code |-> "500", event |-> Nobody]]
      \/ pc' = [pc EXCEPT ![r] = "enqueue"] /\ answer' = answer /\ r \in events'
  BY DEF create_event, CreateFails, Respond, Goto
<1>5. /\ \A u \in Requests \ {r} : pc'[u] = pc[u] /\ answer'[u] = answer[u]
      /\ \/ pc'[r] = "done" /\ answer'[r].code = "500" /\ answer'[r].event = Nobody
         \/ pc'[r] = "enqueue" /\ answer'[r] = NoAnswer /\ r \in events'
  BY <1>2, <1>4 DEF IInv, TypeOK
<1>6. TypeOK'
  BY <1>1, <1>3, <1>4 DEF IInv, TypeOK, Codes
<1>7. StoredByInsert'
  BY <1>1, <1>2, <1>3, <1>5 DEF IInv, StoredByInsert
<1>8. OneEventPerDelivery'
  <2>1. \A e, f \in events' \cup published' :
           header'[e].delivery = header'[f].delivery /\ header'[e].delivery # NoId => e = f
    BY <1>1, <1>3 DEF IInv, OneEventPerDelivery, StoredByInsert, UniqueViolation, Rows
  <2>2. \A u \in Requests :
           answer'[u].event # Nobody =>
              /\ answer'[u].event \in events'
              /\ header'[answer'[u].event].delivery = header'[u].delivery
    BY <1>1, <1>3, <1>5 DEF IInv, OneEventPerDelivery, NoAnswer
  <2> QED  BY <2>1, <2>2 DEF OneEventPerDelivery
<1>9. AnswerIsTrue'
  BY <1>1, <1>2, <1>3, <1>5 DEF IInv, AnswerIsTrue, NoAnswer
<1>10. StrandedIsReported'
  BY <1>1, <1>3, <1>5 DEF IInv, StrandedIsReported, TypeOK
<1> QED  BY <1>6, <1>7, <1>8, <1>9, <1>10 DEF IInv

\* The publish of the request's own event, confirmed or not.
LEMMA EnqueueStep ==
    ASSUME IInv, NEW r \in Requests, enqueue_event(r) \/ EnqueueFails(r)
    PROVE  IInv'
<1>1. /\ pc[r] = "enqueue" /\ UNCHANGED <<header, events>>
      /\ faults' \in 0..MaxFaults
  BY IntakeAssumption DEF enqueue_event, EnqueueFails, Fault, IInv, TypeOK
<1>2. r \in events
  BY <1>1 DEF IInv, StoredByInsert
<1>3. /\ pc' = [pc EXCEPT ![r] = "done"]
      /\ \/ /\ answer' = [answer EXCEPT ![r] = [code |-> "accepted", event |-> r]]
            /\ published' = published \cup {r}
         \/ /\ answer' = [answer EXCEPT ![r] = [code |-> "503", event |-> Nobody]]
            /\ published' \in {published, published \cup {r}}
  BY DEF enqueue_event, EnqueueFails, Respond
<1>4. /\ \A u \in Requests \ {r} : pc'[u] = pc[u] /\ answer'[u] = answer[u]
      /\ pc'[r] = "done"
      /\ \/ answer'[r].code = "accepted" /\ answer'[r].event = r /\ r \in published'
         \/ answer'[r].code = "503" /\ answer'[r].event = Nobody
  BY <1>3 DEF IInv, TypeOK
<1>5. published' \in {published, published \cup {r}}
  BY <1>3
<1>6. TypeOK'
  BY <1>1, <1>3 DEF IInv, TypeOK, Codes
<1>7. StoredByInsert'
  BY <1>1, <1>2, <1>4, <1>5 DEF IInv, StoredByInsert
<1>8. OneEventPerDelivery'
  BY <1>1, <1>2, <1>4, <1>5 DEF IInv, OneEventPerDelivery
<1>9. AnswerIsTrue' /\ StrandedIsReported'
  BY <1>1, <1>4, <1>5 DEF IInv, AnswerIsTrue, StrandedIsReported, TypeOK
<1> QED  BY <1>6, <1>7, <1>8, <1>9 DEF IInv

\* A restart of the API answers nobody.
LEMMA RestartStep ==
    ASSUME IInv, ApiRestart
    PROVE  IInv'
<1>1. /\ UNCHANGED <<header, answer, events, published>>
      /\ faults' \in 0..MaxFaults
  BY IntakeAssumption DEF ApiRestart, Fault, IInv, TypeOK
<1>2. \A r \in Requests : pc'[r] = IF pc[r] \in {"new", "done"} THEN pc[r] ELSE "lost"
  BY DEF ApiRestart
<1>3. TypeOK'
  BY <1>1 DEF ApiRestart, IInv, TypeOK
<1>4. StoredByInsert' /\ OneEventPerDelivery' /\ AnswerIsTrue'
  BY <1>1, <1>2 DEF IInv, StoredByInsert, OneEventPerDelivery, AnswerIsTrue
<1>5. StrandedIsReported'
  BY <1>1, <1>2 DEF IInv, TypeOK, StrandedIsReported, StoredByInsert
<1> QED  BY <1>3, <1>4, <1>5 DEF IInv

\* Every step preserves the invariant.
LEMMA NextIInv == IInv /\ [Next]_vars => IInv'
<1> SUFFICES ASSUME IInv, [Next]_vars PROVE IInv'
  OBVIOUS
<1>1. CASE \E r \in Requests : \E h \in Headers : Reject(r, h) \/ Arrive(r, h)
  BY <1>1, ArriveStep
<1>2. CASE \E r \in Requests : receive_webhook(r)
  BY <1>2, LookupStep, CreateStep, EnqueueStep DEF receive_webhook
<1>3. CASE \E r \in Requests : LookupFails(r) \/ CreateFails(r) \/ EnqueueFails(r)
  BY <1>3, LookupStep, CreateStep, EnqueueStep
<1>4. CASE ApiRestart
  BY <1>4, RestartStep
<1>5. CASE UNCHANGED vars
  BY <1>5 DEF vars, IInv, TypeOK, StoredByInsert, OneEventPerDelivery, AnswerIsTrue,
              StrandedIsReported
<1> QED  BY <1>1, <1>2, <1>3, <1>4, <1>5 DEF Next

\* The invariant holds in every reachable state.
THEOREM IntakeInvariant == Spec => []IInv
BY InitIInv, NextIInv, PTL DEF Spec

\* Idempotency by delivery id, for any number of concurrent and repeated requests:
\* one event stored, one published, and every answer names it.
THEOREM Idempotent == Spec => []OneEventPerDelivery
<1>1. IInv => OneEventPerDelivery
  BY DEF IInv
<1> QED  BY <1>1, IntakeInvariant, PTL

\* "accepted" is said only of an event that is in the queue, "duplicate" only of
\* an event that another request has stored.
THEOREM AnswersAreTrue == Spec => []AnswerIsTrue
<1>1. IInv => AnswerIsTrue
  BY DEF IInv
<1> QED  BY <1>1, IntakeInvariant, PTL

\* Without an outbox an event can be stored and never queued, but then its own
\* request was answered with an error, or not at all.
THEOREM StrandedAreReported == Spec => []StrandedIsReported
<1>1. IInv => StrandedIsReported
  BY DEF IInv
<1> QED  BY <1>1, IntakeInvariant, PTL

-----------------------------------------------------------------------------
(* The checks come before any effect *)

\* What the checks let through.
Verified(h) ==
    /\ require_api_key(h)
    /\ h.valid
    /\ SecretSet => h.signature = "right" /\ h.age \in -Tolerance..Tolerance

\* A request beyond the checks, or with an event, carries what they let through.
VerifiedBeyondChecks ==
    \A r \in Requests :
        pc[r] \in {"lookup", "create", "enqueue"} \/ r \in events => Verified(header[r])

\* The comparison of abs(now - timestamp) with the tolerance is the closed window
\* on both sides.
LEMMA ChecksVerify ==
    ASSUME NEW h \in Headers, require_api_key(h), h.valid, verify_webhook_signature(h)
    PROVE  Verified(h)
<1>1. h.age \in Int /\ Tolerance \in Int
  BY IntakeAssumption DEF Header
<1>2. ~(abs(h.age) > Tolerance) => h.age \in -Tolerance..Tolerance
  BY <1>1 DEF abs
<1> QED  BY <1>2 DEF verify_webhook_signature, Verified

\* A request's header is fixed while it is new, and it gets beyond the checks, or
\* to an event, only through them.
LEMMA NextVerified ==
    ASSUME IInv, VerifiedBeyondChecks, [Next]_vars
    PROVE  VerifiedBeyondChecks'
<1>1. ASSUME NEW r \in Requests, NEW h \in Headers, Reject(r, h)
      PROVE  VerifiedBeyondChecks'
  <2>1. r \notin events
    BY <1>1 DEF Reject, IInv, StoredByInsert
  <2> QED  BY <1>1, <2>1 DEF Reject, Respond, VerifiedBeyondChecks, IInv, TypeOK, Verified
<1>2. ASSUME NEW r \in Requests, NEW h \in Headers, Arrive(r, h)
      PROVE  VerifiedBeyondChecks'
  <2>1. Verified(h)
    BY <1>2, ChecksVerify DEF Arrive
  <2>2. /\ \A u \in Requests \ {r} : pc'[u] = pc[u] /\ header'[u] = header[u]
        /\ header'[r] = h /\ events' = events
    BY <1>2 DEF Arrive, Goto, IInv, TypeOK
  <2> QED  BY <2>1, <2>2 DEF VerifiedBeyondChecks, Verified
<1>3. ASSUME NEW r \in Requests,
             receive_webhook(r) \/ LookupFails(r) \/ CreateFails(r) \/ EnqueueFails(r)
      PROVE  VerifiedBeyondChecks'
  <2>1. /\ pc[r] \in {"lookup", "create", "enqueue"}
        /\ header' = header
        /\ events' \subseteq events \cup {r}
        /\ \A u \in Requests \ {r} : pc'[u] = pc[u]
    BY <1>3 DEF receive_webhook, get_event_by_delivery_id, create_event, enqueue_event,
                LookupFails, CreateFails, EnqueueFails, Respond, Goto, IInv, TypeOK
  <2> QED  BY <2>1 DEF VerifiedBeyondChecks, Verified
<1>4. CASE ApiRestart
  BY <1>4 DEF ApiRestart, VerifiedBeyondChecks, Verified
<1>5. CASE UNCHANGED vars
  BY <1>5 DEF vars, VerifiedBeyondChecks, Verified
<1> QED  BY <1>1, <1>2, <1>3, <1>4, <1>5 DEF Next

\* Only a request with a good key, a valid body and, where a secret is set, the
\* right signature of a timestamp within the tolerance is stored or published.
THEOREM NothingUnverified == Spec => []OnlyVerifiedIsStored
<1>1. Init => VerifiedBeyondChecks
  BY DEF Init, VerifiedBeyondChecks
<1>2. IInv /\ VerifiedBeyondChecks => OnlyVerifiedIsStored
  BY DEF IInv, StoredByInsert, TypeOK, VerifiedBeyondChecks, Verified, OnlyVerifiedIsStored
<1>3. IInv /\ VerifiedBeyondChecks /\ [Next]_vars => VerifiedBeyondChecks'
  BY NextVerified
<1> QED  BY <1>1, <1>2, <1>3, IntakeInvariant, PTL DEF Spec

\* The type invariant holds for all values of the constants.
THEOREM IntakeTypeCorrect == Spec => []TypeOK
<1>1. IInv => TypeOK
  BY DEF IInv
<1> QED  BY <1>1, IntakeInvariant, PTL

-----------------------------------------------------------------------------
(* The composition of Intake and Delivery *)

\* What a request does is a step of Intake, and what happens after the publish
\* leaves Intake's variables alone.
LEMMA StepOfIntake == [ServiceNext]_serviceVars => [Next]_vars
BY DEF ServiceNext, serviceVars, Begin, Proceed, Fail, Restart, Next, receive_webhook

\* The table and the queues see a request as Delivery's intake: an insert, a
\* publish or nothing.
LEMMA StepOfDelivery == [ServiceNext]_serviceVars => [D!Next]_(D!vars)
BY DEF ServiceNext, serviceVars, deliveryVars, Begin, Proceed, Fail, Insert, Restart, D!Next, D!vars

\* The composition implements the specification of the requests.
THEOREM ImplementsIntake == ServiceSpec => Spec
BY StepOfIntake, PTL DEF ServiceSpec, ServiceInit, Spec

\* The composition implements the specification of the delivery.
THEOREM ImplementsDelivery == ServiceSpec => D!Spec
BY StepOfDelivery, PTL DEF ServiceSpec, ServiceInit, D!Spec

\* The two halves speak of the same table and the same queue: what Intake has
\* stored are Delivery's rows, what it has published was sent, and nothing that
\* was not stored is processed.
Linked ==
    /\ events = D!Stored
    /\ published \subseteq sent
    /\ succeeded \subseteq events

\* The empty table and the empty queues.
LEMMA InitLinked == ServiceInit => Linked
BY DEF ServiceInit, Init, D!Init, Linked, D!Stored

\* A request that inserts stores the same event in both halves.
LEMMA InsertLinked ==
    ASSUME IInv, D!IInv, Linked, NEW r \in Requests,
           create_event(r) \/ CreateFails(r), Insert(r)
    PROVE  Linked'
<1>1. /\ r \notin events
      /\ events' \in {events, events \cup {r}}
      /\ published' = published
  BY DEF IInv, StoredByInsert, create_event, CreateFails
<1>2. CASE r \in events'
  <2>1. D!Stored' = D!Stored \cup {r} /\ UNCHANGED <<sent, succeeded>>
    BY <1>2, D!InsertStores, ServiceAssumption DEF Insert
  <2> QED  BY <1>1, <1>2, <2>1 DEF Linked
<1>3. CASE r \notin events'
  BY <1>1, <1>3 DEF Insert, deliveryVars, Linked, D!Stored
<1> QED  BY <1>2, <1>3

\* A request that publishes sends the same event in both halves.
LEMMA EnqueueLinked ==
    ASSUME IInv, D!IInv, Linked, NEW r \in Requests,
           \/ enqueue_event(r) /\ D!EnqueueCreated(r)
           \/ EnqueueFails(r) /\ D!EnqueueFails(r) /\ (published' = published <=> queue' = queue)
    PROVE  Linked'
<1>1. r \notin published /\ events' = events /\ published' \in {published, published \cup {r}}
  BY DEF IInv, StoredByInsert, enqueue_event, EnqueueFails
<1>2. /\ D!Stored' = D!Stored
      /\ sent \subseteq sent'
      /\ succeeded' \subseteq succeeded \cup D!Stored
  BY D!OnlyInsertStores, ServiceAssumption
<1>3. r \in published' => r \in sent'
  <2>1. CASE D!EnqueueCreated(r)
    BY <2>1 DEF D!EnqueueCreated, D!enqueue_event
  <2>2. CASE D!EnqueueFails(r) /\ (published' = published <=> queue' = queue)
    BY <1>1, <2>2 DEF D!EnqueueFails, D!enqueue_event
  <2> QED  BY <2>1, <2>2
<1> QED  BY <1>1, <1>2, <1>3 DEF Linked

\* Every step keeps the halves together.
LEMMA NextLinked == IInv /\ D!IInv /\ Linked /\ [ServiceNext]_serviceVars => Linked'
<1> SUFFICES ASSUME IInv, D!IInv, Linked, [ServiceNext]_serviceVars PROVE Linked'
  OBVIOUS
<1>1. CASE \E r \in Requests : Begin(r)
  BY <1>1 DEF Begin, Reject, Arrive, deliveryVars, Linked, D!Stored
<1>2. CASE \E r \in Requests :
              (get_event_by_delivery_id(r) \/ LookupFails(r)) /\ UNCHANGED deliveryVars
  BY <1>2 DEF get_event_by_delivery_id, LookupFails, deliveryVars, Linked, D!Stored
<1>3. CASE \E r \in Requests : (create_event(r) \/ CreateFails(r)) /\ Insert(r)
  BY <1>3, InsertLinked
<1>4. CASE \E r \in Requests :
              \/ enqueue_event(r) /\ D!EnqueueCreated(r)
              \/ EnqueueFails(r) /\ D!EnqueueFails(r) /\ (published' = published <=> queue' = queue)
  BY <1>4, EnqueueLinked
<1>5. CASE Restart \/ (D!AfterHandOver /\ UNCHANGED vars)
  <2>1. UNCHANGED <<events, published>>
    BY <1>5 DEF Restart, ApiRestart, vars
  <2>2. /\ D!Stored' = D!Stored
        /\ sent \subseteq sent'
        /\ succeeded' \subseteq succeeded \cup D!Stored
    BY <1>5, D!OnlyInsertStores, ServiceAssumption DEF Restart
  <2> QED  BY <2>1, <2>2 DEF Linked
<1>6. CASE UNCHANGED serviceVars
  BY <1>6 DEF serviceVars, vars, deliveryVars, Linked, D!Stored
<1> QED  BY <1>1, <1>2, <1>3, <1>4, <1>5, <1>6 DEF ServiceNext, Proceed, Fail

\* The invariants of the halves, and the link, hold in every reachable state of
\* the composition.
THEOREM ServiceInvariant == ServiceSpec => [](IInv /\ D!IInv /\ Linked)
<1>1. ServiceSpec => []IInv
  BY ImplementsIntake, IntakeInvariant, PTL
<1>2. ServiceSpec => []D!IInv
  BY ImplementsDelivery, D!DeliveryInvariant, ServiceAssumption, PTL
<1> QED  BY <1>1, <1>2, InitLinked, NextLinked, PTL DEF ServiceSpec

\* Idempotency from the request to the worker: of the requests that carry one
\* delivery id, the event of one at most is ever queued or processed.
THEOREM OncePerDelivery == ServiceSpec => []OneEventProcessedPerDelivery
<1>1. ServiceSpec => []D!NoDanglingMessage
  BY ImplementsDelivery, D!NeverDangling, ServiceAssumption, PTL
<1>2. IInv /\ Linked /\ D!NoDanglingMessage => OneEventProcessedPerDelivery
  <2> SUFFICES ASSUME IInv, Linked, D!NoDanglingMessage PROVE OneEventProcessedPerDelivery
    OBVIOUS
  <2>1. \A e \in Requests :
           e \in succeeded \/ (\E p \in D!QueuePayload : p.event = e /\ D!Kept(p)) => e \in events
    BY DEF Linked, D!NoDanglingMessage
  <2> QED  BY <2>1 DEF IInv, OneEventPerDelivery, OneEventProcessedPerDelivery
<1> QED  BY <1>1, <1>2, ServiceInvariant, PTL

\* A stored event is processed, or kept by the broker, or its sender was not told
\* that it was accepted.
THEOREM NothingForgotten == ServiceSpec => []NoEventIsForgotten
<1>1. ServiceSpec => []D!AtLeastOnce
  BY ImplementsDelivery, D!AtLeastOnceHolds, ServiceAssumption, PTL
<1>2. IInv /\ Linked /\ D!AtLeastOnce => NoEventIsForgotten
  BY DEF IInv, StrandedIsReported, Linked, D!AtLeastOnce, NoEventIsForgotten
<1> QED  BY <1>1, <1>2, ServiceInvariant, PTL

=============================================================================
