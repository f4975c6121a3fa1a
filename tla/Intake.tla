------------------------------- MODULE Intake -------------------------------
(***************************************************************************)
(* POST /webhook with a queue backend, as concurrent requests execute it:  *)
(* the checks, the lookup of the delivery id, the insert and the publish   *)
(* are separate steps of receive_webhook, with an await between any two of *)
(* them.  Several requests may carry the same delivery id: senders repeat  *)
(* a delivery they got no good answer for.                                 *)
(*                                                                         *)
(* An event is named after the request that stores it.  What happens to it *)
(* after the publish is the subject of Delivery.                           *)
(***************************************************************************)
EXTENDS Integers

CONSTANTS
    Requests,        \* request names, and the ids of the events they store
    DeliveryIds,     \* values of the X-Webhook-ID header
    NoId,            \* the header is absent: NULL is stored
    EmptyId,         \* the header is empty: no lookup, but the empty text is stored
    Headers,         \* what requests carry, a set of records of type Header
    ApiKeySet,       \* settings.api_key is not empty
    SecretSet,       \* settings.webhook_secret is not empty
    Tolerance,       \* settings.webhook_timestamp_tolerance_seconds
    MaxFaults        \* bound: failures of the database, the broker or the API

\* age is now - timestamp when the signature is checked.
Header == [delivery  : DeliveryIds \cup {NoId, EmptyId},
           api_key   : BOOLEAN,
           valid     : BOOLEAN,
           timestamp : {"absent", "malformed", "integer"},
           age       : Int,
           signature : {"absent", "wrong", "right"}]

\* A response names an event, or none (an error).
Nobody == "nobody"

ASSUME IntakeAssumption ==
    /\ Nobody \notin Requests
    /\ NoId # EmptyId
    /\ NoId \notin DeliveryIds /\ EmptyId \notin DeliveryIds
    /\ Headers \subseteq Header
    /\ ApiKeySet \in BOOLEAN
    /\ SecretSet \in BOOLEAN
    /\ Tolerance \in Int
    /\ MaxFaults \in Nat

VARIABLES
    pc,         \* where each request is in receive_webhook
    header,     \* what each request that has passed the checks carries
    answer,     \* the response of each finished request
    events,     \* the events table: stored events
    published,  \* events the main queue has got a message of
    faults

vars == <<pc, header, answer, events, published, faults>>

NoHeader == [delivery |-> NoId, api_key |-> FALSE, valid |-> FALSE,
             timestamp |-> "absent", age |-> 0, signature |-> "absent"]

Codes == {"accepted", "duplicate", "401", "422", "500", "503"}

NoAnswer == [code |-> "none", event |-> Nobody]

Init ==
    /\ pc = [r \in Requests |-> "new"]
    /\ header = [r \in Requests |-> NoHeader]
    /\ answer = [r \in Requests |-> NoAnswer]
    /\ events = {}
    /\ published = {}
    /\ faults = 0

Fault == faults < MaxFaults /\ faults' = faults + 1

Goto(r, label) ==
    /\ pc' = [pc EXCEPT ![r] = label]
    /\ UNCHANGED answer

Respond(r, code, event) ==
    /\ pc' = [pc EXCEPT ![r] = "done"]
    /\ answer' = [answer EXCEPT ![r] = [code |-> code, event |-> event]]

-----------------------------------------------------------------------------
(* Checks *)

require_api_key(h) == ApiKeySet => h.api_key

abs(n) == IF n < 0 THEN -n ELSE n

\* Mutant: the tolerance is one-sided.
VerifyWithoutAbs(h) ==
    SecretSet =>
        /\ h.timestamp = "integer"
        /\ ~(h.age > Tolerance)
        /\ h.signature = "right"

verify_webhook_signature(h) ==
    SecretSet =>
        /\ h.timestamp # "absent" /\ h.signature # "absent"
        /\ h.timestamp = "integer"
        /\ ~(abs(h.age) > Tolerance)
        /\ h.signature = "right"

\* The checks that read the request alone, in the order they are made.  Nothing
\* is kept of a request that fails one.
Reject(r, h) ==
    /\ pc[r] = "new"
    /\ \/ ~require_api_key(h) /\ Respond(r, "401", Nobody)
       \/ require_api_key(h) /\ ~h.valid /\ Respond(r, "422", Nobody)
       \/ /\ require_api_key(h) /\ h.valid /\ ~verify_webhook_signature(h)
          /\ Respond(r, "401", Nobody)
    /\ UNCHANGED <<header, events, published, faults>>

Arrive(r, h) ==
    /\ pc[r] = "new"
    /\ require_api_key(h) /\ h.valid /\ verify_webhook_signature(h)
    /\ header' = [header EXCEPT ![r] = h]
    /\ Goto(r, IF h.delivery \in {NoId, EmptyId} THEN "create" ELSE "lookup")
    /\ UNCHANGED <<events, published, faults>>

-----------------------------------------------------------------------------
(* Idempotency by delivery id *)

Rows(delivery) == {e \in events : header[e].delivery = delivery}

get_event_by_delivery_id(r) ==
    /\ pc[r] = "lookup"
    /\ IF Rows(header[r].delivery) = {}
       THEN Goto(r, "create")
       ELSE \E existing \in Rows(header[r].delivery) : Respond(r, "duplicate", existing)
    /\ UNCHANGED <<header, events, published, faults>>

\* The lookup fails: unhandled, 500.
LookupFails(r) ==
    /\ pc[r] = "lookup"
    /\ Fault
    /\ Respond(r, "500", Nobody)
    /\ UNCHANGED <<header, events, published>>

\* Mutant: the column has an index that is not unique.
NoUniqueIndex(r) == FALSE

\* events.delivery_id is UNIQUE; NULLs never collide, empty texts do.
UniqueViolation(r) == header[r].delivery # NoId /\ Rows(header[r].delivery) # {}

\* Mutant: a rejected insert is answered 409, which the endpoint does not document.
CreateConflict(r) ==
    /\ pc[r] = "create"
    /\ IF UniqueViolation(r)
       THEN Respond(r, "409", Nobody) /\ UNCHANGED events
       ELSE Goto(r, "enqueue") /\ events' = events \cup {r}
    /\ UNCHANGED <<header, published, faults>>

\* The insert commits, or the unique index rejects it: the IntegrityError is
\* rolled back and raised, and the unhandled-exception handler answers 500.
create_event(r) ==
    /\ pc[r] = "create"
    /\ IF UniqueViolation(r)
       THEN Respond(r, "500", Nobody) /\ UNCHANGED events
       ELSE Goto(r, "enqueue") /\ events' = events \cup {r}
    /\ UNCHANGED <<header, published, faults>>

\* The database fails: before the commit, or between the commit and the refresh
\* that follows it, when the row is stored all the same.
CreateFails(r) ==
    /\ pc[r] = "create"
    /\ Fault
    /\ Respond(r, "500", Nobody)
    /\ \/ UNCHANGED events
       \/ ~UniqueViolation(r) /\ events' = events \cup {r}
    /\ UNCHANGED <<header, published>>

-----------------------------------------------------------------------------
(* Hand-over to the queue *)

enqueue_event(r) ==
    /\ pc[r] = "enqueue"
    /\ published' = published \cup {r}
    /\ Respond(r, "accepted", r)
    /\ UNCHANGED <<header, events, faults>>

\* Mutant: the failed publish is logged only.
EnqueueFailureIgnored(r) ==
    /\ pc[r] = "enqueue"
    /\ Fault
    /\ published' \in {published, published \cup {r}}
    /\ Respond(r, "accepted", r)
    /\ UNCHANGED <<header, events>>

\* QueueUnavailableError: the publish or only its confirmation is lost.
EnqueueFails(r) ==
    /\ pc[r] = "enqueue"
    /\ Fault
    /\ published' \in {published, published \cup {r}}
    /\ Respond(r, "503", Nobody)
    /\ UNCHANGED <<header, events>>

\* The API process dies: requests in flight are never answered.
ApiRestart ==
    /\ \E r \in Requests : pc[r] \notin {"new", "done", "lost"}
    /\ Fault
    /\ pc' = [r \in Requests |-> IF pc[r] \in {"new", "done"} THEN pc[r] ELSE "lost"]
    /\ UNCHANGED <<header, answer, events, published>>

receive_webhook(r) ==
    \/ get_event_by_delivery_id(r)
    \/ create_event(r)
    \/ enqueue_event(r)

Finished == \A r \in Requests : pc[r] \in {"done", "lost"}

Next ==
    \/ \E r \in Requests :
          \/ \E h \in Headers : Reject(r, h) \/ Arrive(r, h)
          \/ receive_webhook(r)
          \/ LookupFails(r)
          \/ CreateFails(r)
          \/ EnqueueFails(r)
    \/ ApiRestart
    \/ Finished /\ UNCHANGED vars

Spec == Init /\ [][Next]_vars

-----------------------------------------------------------------------------
(* Properties *)

\* Every variable keeps its type: a request is at one of the handler's awaits
\* and an answer names a request's event or none.
TypeOK ==
    /\ pc \in [Requests -> {"new", "lookup", "create", "enqueue", "done", "lost"}]
    /\ header \in [Requests -> Headers \cup {NoHeader}]
    /\ answer \in [Requests -> [code : Codes \cup {"none"}, event : Requests \cup {Nobody}]]
    /\ events \in SUBSET Requests
    /\ published \in SUBSET Requests
    /\ faults \in 0..MaxFaults

\* Idempotency by delivery id: however many requests with one delivery id run at
\* once, whatever fails and is repeated, one event is stored, one message is
\* published, and every answer that names an event names that one.
OneEventPerDelivery ==
    /\ \A e, f \in events \cup published :
          header[e].delivery = header[f].delivery /\ header[e].delivery # NoId => e = f
    /\ \A r \in Requests :
          answer[r].event # Nobody => /\ answer[r].event \in events
                                      /\ header[answer[r].event].delivery = header[r].delivery

\* What senders may conclude: "accepted" is said of the request's own event,
\* once it is in the queue; "duplicate" of an event another request has stored,
\* by a request that stored none.
AnswerIsTrue ==
    \A r \in Requests :
        /\ answer[r].code = "accepted" => r \in published /\ answer[r].event = r
        /\ answer[r].code = "duplicate" => /\ answer[r].event \in events \ {r}
                                           /\ r \notin events

\* An event that is stored and not in the queue belongs to a request in flight or
\* to one that ended with an error or with the process: never to one that was
\* answered with success.  (It stays so until an operator retries it; the sender's
\* repetition is answered "duplicate".)
StrandedIsReported ==
    \A e \in events \ published :
        pc[e] \in {"enqueue", "lost"} \/ answer[e].code \in {"500", "503"}

\* The checks come before any effect: a stored or published event stems from a
\* request with a good key, a valid body and a good signature, if required.
OnlyVerifiedIsStored ==
    /\ published \subseteq events
    /\ \A e \in events : /\ require_api_key(header[e])
                         /\ header[e].valid
                         /\ SecretSet => /\ header[e].signature = "right"
                                         /\ header[e].age \in -Tolerance..Tolerance

\* test_duplicate_delivery_id_is_idempotent: the second request with a delivery
\* id is answered "duplicate".  Without failures, a request that passes the
\* checks is accepted or a duplicate.
DuplicateIsAnswered ==
    \A r \in Requests :
        answer[r].code # "none" /\ header[r].valid
            => answer[r].code \in {"accepted", "duplicate"}

=============================================================================
