------------------------------ MODULE Service ------------------------------
(***************************************************************************)
(* Intake and Delivery together: the requests of Intake write the table    *)
(* and the queue of Delivery.  A step of receive_webhook that stores a row *)
(* is a CreateEvent of Delivery, one that publishes is an EnqueueCreated   *)
(* or an EnqueueFails, and a restart of the API ends the requests of both. *)
(* Every other step is a step of one of the two.                           *)
(*                                                                         *)
(* The variables pc, header, answer, events and published are Intake's.    *)
(* published are the events that receive_webhook has published, sent those *)
(* that anybody has, an operator's retry included.  The faults of the two  *)
(* halves are counted apart; one that hits the publish is a fault of both. *)
(***************************************************************************)
EXTENDS Intake

CONSTANTS Payloads, Workers, Operators, MaxAttempts, Limits, MaxDeliveryFaults, MaxCalls

VARIABLES rows, intake, queue, worker, operator, orphans, sent, succeeded, deliveryFaults, calls

\* The module with the proofs, for the theorems; it adds nothing to the model.
D == INSTANCE DeliveryProofs WITH
        Events    <- Requests,
        MaxFaults <- MaxDeliveryFaults,
        published <- sent,
        faults    <- deliveryFaults

ASSUME ServiceAssumption == D!ConstantsAssumption

deliveryVars ==
    <<rows, intake, queue, worker, operator, orphans, sent, succeeded, deliveryFaults, calls>>

serviceVars == <<vars, deliveryVars>>

ServiceInit == Init /\ D!Init

Begin(r) ==
    /\ \E h \in Headers : Reject(r, h) \/ Arrive(r, h)
    /\ UNCHANGED deliveryVars

\* What an insert does to the table, depending on whether it is committed.
Insert(r) ==
    IF r \in events'
    THEN \E payload \in Payloads : D!CreateEvent(r, payload)
    ELSE UNCHANGED deliveryVars

Proceed(r) ==
    \/ get_event_by_delivery_id(r) /\ UNCHANGED deliveryVars
    \/ create_event(r) /\ Insert(r)
    \/ enqueue_event(r) /\ D!EnqueueCreated(r)

\* Delivery does not see that a request ended with an error after the commit: its
\* event stays "created" there, without a publish.
Fail(r) ==
    \/ LookupFails(r) /\ UNCHANGED deliveryVars
    \/ CreateFails(r) /\ Insert(r)
    \/ /\ EnqueueFails(r)
       /\ D!EnqueueFails(r)
       /\ published' = published <=> queue' = queue

Restart ==
    /\ \/ ApiRestart
       \/ (\A r \in Requests : pc[r] \in {"new", "done", "lost"}) /\ UNCHANGED vars
    /\ D!ApiRestart

ServiceNext ==
    \/ \E r \in Requests : Begin(r) \/ Proceed(r) \/ Fail(r)
    \/ Restart
    \/ D!AfterHandOver /\ UNCHANGED vars
    \/ Finished /\ UNCHANGED serviceVars

ServiceSpec == ServiceInit /\ [][ServiceNext]_serviceVars

\* The fairness of Delivery, but for its intake: that the publish of a request
\* returns is not assumed.
FairServiceSpec ==
    /\ ServiceSpec
    /\ \A w \in Workers : WF_serviceVars(D!run_worker(w) /\ UNCHANGED vars)
    /\ \A p \in D!QueuePayload : WF_serviceVars(D!RetryDelayExpires(p) /\ UNCHANGED vars)
    /\ \A o \in Operators : /\ WF_serviceVars(D!EnqueueRetry(o) /\ UNCHANGED vars)
                            /\ WF_serviceVars(D!RedriveStep(o) /\ UNCHANGED vars)

-----------------------------------------------------------------------------
(* Properties *)

\* Idempotency from end to end: however often a delivery is repeated, whatever
\* fails, restarts and is retried or redriven, there are messages of one event at
\* most, and one event at most is processed with success.
OneEventProcessedPerDelivery ==
    \A e, f \in Requests :
        /\ e \in succeeded \/ \E p \in D!QueuePayload : p.event = e /\ D!Kept(p)
        /\ f \in succeeded \/ \E p \in D!QueuePayload : p.event = f /\ D!Kept(p)
        /\ header[e].delivery = header[f].delivery
        /\ header[e].delivery # NoId
        => e = f

\* No event is forgotten: whatever is stored has been processed with success, or
\* the broker keeps a message of it, or its request is about to publish it, or has
\* failed, so that the sender was not told that it was accepted.
NoEventIsForgotten ==
    \A e \in events :
        \/ e \in succeeded
        \/ \E p \in D!QueuePayload : p.event = e /\ D!Kept(p)
        \/ pc[e] \in {"enqueue", "lost"}
        \/ answer[e].code \in {"500", "503"}

\* What "accepted" promises the sender: the event is processed in the end, or
\* dead-lettered after its last attempt, whatever other requests, failures and
\* restarts of API and worker come in between.
AcceptedSettles == \A r \in Requests : answer[r].code = "accepted" ~> D!Settled(r)

=============================================================================
