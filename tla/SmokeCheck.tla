----------------------------- MODULE SmokeCheck -----------------------------
(***************************************************************************)
(* tools/smoke_check.py against the running system: a client that sends    *)
(* one request after the other, composed with Delivery.  It sends an event *)
(* that succeeds, repeats it, sends one whose first three attempts fail,   *)
(* polls until that one is dead-lettered, redrives the dead-letter queue   *)
(* and polls until it is processed.  The system is fresh and nobody else   *)
(* calls it.                                                               *)
(*                                                                         *)
(* The requests before and after these (health, metrics and the            *)
(* observability stack) touch neither the table nor a queue and are left   *)
(* out: they only stop the check when they fail.                           *)
(***************************************************************************)
EXTENDS Delivery

CONSTANTS
    Accepted,   \* the event of accepted_delivery_id
    Retryable,  \* the event of retryable_delivery_id
    Redrive     \* the one operator request at a time

VARIABLE smoke   \* where the check is

smokeVars == <<vars, smoke>>

SmokeInit == Init /\ smoke = "send accepted"

FailAttempts == 3

AcceptedPayload == [remaining |-> 0, force |-> FALSE]

RetryablePayload == [remaining |-> FailAttempts, force |-> FALSE]

SmokePayloads == {AcceptedPayload, RetryablePayload}

RedriveLimit == 10

\* The constants of Delivery for this client.
SmokeSetup ==
    /\ Events = {Accepted, Retryable} /\ Accepted # Retryable
    /\ Operators = {Redrive}
    /\ SmokePayloads \subseteq Payloads
    /\ RedriveLimit \in Limits

\* The check goes on with one step, or stops with RuntimeError.
Expect(condition, next) == smoke' = IF condition THEN next ELSE "failed"

-----------------------------------------------------------------------------

send_accepted ==
    /\ smoke = "send accepted"
    /\ CreateEvent(Accepted, AcceptedPayload)
    /\ smoke' = "accepted?"

send_retryable ==
    /\ smoke = "send retryable"
    /\ CreateEvent(Retryable, RetryablePayload)
    /\ smoke' = "retryable?"

\* The answer of POST /webhook.
Answered(e, waiting, next) ==
    /\ smoke = waiting
    /\ intake[e] \in {"accepted", "unavailable", "aborted"}
    /\ Expect(intake[e] = "accepted", next)
    /\ UNCHANGED vars

send_duplicate ==
    /\ smoke = "send duplicate"
    /\ Expect(Accepted \in Stored, "send invalid")
    /\ UNCHANGED vars

\* Answered 401 before anything is stored (Intake).
send_invalid ==
    /\ smoke = "send invalid"
    /\ smoke' = "send retryable"
    /\ UNCHANGED vars

\* dlq_ready: two requests, one after the other.
dlq_stats ==
    /\ smoke = "dlq?"
    /\ smoke' = IF \E p \in QueuePayload : queue["dead"][p] > 0 THEN "failed events?" ELSE "dlq?"
    /\ UNCHANGED vars

dlq_summary ==
    /\ smoke = "failed events?"
    /\ smoke' = IF \E e \in Stored : rows[e].status = FAILED THEN "redrive" ELSE "dlq?"
    /\ UNCHANGED vars

redrive ==
    /\ smoke = "redrive"
    /\ RedriveDlq(Redrive, RedriveLimit)
    /\ smoke' = "redriven?"

\* The redrive endpoint answers with its count.
Redriven ==
    /\ mark_events_pending(Redrive)
    /\ Expect(operator[Redrive].redriven # {}, "processed?")

\* It raised, or the API went down under it.
RedriveFailed ==
    /\ smoke = "redriven?"
    /\ operator[Redrive].pc = "idle"
    /\ smoke' = "failed"
    /\ UNCHANGED vars

\* event_processed: two requests, one after the other.
event_processed ==
    /\ smoke = "processed?"
    /\ smoke' = IF rows[Retryable].status = PROCESSED THEN "dlq empty?" ELSE "processed?"
    /\ UNCHANGED vars

event_stats ==
    /\ smoke = "dlq empty?"
    /\ smoke' = IF \A p \in QueuePayload : queue["dead"][p] = 0 THEN "ok" ELSE "processed?"
    /\ UNCHANGED vars

\* wait_for gives up after its timeout.
wait_for ==
    /\ smoke \in {"dlq?", "processed?"}
    /\ smoke' = "timed out"
    /\ UNCHANGED vars

main ==
    \/ send_accepted
    \/ Answered(Accepted, "accepted?", "send duplicate")
    \/ send_duplicate \/ send_invalid
    \/ send_retryable
    \/ Answered(Retryable, "retryable?", "dlq?")
    \/ dlq_stats \/ dlq_summary
    \/ redrive \/ Redriven \/ RedriveFailed
    \/ event_processed \/ event_stats

-----------------------------------------------------------------------------
(* What Delivery does meanwhile, without other clients *)

ServiceStep ==
    \/ \E e \in Events : EnqueueCreated(e)
    \/ \E w \in Workers : run_worker(w)
    \/ \E p \in QueuePayload : RetryDelayExpires(p) \/ RedriveGet(Redrive, p)
    \/ RedriveLoopEnds(Redrive) \/ RedrivePublish(Redrive) \/ RedriveAck(Redrive)

FaultStep ==
    \/ \E e \in Events : EnqueueFails(e)
    \/ \E w \in Workers : WorkerRestart(w) \/ WorkerConnectionLost(w)
    \/ OperatorFails(Redrive) \/ ApiRestart \/ ApiConnectionLost

Ended == smoke \in {"ok", "failed", "timed out"} /\ UNCHANGED smokeVars

SmokeNext ==
    \/ main
    \/ wait_for
    \/ (ServiceStep \/ FaultStep) /\ UNCHANGED smoke
    \/ Ended

SmokeSpec == SmokeInit /\ [][SmokeNext]_smokeVars

\* Weaker than the fairness of Delivery, and a client that goes on.
FairSmokeSpec ==
    /\ SmokeSpec
    /\ WF_smokeVars(main)
    /\ \A e \in Events : WF_smokeVars(EnqueueCreated(e) /\ UNCHANGED smoke)
    /\ \A w \in Workers : WF_smokeVars(run_worker(w) /\ UNCHANGED smoke)
    /\ WF_smokeVars(ServiceStep /\ UNCHANGED smoke)

-----------------------------------------------------------------------------
(* Properties *)

\* On a system without faults, and with enough patience, the check passes: three
\* failures lead to the dead-letter queue and the redriven event succeeds, whichever
\* of the redrive's reset and the worker is first, and the pairs of requests that
\* dlq_ready and event_processed send cannot see an inconsistent state for ever.
SmokePasses == [](faults = 0 /\ smoke # "timed out") => <>(smoke = "ok")

\* A passed check means what it is taken for, also when there were faults on the
\* way: the event has used up its attempts, was redriven, succeeded in a later
\* attempt and the row still says so.
OkIsEvidence ==
    smoke = "ok" =>
        /\ Retryable \in succeeded
        /\ rows[Retryable].status = PROCESSED
        /\ rows[Retryable].attempts > MaxAttempts

=============================================================================
