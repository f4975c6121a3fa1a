--------------------------- MODULE EventLifecycle ---------------------------
(***************************************************************************)
(* What the events table promises its readers (GET /events, the summary,   *)
(* the 409 of the retry endpoint), whatever queues and workers do: an      *)
(* event appears once, as pending with no attempt; every attempt adds      *)
(* exactly one to processing_attempts; a processed event stays processed;  *)
(* an operator can only put unprocessed events back to pending.            *)
(***************************************************************************)
EXTENDS EventStore

CONSTANT Events

VARIABLES status, attempts

lifecycle == <<status, attempts>>

Absent == "absent"

Init ==
    /\ status = [e \in Events |-> Absent]
    /\ attempts = [e \in Events |-> 0]

Arrive(e) ==
    /\ status[e] = Absent
    /\ status' = [status EXCEPT ![e] = PENDING]
    /\ UNCHANGED attempts

\* One processing attempt: any verdict for an unprocessed event, none that
\* takes back an earlier success.
Attempt(e, verdict) ==
    /\ status[e] # Absent
    /\ status[e] = PROCESSED => verdict = PROCESSED
    /\ status' = [status EXCEPT ![e] = verdict]
    /\ attempts' = [attempts EXCEPT ![e] = @ + 1]

Reset(batch) ==
    /\ \A e \in batch : status[e] # Absent
    /\ status' = [e \in Events |-> IF e \in batch /\ status[e] # PROCESSED
                                   THEN PENDING
                                   ELSE status[e]]
    /\ UNCHANGED attempts

Next ==
    \/ \E e \in Events : Arrive(e)
    \/ \E e \in Events, verdict \in ProcessingStatus : Attempt(e, verdict)
    \/ \E batch \in SUBSET Events : Reset(batch)

Spec == Init /\ [][Next]_lifecycle

=============================================================================
