-------------------------- MODULE InlineProcessing --------------------------
(***************************************************************************)
(* The service with TASK_QUEUE_BACKEND=inline, the default: no queue and   *)
(* no worker.  receive_webhook and retry_event answer at once and leave a  *)
(* background task in the API process that runs process_event_by_id with   *)
(* final_attempt=True.  Tasks of several requests interleave at their      *)
(* awaits and die with the process.                                        *)
(***************************************************************************)
EXTENDS EventStore

CONSTANTS
    Events,     \* event ids, one for each request that stores a row
    Payloads,   \* payloads senders use
    Tasks,      \* background tasks, as many as can run at once
    MaxFaults,  \* bound: faults of the database and the API process
    MaxCalls    \* bound: operator retries

ASSUME InlineAssumption ==
    Payloads \subseteq Payload /\ MaxFaults \in Nat /\ MaxCalls \in Nat

VARIABLES
    rows,       \* the events table
    task,       \* control state of each task
    accepted,   \* history: events whose sender was answered "accepted"
    dropped,    \* history: events of which a fault ended a task
    succeeded,  \* history: events with a committed successful attempt
    faults,
    calls

vars == <<rows, task, accepted, dropped, succeeded, faults, calls>>

NoRow == [status |-> "absent"]

Stored == {e \in Events : rows[e] # NoRow}

Idle == [pc |-> "idle"]

Init ==
    /\ rows = [e \in Events |-> NoRow]
    /\ task = [t \in Tasks |-> Idle]
    /\ accepted = {} /\ dropped = {} /\ succeeded = {}
    /\ faults = 0 /\ calls = 0

Fault == faults < MaxFaults /\ faults' = faults + 1

Goto(t, state) == task' = [task EXCEPT ![t] = state]

-----------------------------------------------------------------------------
(* app/routers/webhooks.py.  Starlette starts a response's tasks once the
   response is sent.                                                       *)

\* Mutant: only the queue branch hands the event over.
AddNoTask(t, e) == task[t].pc = "idle" /\ UNCHANGED task

add_task(t, e) == task[t].pc = "idle" /\ Goto(t, [pc |-> "start", event |-> e])

receive_webhook(e, payload, t) ==
    /\ rows[e] = NoRow
    /\ rows' = [rows EXCEPT ![e] = create_event(payload)]
    /\ add_task(t, e)
    /\ accepted' = accepted \cup {e}
    /\ UNCHANGED <<dropped, succeeded, faults, calls>>

\* The refresh after the commit fails, or the process dies there: no answer or
\* 500, and a row without a task.
ReceiveFails(e, payload) ==
    /\ rows[e] = NoRow
    /\ Fault
    /\ rows' = [rows EXCEPT ![e] = create_event(payload)]
    /\ UNCHANGED <<task, accepted, dropped, succeeded, calls>>

\* The status check and add_task have no await between them.
retry_event(e, t) ==
    /\ calls < MaxCalls /\ calls' = calls + 1
    /\ e \in Stored
    /\ rows[e].status # PROCESSED
    /\ add_task(t, e)
    /\ UNCHANGED <<rows, accepted, dropped, succeeded, faults>>

-----------------------------------------------------------------------------
(* process_event_by_id as a background task *)

LoadEvent(t) ==
    /\ task[t].pc = "start"
    /\ Goto(t, [pc |-> "loaded", event |-> task[t].event, loaded |-> rows[task[t].event]])
    /\ UNCHANGED <<rows, accepted, dropped, succeeded, faults, calls>>

\* Mutant: the task is scheduled without final_attempt=True.
NotFinal == FALSE

FinalAttempt == TRUE

CommitAttempt(t) ==
    /\ task[t].pc = "loaded"
    /\ LET e      == task[t].event
           loaded == task[t].loaded
       IN  /\ rows' = [rows EXCEPT ![e] =
                         commit(@, loaded, process_event(loaded, FinalAttempt))]
           /\ succeeded' = IF Raises(loaded) THEN succeeded ELSE succeeded \cup {e}
    /\ Goto(t, Idle)
    /\ UNCHANGED <<accepted, dropped, faults, calls>>

RunTask(t) == LoadEvent(t) \/ CommitAttempt(t)

\* The database fails under a task.  A failed commit leaves the session inactive,
\* so the commit of the except branch raises as well and nothing is written.
TaskFails(t) ==
    /\ task[t].pc # "idle"
    /\ Fault
    /\ dropped' = dropped \cup {task[t].event}
    /\ Goto(t, Idle)
    /\ UNCHANGED <<rows, accepted, succeeded, calls>>

Busy == {t \in Tasks : task[t].pc # "idle"}

ApiRestart ==
    /\ Busy # {}
    /\ Fault
    /\ dropped' = dropped \cup {task[t].event : t \in Busy}
    /\ task' = [t \in Tasks |-> Idle]
    /\ UNCHANGED <<rows, accepted, succeeded, calls>>

-----------------------------------------------------------------------------

Quiescent == Stored = Events /\ Busy = {}

Next ==
    \/ \E e \in Events, t \in Tasks :
          \/ \E payload \in Payloads : receive_webhook(e, payload, t)
          \/ retry_event(e, t)
    \/ \E e \in Events, payload \in Payloads : ReceiveFails(e, payload)
    \/ \E t \in Tasks : RunTask(t) \/ TaskFails(t)
    \/ ApiRestart
    \/ Quiescent /\ UNCHANGED vars

Spec == Init /\ [][Next]_vars

\* The event loop runs every task that is not waiting.
FairSpec == Spec /\ \A t \in Tasks : WF_vars(RunTask(t))

-----------------------------------------------------------------------------
(* Properties *)

\* A pending row has never been attempted and an attempted one is not pending,
\* whatever stale commits of concurrent tasks overwrite: every attempt is final,
\* and no column-wise commit brings "pending" back or takes the counter to zero.
PendingIsUnattempted ==
    \A e \in Stored : rows[e].status = PENDING <=> rows[e].attempts = 0

\* A failed row says why, also when the commits of several tasks mix their columns.
FailedHasError ==
    \A e \in Stored : rows[e].status = FAILED => rows[e].error # NoError

\* An event that was answered "accepted" is attempted, unless a fault took a task
\* of it: nothing looks for pending events after a restart.
AcceptedIsAttempted ==
    \A e \in Events :
        e \in accepted ~> (e \in Stored /\ rows[e].attempts > 0) \/ e \in dropped

=============================================================================
