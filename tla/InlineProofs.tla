---------------------------- MODULE InlineProofs ----------------------------
(***************************************************************************)
(* Proofs about InlineProcessing, for any number of events, payloads and   *)
(* tasks that load and commit the same rows in any order, and any number   *)
(* of faults and retries.                                                  *)
(***************************************************************************)
EXTENDS InlineProcessing, TLAPS

TaskState ==
         [pc : {"idle"}]
    \cup [pc : {"start"}, event : Events]
    \cup [pc : {"loaded"}, event : Events, loaded : Event]

TypeInv ==
    /\ rows \in [Events -> Event \cup {NoRow}]
    /\ task \in [Tasks -> TaskState]
    /\ \A t \in Tasks : task[t].pc # "idle" => task[t].event \in Stored

\* What every version of a row satisfies, the row itself and each copy a task has
\* loaded: an error exactly when it failed, and success only where nothing forces a
\* failure.
Consistent(x) ==
    /\ x.status = PENDING <=> x.attempts = 0
    /\ x.status = FAILED <=> x.error # NoError
    /\ x.status = PROCESSED => ~x.payload.force
    /\ x.error = ForcedError => x.payload.force

\* Two versions of one row: force_failure never changes, and an event that has not
\* been attempted and will not fail has failed in no version.
Related(x, y) ==
    /\ x.payload.force = y.payload.force
    /\ x.status = PENDING /\ ~Raises(x) => ~Raises(y) /\ y.error = NoError

\* A copy is never ahead of its row in having been attempted.
Behind(x, row) == x.attempts > 0 => row.attempts > 0

Loaded(e) == {t \in Tasks : task[t].pc = "loaded" /\ task[t].event = e}

\* The versions of every row, taken together.
Versions ==
    \A e \in Stored :
        /\ Consistent(rows[e])
        /\ \A t \in Loaded(e) :
              /\ Consistent(task[t].loaded)
              /\ Behind(task[t].loaded, rows[e])
              /\ Related(task[t].loaded, rows[e]) /\ Related(rows[e], task[t].loaded)
              /\ \A u \in Loaded(e) : Related(task[t].loaded, task[u].loaded)

IInv == TypeInv /\ Versions

-----------------------------------------------------------------------------
(* The statements on one row *)

LEMMA TaskStates ==
    /\ Idle \in TaskState /\ Idle.pc = "idle"
    /\ \A e \in Events : [pc |-> "start", event |-> e] \in TaskState
    /\ \A e \in Events, x \in Event : [pc |-> "loaded", event |-> e, loaded |-> x] \in TaskState
    /\ \A s \in TaskState :
          /\ s.pc \in {"idle", "start", "loaded"}
          /\ s.pc # "idle" => s.event \in Events
          /\ s.pc = "loaded" => s.loaded \in Event
BY DEF TaskState, Idle

LEMMA RowIsNoNoRow == \A x \in Event : x # NoRow
BY DEF Event, NoRow, ProcessingStatus, PENDING, PROCESSED, FAILED

LEMMA RelatedToItself ==
    ASSUME NEW x \in Event, Consistent(x)
    PROVE  Related(x, x) /\ Behind(x, x)
BY DEF Consistent, Related, Behind, PENDING, FAILED

LEMMA CreatedIsConsistent ==
    ASSUME NEW payload \in Payload
    PROVE  create_event(payload) \in Event /\ Consistent(create_event(payload))
BY DEF create_event, Consistent, Event, ProcessingStatus, PENDING, PROCESSED, FAILED, ErrorMessage,
       NoError, ForcedError

\* The attempt a task computes from its copy: the columns it can change.
LEMMA Attempt ==
    ASSUME NEW x \in Event, NEW obj, obj = process_event(x, FinalAttempt)
    PROVE  /\ obj \in Event
           /\ obj.attempts = x.attempts + 1
           /\ obj.payload.force = x.payload.force
           /\ ~Raises(x) => obj.status = PROCESSED /\ obj.error = NoError /\ obj.payload = x.payload
           /\ Raises(x) => obj.status = FAILED /\ obj.error # NoError
           /\ obj.error = ForcedError => x.payload.force
<1>0. NoError # TransientError /\ NoError # ForcedError /\ PROCESSED # FAILED
  BY DEF NoError, TransientError, ForcedError, PROCESSED, FAILED
<1>1. /\ x.attempts \in Nat /\ x.payload \in Payload
      /\ x.payload.remaining \in Int /\ x.payload.force \in BOOLEAN
  BY DEF Event, Payload
<1>2. CASE Raises(x)
  <2> DEFINE left == [remaining |-> IF x.payload.remaining > 0
                                    THEN x.payload.remaining - 1
                                    ELSE x.payload.remaining,
                      force     |-> x.payload.force]
             why == IF x.payload.remaining > 0 THEN TransientError ELSE ForcedError
  <2>1. obj =
           [status |-> FAILED, attempts |-> x.attempts + 1, processed_at |-> FALSE,
            error |-> why, payload |-> left]
    BY <1>2 DEF process_event, FinalAttempt
  <2>2. left \in Payload /\ left.force = x.payload.force
    BY <1>1 DEF Payload
  <2>3. why \in ErrorMessage /\ why # NoError /\ (why = ForcedError => x.payload.force)
    BY <1>0, <1>1, <1>2 DEF ErrorMessage, Raises, TransientError, ForcedError
  <2> HIDE DEF left, why
  <2>4. obj \in Event
    BY <1>1, <2>1, <2>2, <2>3 DEF Event, ProcessingStatus
  <2>5. obj.attempts = x.attempts + 1 /\ obj.status = FAILED /\ obj.error = why /\ obj.payload = left
    BY <2>1
  <2> QED  BY <1>2, <2>2, <2>3, <2>4, <2>5
<1>3. CASE ~Raises(x)
  <2>1. obj =
           [status |-> PROCESSED, attempts |-> x.attempts + 1, processed_at |-> TRUE,
            error |-> NoError, payload |-> x.payload]
    BY <1>3 DEF process_event
  <2>2. obj \in Event
    BY <1>1, <2>1 DEF Event, ProcessingStatus, ErrorMessage
  <2>3. /\ obj.attempts = x.attempts + 1 /\ obj.status = PROCESSED /\ obj.error = NoError
        /\ obj.payload = x.payload
    BY <2>1
  <2> QED  BY <1>0, <1>3, <2>2, <2>3
<1> QED  BY <1>2, <1>3

\* commit writes the columns the attempt changed, onto whatever the row is by then.
\* The row stays consistent, as do the other copies with it.
LEMMA CommitColumns ==
    ASSUME NEW row \in Event, NEW x \in Event, Consistent(row), Consistent(x),
           Behind(x, row), Related(x, row), Related(row, x)
    PROVE  LET new == commit(row, x, process_event(x, FinalAttempt)) IN
           /\ new \in Event
           /\ Consistent(new)
           /\ new.attempts > 0
           /\ new.payload.force = row.payload.force
           /\ new.status # PENDING
           /\ ~Raises(x) /\ ~Raises(row) => ~Raises(new)
           /\ ~Raises(x) /\ row.error = NoError => new.error = NoError
<1> DEFINE obj == process_event(x, FinalAttempt)
           new == commit(row, x, obj)
<1>1. /\ obj \in Event
      /\ obj.attempts = x.attempts + 1
      /\ obj.payload.force = x.payload.force
      /\ ~Raises(x) => obj.status = PROCESSED /\ obj.error = NoError /\ obj.payload = x.payload
      /\ Raises(x) => obj.status = FAILED /\ obj.error # NoError
      /\ obj.error = ForcedError => x.payload.force
  BY Attempt
<1> HIDE DEF obj
<1>2. /\ new.status = IF obj.status = x.status THEN row.status ELSE obj.status
      /\ new.attempts = obj.attempts
      /\ new.error = IF obj.error = x.error THEN row.error ELSE obj.error
      /\ new.payload = IF obj.payload = x.payload THEN row.payload ELSE obj.payload
  BY <1>1 DEF commit, Column, Event
<1>3. new \in Event
  BY <1>1 DEF commit, Column, Event
<1>4. x.attempts \in Nat /\ row.attempts \in Nat /\ new.attempts > 0
  BY <1>1, <1>2 DEF Event
<1>5. new.payload.force = row.payload.force
  BY <1>1, <1>2 DEF Related
<1>6. new.status # PENDING
  BY <1>1, <1>2, <1>4 DEF Consistent, Behind, PENDING, PROCESSED, FAILED
<1>7. new.status = FAILED <=> new.error # NoError
  <2>1. CASE Raises(x)
    <3>1. CASE x.status = FAILED
      \* Only the error may change, and only where the failure is forced.
      <4>1. new.status = row.status
        BY <1>1, <1>2, <2>1, <3>1
      <4>2. CASE obj.error = x.error
        BY <1>2, <4>1, <4>2 DEF Consistent
      <4>3. CASE obj.error # x.error
        <5>1. x.error # NoError /\ obj.error # NoError
          BY <1>1, <2>1, <3>1 DEF Consistent
        <5>2. x.error = ForcedError \/ obj.error = ForcedError
          BY <1>1, <4>3, <5>1 DEF Event, ErrorMessage
        <5>3. row.payload.force
          BY <1>1, <5>2 DEF Consistent, Related
        <5>4. row.status = FAILED \/ row.status = PENDING
          BY <5>3 DEF Consistent, Event, ProcessingStatus
        <5> QED  BY <1>2, <1>6, <4>1, <4>3, <5>1, <5>4
      <4> QED  BY <4>2, <4>3
    <3>2. CASE x.status # FAILED
      BY <1>1, <1>2, <2>1, <3>2 DEF Consistent
    <3> QED  BY <3>1, <3>2
  <2>2. CASE ~Raises(x)
    <3>1. PROCESSED # FAILED /\ PROCESSED # PENDING
      BY DEF PROCESSED, FAILED, PENDING
    <3>2. CASE x.status = PENDING
      BY <1>1, <1>2, <2>2, <3>1, <3>2 DEF Consistent, Related, PENDING, FAILED
    <3>3. CASE x.status = PROCESSED
      BY <1>1, <1>2, <2>2, <3>1, <3>3 DEF Consistent
    <3>4. CASE x.status = FAILED
      BY <1>1, <1>2, <2>2, <3>1, <3>4 DEF Consistent
    <3> QED  BY <3>2, <3>3, <3>4 DEF Event, ProcessingStatus
  <2> QED  BY <2>1, <2>2
<1>8. new.status = PROCESSED => ~new.payload.force
  BY <1>1, <1>2, <1>5 DEF Consistent, Related, Raises, PROCESSED, FAILED
<1>9. new.error = ForcedError => new.payload.force
  BY <1>1, <1>2, <1>5 DEF Consistent, Related
<1>10. Consistent(new)
  BY <1>4, <1>6, <1>7, <1>8, <1>9 DEF Consistent
<1>11. ~Raises(x) /\ ~Raises(row) => ~Raises(new)
  BY <1>1, <1>2 DEF Raises
<1>12. ~Raises(x) /\ row.error = NoError => new.error = NoError
  BY <1>1, <1>2
<1> QED  BY <1>3, <1>4, <1>5, <1>6, <1>10, <1>11, <1>12 DEF obj

-----------------------------------------------------------------------------
(* Each action keeps the invariant *)

LEMMA InitIInv == Init => IInv
<1> SUFFICES ASSUME Init PROVE IInv
  OBVIOUS
<1>1. Idle \in TaskState /\ Idle.pc = "idle"
  BY TaskStates
<1>2. Stored = {} /\ \A t \in Tasks : task[t] = Idle
  BY DEF Init, Stored
<1>3. rows \in [Events -> Event \cup {NoRow}] /\ task \in [Tasks -> TaskState]
  BY <1>1 DEF Init
<1> QED  BY <1>1, <1>2, <1>3 DEF IInv, TypeInv, Versions

\* Steps that leave the table alone: tasks start, load their row, or end.
LEMMA TasksMove ==
    ASSUME IInv, rows' = rows, task' \in [Tasks -> TaskState],
           \A t \in Tasks :
              \/ task'[t] = task[t]
              \/ task'[t].pc = "idle"
              \/ task'[t].pc = "start" /\ task'[t].event \in Stored
              \/ /\ task'[t].pc = "loaded" /\ task'[t].event \in Stored
                 /\ task'[t].loaded = rows[task'[t].event]
    PROVE  IInv'
<1>1. TypeInv /\ Versions
  BY DEF IInv
<1>2. Stored' = Stored
  BY DEF Stored
<1>3. TypeInv'
  BY <1>1, <1>2 DEF TypeInv
<1>4. ASSUME NEW e \in Stored
      PROVE  /\ Consistent(rows[e])
             /\ rows[e] \in Event
             /\ Related(rows[e], rows[e]) /\ Behind(rows[e], rows[e])
  BY <1>1, RelatedToItself DEF Versions, TypeInv, Stored
<1>5. ASSUME NEW e \in Stored, NEW t \in Loaded(e)'
      PROVE  \/ t \in Loaded(e) /\ task'[t].loaded = task[t].loaded
             \/ task'[t].loaded = rows[e]
  BY <1>5 DEF Loaded
<1>6. ASSUME NEW e \in Stored, NEW t \in Loaded(e)'
      PROVE  /\ Consistent(task'[t].loaded)
             /\ Behind(task'[t].loaded, rows[e])
             /\ Related(task'[t].loaded, rows[e]) /\ Related(rows[e], task'[t].loaded)
             /\ \A u \in Loaded(e)' : Related(task'[t].loaded, task'[u].loaded)
  BY <1>1, <1>4, <1>5, <1>6 DEF Versions
<1>7. Versions'
  BY <1>2, <1>4, <1>6 DEF Versions
<1> QED  BY <1>3, <1>7 DEF IInv

\* A row that did not exist is referred to by no task.
LEMMA RowIsCreated ==
    ASSUME IInv, NEW e \in Events, NEW payload \in Payloads, rows[e] = NoRow,
           rows' = [rows EXCEPT ![e] = create_event(payload)], task' \in [Tasks -> TaskState],
           \A t \in Tasks :
              \/ task'[t] = task[t]
              \/ task'[t].pc = "start" /\ task'[t].event = e
    PROVE  IInv'
<1>1. TypeInv /\ Versions
  BY DEF IInv
<1>2. create_event(payload) \in Event /\ Consistent(create_event(payload))
  BY CreatedIsConsistent, InlineAssumption
<1>3. /\ rows' \in [Events -> Event \cup {NoRow}]
      /\ rows'[e] = create_event(payload)
      /\ \A f \in Events \ {e} : rows'[f] = rows[f]
  BY <1>1, <1>2 DEF TypeInv
<1>4. Stored' = Stored \cup {e} /\ e \notin Stored
  BY <1>2, <1>3, RowIsNoNoRow DEF Stored
<1>5. TypeInv'
  BY <1>1, <1>3, <1>4 DEF TypeInv
<1>6. \A f \in Events : \A t \in Loaded(f)' : t \in Loaded(f) /\ task'[t] = task[t]
  BY DEF Loaded
<1>7. Loaded(e)' = {}
  BY <1>1, <1>4, <1>6 DEF TypeInv, Loaded
<1>8. ASSUME NEW f \in Stored' PROVE
         /\ Consistent(rows'[f])
         /\ \A t \in Loaded(f)' :
               /\ Consistent(task'[t].loaded)
               /\ Behind(task'[t].loaded, rows'[f])
               /\ Related(task'[t].loaded, rows'[f]) /\ Related(rows'[f], task'[t].loaded)
               /\ \A u \in Loaded(f)' : Related(task'[t].loaded, task'[u].loaded)
  <2>1. CASE f = e
    BY <1>2, <1>3, <1>7, <2>1
  <2>2. CASE f # e
    <3>1. f \in Stored /\ f \in Events /\ rows'[f] = rows[f]
      BY <1>3, <1>4, <1>8, <2>2 DEF Stored
    <3>2. \A t \in Loaded(f)' : t \in Loaded(f) /\ task'[t] = task[t]
      BY <1>6, <3>1
    <3> QED  BY <1>1, <3>1, <3>2 DEF Versions
  <2> QED  BY <2>1, <2>2
<1>9. Versions'
  BY <1>8 DEF Versions
<1> QED  BY <1>5, <1>9 DEF IInv

LEMMA ReceiveStep ==
    ASSUME IInv, NEW e \in Events, NEW payload \in Payloads,
           ReceiveFails(e, payload) \/ \E t \in Tasks : receive_webhook(e, payload, t)
    PROVE  IInv'
<1>1. rows[e] = NoRow /\ rows' = [rows EXCEPT ![e] = create_event(payload)]
  BY DEF ReceiveFails, receive_webhook
<1>2. task \in [Tasks -> TaskState]
  BY DEF IInv, TypeInv
<1>3. CASE ReceiveFails(e, payload)
  <2>1. task' = task
    BY <1>3 DEF ReceiveFails
  <2> QED  BY <1>1, <1>2, <2>1, RowIsCreated
<1>4. ASSUME NEW t \in Tasks, receive_webhook(e, payload, t) PROVE IInv'
  <2>1. task' = [task EXCEPT ![t] = [pc |-> "start", event |-> e]]
    BY <1>4 DEF receive_webhook, add_task, Goto
  <2>2. task' \in [Tasks -> TaskState]
    BY <1>2, <2>1, TaskStates
  <2>3. \A u \in Tasks : task'[u] = task[u] \/ (task'[u].pc = "start" /\ task'[u].event = e)
    BY <1>2, <2>1
  <2> QED  BY <1>1, <2>2, <2>3, RowIsCreated
<1> QED  BY <1>3, <1>4

LEMMA RetryStep ==
    ASSUME IInv, NEW e \in Events, NEW t \in Tasks, retry_event(e, t)
    PROVE  IInv'
<1>1. e \in Stored /\ rows' = rows /\ task' = [task EXCEPT ![t] = [pc |-> "start", event |-> e]]
  BY DEF retry_event, add_task, Goto
<1>2. task' \in [Tasks -> TaskState]
  BY <1>1, TaskStates DEF IInv, TypeInv
<1>3. \A u \in Tasks : task'[u] = task[u] \/ (task'[u].pc = "start" /\ task'[u].event \in Stored)
  BY <1>1 DEF IInv, TypeInv
<1> QED  BY <1>1, <1>2, <1>3, TasksMove

LEMMA LoadStep ==
    ASSUME IInv, NEW t \in Tasks, LoadEvent(t)
    PROVE  IInv'
<1> DEFINE e == task[t].event
<1>1. /\ rows' = rows
      /\ task' = [task EXCEPT ![t] = [pc |-> "loaded", event |-> e, loaded |-> rows[e]]]
  BY DEF LoadEvent, Goto
<1>2. e \in Stored /\ e \in Events /\ rows[e] \in Event
  BY DEF LoadEvent, IInv, TypeInv, Stored
<1>3. [pc |-> "loaded", event |-> e, loaded |-> rows[e]] \in TaskState
  BY <1>2, TaskStates
<1> HIDE DEF e
<1>4. task' \in [Tasks -> TaskState]
  BY <1>1, <1>3 DEF IInv, TypeInv
<1>5. \A u \in Tasks :
         \/ task'[u] = task[u]
         \/ /\ task'[u].pc = "loaded" /\ task'[u].event \in Stored
            /\ task'[u].loaded = rows[task'[u].event]
  BY <1>1, <1>2 DEF IInv, TypeInv
<1> QED  BY <1>1, <1>4, <1>5, TasksMove

LEMMA TasksEnd ==
    ASSUME IInv, (\E t \in Tasks : TaskFails(t)) \/ ApiRestart
    PROVE  IInv'
<1>1. Idle \in TaskState /\ Idle.pc = "idle" /\ task \in [Tasks -> TaskState]
  BY TaskStates DEF IInv, TypeInv
<1>2. rows' = rows /\ task' \in [Tasks -> TaskState]
  BY <1>1 DEF TaskFails, ApiRestart, Goto
<1>3. \A u \in Tasks : task'[u] = task[u] \/ task'[u].pc = "idle"
  BY <1>1 DEF TaskFails, ApiRestart, Goto
<1> QED  BY <1>2, <1>3, TasksMove

\* The commit of one task: the row changes under the copies the others have loaded.
LEMMA CommitStep ==
    ASSUME IInv, NEW t \in Tasks, CommitAttempt(t)
    PROVE  IInv'
<1> DEFINE e   == task[t].event
           x   == task[t].loaded
           new == commit(rows[e], x, process_event(x, FinalAttempt))
<1>1. /\ task[t].pc = "loaded" /\ rows' = [rows EXCEPT ![e] = new]
      /\ task' = [task EXCEPT ![t] = Idle]
  BY DEF CommitAttempt, Goto
<1>2. TypeInv /\ Versions
  BY DEF IInv
<1>3. e \in Stored /\ e \in Events /\ rows[e] \in Event /\ x \in Event /\ t \in Loaded(e)
  BY <1>1, <1>2, TaskStates DEF TypeInv, Stored, Loaded
<1>4. /\ Consistent(rows[e]) /\ Consistent(x)
      /\ Behind(x, rows[e]) /\ Related(x, rows[e]) /\ Related(rows[e], x)
      /\ \A u \in Loaded(e) : Related(task[u].loaded, x)
  BY <1>2, <1>3 DEF Versions
<1>5. /\ new \in Event
      /\ Consistent(new)
      /\ new.attempts > 0
      /\ new.payload.force = rows[e].payload.force
      /\ new.status # PENDING
      /\ ~Raises(x) /\ ~Raises(rows[e]) => ~Raises(new)
      /\ ~Raises(x) /\ rows[e].error = NoError => new.error = NoError
  BY <1>3, <1>4, CommitColumns
<1> HIDE DEF new, e, x
<1>6. /\ \A f \in Events \ {e} : rows'[f] = rows[f]
      /\ rows'[e] = new /\ rows' \in [Events -> Event \cup {NoRow}]
  BY <1>1, <1>2, <1>3, <1>5 DEF TypeInv
<1>7. Stored' = Stored
  BY <1>3, <1>5, <1>6, RowIsNoNoRow DEF Stored
<1>8. /\ task' \in [Tasks -> TaskState] /\ task'[t].pc = "idle"
      /\ \A u \in Tasks \ {t} : task'[u] = task[u]
  BY <1>1, <1>2, TaskStates DEF TypeInv
<1>9. TypeInv'
  BY <1>2, <1>6, <1>7, <1>8 DEF TypeInv
<1>10. \A f \in Events : \A u \in Loaded(f)' : u \in Loaded(f) /\ task'[u] = task[u]
  BY <1>8 DEF Loaded
<1>11. ASSUME NEW u \in Loaded(e)
       PROVE  /\ Behind(task[u].loaded, new)
              /\ Related(task[u].loaded, new) /\ Related(new, task[u].loaded)
  <2>1. Related(task[u].loaded, rows[e]) /\ Related(task[u].loaded, x)
    BY <1>2, <1>3, <1>4 DEF Versions
  <2> QED  BY <1>5, <2>1 DEF Behind, Related
<1>12. ASSUME NEW f \in Stored' PROVE
         /\ Consistent(rows'[f])
         /\ \A u \in Loaded(f)' :
               /\ Consistent(task'[u].loaded)
               /\ Behind(task'[u].loaded, rows'[f])
               /\ Related(task'[u].loaded, rows'[f]) /\ Related(rows'[f], task'[u].loaded)
               /\ \A v \in Loaded(f)' : Related(task'[u].loaded, task'[v].loaded)
  <2>1. f \in Stored /\ f \in Events
    BY <1>7, <1>12 DEF Stored
  <2>2. CASE f = e
    BY <1>2, <1>5, <1>6, <1>10, <1>11, <2>1, <2>2 DEF Versions
  <2>3. CASE f # e
    BY <1>2, <1>6, <1>10, <2>1, <2>3 DEF Versions
  <2> QED  BY <2>2, <2>3
<1>13. Versions'
  BY <1>12 DEF Versions
<1> QED  BY <1>9, <1>13 DEF IInv

LEMMA NextIInv == IInv /\ [Next]_vars => IInv'
<1> SUFFICES ASSUME IInv, [Next]_vars PROVE IInv'
  OBVIOUS
<1>1. ASSUME NEW e \in Events, NEW payload \in Payloads,
             ReceiveFails(e, payload) \/ \E t \in Tasks : receive_webhook(e, payload, t)
      PROVE  IInv'
  BY <1>1, ReceiveStep
<1>2. ASSUME NEW e \in Events, NEW t \in Tasks, retry_event(e, t) PROVE IInv'
  BY <1>2, RetryStep
<1>3. ASSUME NEW t \in Tasks, RunTask(t) PROVE IInv'
  BY <1>3, LoadStep, CommitStep DEF RunTask
<1>4. CASE (\E t \in Tasks : TaskFails(t)) \/ ApiRestart
  BY <1>4, TasksEnd
<1>5. CASE UNCHANGED vars
  BY <1>5 DEF vars, IInv, TypeInv, Versions, Stored, Loaded
<1> QED  BY <1>1, <1>2, <1>3, <1>4, <1>5 DEF Next

THEOREM InlineInvariant == Spec => []IInv
BY InitIInv, NextIInv, PTL DEF Spec

\* With the inline backend a row is pending exactly until its first attempt, however
\* the commits of tasks that loaded different versions of it overwrite each other.
THEOREM PendingMeansUnattempted == Spec => []PendingIsUnattempted
<1>1. IInv => PendingIsUnattempted
  BY DEF IInv, Versions, Consistent, PendingIsUnattempted
<1> QED  BY <1>1, InlineInvariant, PTL

\* A failed row of the inline backend has its error_message, although commit writes
\* the two columns each on its own condition.
THEOREM FailureHasReason == Spec => []FailedHasError
<1>1. IInv => FailedHasError
  BY DEF IInv, Versions, Consistent, FailedHasError
<1> QED  BY <1>1, InlineInvariant, PTL

=============================================================================
