-------------------------- MODULE OneWorkerProofs ---------------------------
(***************************************************************************)
(* With one worker, the deployment of docker-compose.yml, Delivery         *)
(* implements EventLifecycle, the row of an event tells the truth about it *)
(* and a passed smoke check is evidence, for every value of the other      *)
(* constants.                                                              *)
(***************************************************************************)
EXTENDS DeliveryProofs, SmokeCheck

OneWorker == \A v, w \in Workers : v = w

\* A row is created once, by the request it belongs to, before any attempt.
CreatedOnce ==
    \A e \in Events : intake[e] = "new" => rows[e] = NoRow /\ e \notin succeeded

\* The table changes under the worker between its load and its commit only by
\* mark_events_pending, and any number of those amounts to one.
LoadedIsCurrent ==
    \A w \in Workers :
        worker[w].pc = "loaded" =>
            rows[worker[w].envelope.event] \in {worker[w].loaded, mark_pending(worker[w].loaded)}

OneWorkerInv == IInv /\ CreatedOnce /\ LoadedIsCurrent /\ SuccessIsKept

-----------------------------------------------------------------------------
(* The row operations *)

\* A second mark_events_pending changes nothing.
LEMMA MarkPendingTwice ==
    ASSUME NEW row \in Event
    PROVE  mark_pending(mark_pending(row)) = mark_pending(row)
BY DEF mark_pending, PENDING, PROCESSED

\* mark_events_pending keeps attempts, payload and every processed row.
LEMMA MarkPendingKeeps ==
    ASSUME NEW row \in Event
    PROVE  /\ mark_pending(row).attempts = row.attempts
           /\ mark_pending(row).payload = row.payload
           /\ Raises(mark_pending(row)) <=> Raises(row)
           /\ row.status = PROCESSED => mark_pending(row) = row
           /\ row.status # PROCESSED => /\ mark_pending(row).status = PENDING
                                        /\ ~mark_pending(row).processed_at
                                        /\ mark_pending(row).error = NoError
BY DEF mark_pending, Raises

\* The commit of a successful attempt, on a row that has at most been marked
\* pending since it was loaded, makes the row processed and counts the attempt.
LEMMA CommitSuccess ==
    ASSUME NEW loaded \in Event, NEW final \in BOOLEAN, ~Raises(loaded),
           NEW row \in {loaded, mark_pending(loaded)}
    PROVE  LET new == commit(row, loaded, process_event(loaded, final))
           IN  /\ new.status = PROCESSED
               /\ new.processed_at
               /\ new.error = NoError
               /\ ~Raises(new)
               /\ new.attempts = row.attempts + 1
<1>1. loaded.attempts \in Nat /\ loaded.attempts + 1 # loaded.attempts
  BY DEF Event
<1>2. /\ row.attempts = loaded.attempts
      /\ row.payload = loaded.payload
      /\ loaded.status = PROCESSED => row = loaded
      /\ row = loaded \/ row.error = NoError
  BY MarkPendingKeeps
<1> QED  BY <1>1, <1>2 DEF commit, Column, process_event, Raises

\* The commit of a failed attempt on such a row leaves it unprocessed and counts
\* the attempt.
LEMMA CommitFailure ==
    ASSUME NEW loaded \in Event, NEW final \in BOOLEAN, Raises(loaded),
           NEW row \in {loaded, mark_pending(loaded)},
           row.status # PROCESSED, ~row.processed_at
    PROVE  LET new == commit(row, loaded, process_event(loaded, final))
           IN  /\ new.status # PROCESSED
               /\ ~new.processed_at
               /\ new.attempts = row.attempts + 1
<1>1. loaded.attempts \in Nat /\ loaded.attempts + 1 # loaded.attempts
  BY DEF Event
<1>2. row.attempts = loaded.attempts
  BY MarkPendingKeeps
<1>3. process_event(loaded, final).status # PROCESSED
  BY DEF process_event, PENDING, PROCESSED, FAILED
<1>4. /\ process_event(loaded, final).attempts = loaded.attempts + 1
      /\ process_event(loaded, final).processed_at = FALSE
  BY DEF process_event
<1>5. row.processed_at = FALSE
  BY MarkPendingType DEF Event
<1> QED  BY <1>1, <1>2, <1>3, <1>4, <1>5 DEF commit, Column

-----------------------------------------------------------------------------
(* Steps that leave the table alone *)

\* The table and what workers have loaded stay as they are.
Quiet ==
    /\ UNCHANGED <<rows, succeeded>>
    /\ \A e \in Events : intake'[e] = "new" => intake[e] = "new"
    /\ \A w \in Workers : worker'[w].pc = "loaded" =>
          /\ worker[w].pc = "loaded"
          /\ worker'[w].envelope = worker[w].envelope
          /\ worker'[w].loaded = worker[w].loaded

\* Only the creation of an event, a worker's load and commit and the reset of
\* redriven rows are not quiet.
LEMMA QuietOrNot ==
    ASSUME IInv, [Next]_vars
    PROVE  \/ \E e \in Events, payload \in Payloads : CreateEvent(e, payload)
           \/ \E w \in Workers : LoadEvent(w) \/ CommitAttempt(w)
           \/ \E o \in Operators : mark_events_pending(o)
           \/ Quiet
<1>1. worker \in [Workers -> WorkerState] /\ intake \in [Events -> IntakeState]
  BY DEF IInv, TypeOK
<1>2. ASSUME NEW e \in Events, EnqueueCreated(e) \/ EnqueueFails(e)
      PROVE  Quiet
  BY <1>1, <1>2 DEF EnqueueCreated, EnqueueFails, Quiet
<1>3. ASSUME NEW w \in Workers,
             \/ \E p \in QueuePayload : dequeue_event(w, p)
             \/ complete_event(w) \/ PublishFailed(w) \/ AckRouted(w) \/ WorkerRestart(w)
      PROVE  Quiet
  BY <1>1, <1>3
  DEF dequeue_event, complete_event, PublishFailed, AckRouted, WorkerRestart, Quiet
<1>4. ASSUME NEW w \in Workers, WorkerConnectionLost(w)
      PROVE  Quiet
  <2> DEFINE t == [worker[w] EXCEPT !.owned = FALSE]
  <2>1. /\ t.pc = worker[w].pc /\ t.envelope = worker[w].envelope
        /\ worker[w].pc = "loaded" => t.loaded = worker[w].loaded
    BY <1>1, <1>4, WorkerFields DEF WorkerConnectionLost
  <2>2. worker' = [worker EXCEPT ![w] = t]
    BY <1>4 DEF WorkerConnectionLost
  <2> HIDE DEF t
  <2>3. UNCHANGED <<rows, intake, succeeded>>
    BY <1>4 DEF WorkerConnectionLost
  <2> QED  BY <1>1, <2>1, <2>2, <2>3 DEF Quiet
<1>5. ASSUME NEW o \in Operators,
             \/ \E e \in Events : RetryEvent(o, e)
             \/ EnqueueRetry(o)
             \/ \E limit \in Limits : RedriveDlq(o, limit)
             \/ \E p \in QueuePayload : RedriveGet(o, p)
             \/ RedriveLoopEnds(o) \/ RedrivePublish(o) \/ RedriveAck(o) \/ OperatorFails(o)
      PROVE  Quiet
  BY <1>5 DEF RetryEvent, EnqueueRetry, RedriveDlq, RedriveGet, RedriveLoopEnds,
              RedrivePublish, RedriveAck, OperatorFails, Quiet
<1>6. ASSUME (\E p \in QueuePayload : RetryDelayExpires(p)) \/ UNCHANGED vars
      PROVE  Quiet
  BY <1>6 DEF RetryDelayExpires, vars, Quiet
<1>7. ASSUME ApiRestart \/ ApiConnectionLost
      PROVE  Quiet
  BY <1>1, <1>7 DEF ApiRestart, ApiConnectionLost, Quiet
<1> QED  BY <1>2, <1>3, <1>4, <1>5, <1>6, <1>7 DEF Next, AfterHandOver, run_worker, RedriveStep

-----------------------------------------------------------------------------
(* The inductive invariant *)

\* The empty table satisfies it.
LEMMA InitOneWorker == Init => OneWorkerInv
<1> SUFFICES ASSUME Init PROVE OneWorkerInv
  OBVIOUS
<1>1. CreatedOnce /\ LoadedIsCurrent
  BY DEF Init, CreatedOnce, LoadedIsCurrent
<1>2. SuccessIsKept
  BY DEF Init, SuccessIsKept, Stored
<1> QED  BY <1>1, <1>2, InitIInv DEF OneWorkerInv

\* A new row replaces none: no worker has loaded it and no attempt has succeeded.
LEMMA CreateEventOneWorker ==
    ASSUME OneWorkerInv, NEW e \in Events, NEW payload \in Payloads, CreateEvent(e, payload)
    PROVE  CreatedOnce' /\ LoadedIsCurrent' /\ SuccessIsKept'
<1>1. rows[e] = NoRow /\ e \notin Stored
  BY DEF OneWorkerInv, CreatedOnce, CreateEvent, Stored
<1>2. \A f \in Events : rows'[f] = IF f = e THEN create_event(payload) ELSE rows[f]
  BY DEF CreateEvent, OneWorkerInv, IInv, TypeOK
<1>3. CreatedOnce'
  BY <1>2 DEF CreateEvent, CreatedOnce, OneWorkerInv, IInv, TypeOK
<1>4. LoadedIsCurrent'
  <2>1. \A w \in Workers : worker[w].pc = "loaded" =>
           worker[w].envelope.event \in Events /\ worker[w].envelope.event # e
    BY <1>1 DEF OneWorkerInv, IInv, Referenced, Stored
  <2> QED  BY <1>2, <2>1 DEF CreateEvent, LoadedIsCurrent, OneWorkerInv
<1>5. e \notin succeeded
  BY DEF OneWorkerInv, CreatedOnce, CreateEvent
<1>6. SuccessIsKept'
  BY <1>2, <1>5 DEF CreateEvent, create_event, SuccessIsKept, OneWorkerInv, Stored,
                    PENDING, PROCESSED
<1> QED  BY <1>3, <1>4, <1>6

\* The worker loads the row as it is.
LEMMA LoadEventOneWorker ==
    ASSUME OneWorkerInv, NEW w \in Workers, LoadEvent(w)
    PROVE  CreatedOnce' /\ LoadedIsCurrent' /\ SuccessIsKept'
<1>1. \A v \in Workers :
         worker'[v] = IF v = w
                      THEN [pc |-> "loaded", envelope |-> worker[w].envelope,
                            owned |-> worker[w].owned,
                            loaded |-> rows[worker[w].envelope.event]]
                      ELSE worker[v]
  BY DEF LoadEvent, OneWorkerInv, IInv, TypeOK
<1>2. UNCHANGED <<rows, intake, succeeded>>
  BY DEF LoadEvent
<1>3. LoadedIsCurrent'
  BY <1>1, <1>2 DEF LoadedIsCurrent, OneWorkerInv
<1>4. CreatedOnce' /\ SuccessIsKept'
  BY <1>2 DEF CreatedOnce, SuccessIsKept, OneWorkerInv, Stored
<1> QED  BY <1>3, <1>4

\* What the commit of the only worker does to the row: it counts the attempt, and
\* it takes back no earlier success.
LEMMA CommitOnRow ==
    ASSUME OneWorkerInv, NEW w \in Workers, CommitAttempt(w)
    PROVE  LET e == worker[w].envelope.event
           IN  /\ e \in Stored /\ e \in Events /\ rows[e] \in Event
               /\ rows'[e] \in Event
               /\ \A f \in Events \ {e} : rows'[f] = rows[f]
               /\ rows'[e].attempts = rows[e].attempts + 1
               /\ rows[e].status = PROCESSED => rows'[e].status = PROCESSED
               /\ succeeded' \in {succeeded, succeeded \cup {e}}
               /\ IF e \in succeeded'
                  THEN /\ rows'[e].status = PROCESSED
                       /\ rows'[e].processed_at
                       /\ rows'[e].error = NoError
                       /\ ~Raises(rows'[e])
                  ELSE /\ rows'[e].status # PROCESSED
                       /\ ~rows'[e].processed_at
<1> DEFINE s     == worker[w]
           e     == s.envelope.event
           final == FinalAttempt(s.envelope)
           new   == commit(rows[e], s.loaded, process_event(s.loaded, final))
<1>1. s \in WorkerState /\ s.pc = "loaded"
  BY DEF OneWorkerInv, IInv, TypeOK, CommitAttempt
<1>2. s.loaded \in Event /\ final \in BOOLEAN
  <2>1. s.loaded \in Event
    BY <1>1, WorkerFields
  <2>2. final \in BOOLEAN
    BY DEF FinalAttempt
  <2> QED  BY <2>1, <2>2
<1>3. e \in Stored /\ e \in Events /\ rows[e] \in Event
  BY <1>1 DEF OneWorkerInv, IInv, Referenced, Stored, TypeOK
<1>4. rows[e] \in {s.loaded, mark_pending(s.loaded)}
  BY <1>1 DEF OneWorkerInv, LoadedIsCurrent
<1>5. rows' = [rows EXCEPT ![e] = new]
  BY DEF CommitAttempt
<1>6. new \in Event
  <2>1. process_event(s.loaded, final) \in Event
    BY <1>2, ProcessEventType
  <2> QED  BY <1>2, <1>3, <2>1, CommitType
<1>7. rows'[e] = new /\ \A f \in Events \ {e} : rows'[f] = rows[f]
  BY <1>3, <1>5 DEF OneWorkerInv, IInv, TypeOK
<1>8. succeeded' = IF Raises(s.loaded) THEN succeeded ELSE succeeded \cup {e}
  BY DEF CommitAttempt
<1>9. CASE ~Raises(s.loaded)
  <2>1. /\ new.status = PROCESSED
        /\ new.processed_at
        /\ new.error = NoError
        /\ ~Raises(new)
        /\ new.attempts = rows[e].attempts + 1
    BY <1>2, <1>4, <1>9, CommitSuccess
  <2> QED  BY <1>3, <1>6, <1>7, <1>8, <1>9, <2>1
<1>10. CASE Raises(s.loaded)
  <2>1. Raises(rows[e])
    BY <1>2, <1>4, <1>10, MarkPendingKeeps
  <2>2. e \notin succeeded /\ rows[e].status # PROCESSED /\ ~rows[e].processed_at
    BY <1>3, <2>1 DEF OneWorkerInv, SuccessIsKept
  <2>3. /\ new.status # PROCESSED
        /\ ~new.processed_at
        /\ new.attempts = rows[e].attempts + 1
    BY <1>2, <1>4, <1>10, <2>2, CommitFailure
  <2> QED  BY <1>3, <1>6, <1>7, <1>8, <1>10, <2>2, <2>3
<1> QED  BY <1>9, <1>10

\* The commit leaves no loaded row behind: there is no other worker.
LEMMA CommitAttemptOneWorker ==
    ASSUME OneWorker, OneWorkerInv, NEW w \in Workers, CommitAttempt(w)
    PROVE  CreatedOnce' /\ LoadedIsCurrent' /\ SuccessIsKept'
<1> DEFINE e == worker[w].envelope.event
<1>1. /\ e \in Stored /\ e \in Events
      /\ rows'[e] \in Event
      /\ \A f \in Events \ {e} : rows'[f] = rows[f]
      /\ succeeded' \in {succeeded, succeeded \cup {e}}
      /\ IF e \in succeeded'
         THEN /\ rows'[e].status = PROCESSED
              /\ rows'[e].processed_at
              /\ rows'[e].error = NoError
              /\ ~Raises(rows'[e])
         ELSE /\ rows'[e].status # PROCESSED
              /\ ~rows'[e].processed_at
  BY CommitOnRow
<1>2. intake' = intake
  BY DEF CommitAttempt
<1>3. intake[e] # "new"
  BY <1>1 DEF OneWorkerInv, CreatedOnce, Stored
<1>4. CreatedOnce'
  BY <1>1, <1>2, <1>3 DEF OneWorkerInv, CreatedOnce
<1>5. LoadedIsCurrent'
  <2>1. worker'[w].pc # "loaded"
    BY DEF CommitAttempt, OneWorkerInv, IInv, TypeOK
  <2> QED  BY <2>1 DEF LoadedIsCurrent, OneWorker
<1>6. SuccessIsKept'
  <2> SUFFICES ASSUME NEW f \in Events, f \in Stored'
               PROVE  IF f \in succeeded'
                      THEN /\ rows'[f].status = PROCESSED
                           /\ rows'[f].processed_at
                           /\ rows'[f].error = NoError
                           /\ ~Raises(rows'[f])
                      ELSE /\ rows'[f].status # PROCESSED
                           /\ ~rows'[f].processed_at
    BY DEF SuccessIsKept, Raises, Stored
  <2>1. CASE f = e
    BY <1>1, <2>1
  <2>2. CASE f # e
    <3>1. rows'[f] = rows[f] /\ f \in Stored /\ (f \in succeeded' <=> f \in succeeded)
      BY <1>1, <2>2 DEF Stored
    <3> QED  BY <3>1 DEF OneWorkerInv, SuccessIsKept
  <2> QED  BY <2>1, <2>2
<1> QED  BY <1>4, <1>5, <1>6

\* The reset of redriven rows keeps the processed ones.
LEMMA MarkOneWorker ==
    ASSUME OneWorkerInv, NEW o \in Operators, mark_events_pending(o)
    PROVE  CreatedOnce' /\ LoadedIsCurrent' /\ SuccessIsKept'
<1> DEFINE batch == operator[o].redriven
<1>1. batch \subseteq Stored
  BY DEF mark_events_pending, OneWorkerInv, IInv, Referenced
<1>2. \A e \in Events : rows'[e] = IF e \in batch THEN mark_pending(rows[e]) ELSE rows[e]
  BY DEF mark_events_pending
<1>3. \A e \in Stored : rows[e] \in Event
  BY DEF Stored, OneWorkerInv, IInv, TypeOK
<1>4. UNCHANGED <<intake, worker, succeeded>>
  BY DEF mark_events_pending
<1>5. CreatedOnce'
  BY <1>1, <1>2, <1>4 DEF OneWorkerInv, CreatedOnce, Stored
<1>6. LoadedIsCurrent'
  <2> SUFFICES ASSUME NEW w \in Workers, worker[w].pc = "loaded"
               PROVE  rows'[worker[w].envelope.event]
                         \in {worker[w].loaded, mark_pending(worker[w].loaded)}
    BY <1>4 DEF LoadedIsCurrent
  <2> DEFINE e      == worker[w].envelope.event
             loaded == worker[w].loaded
  <2>1. loaded \in Event
    BY WorkerFields DEF OneWorkerInv, IInv, TypeOK
  <2>2. e \in Events /\ rows[e] \in {loaded, mark_pending(loaded)}
    BY DEF OneWorkerInv, IInv, Referenced, Stored, LoadedIsCurrent
  <2>3. mark_pending(mark_pending(loaded)) = mark_pending(loaded)
    BY <2>1, MarkPendingTwice
  <2> QED  BY <1>2, <2>2, <2>3
<1>7. SuccessIsKept'
  <2> SUFFICES ASSUME NEW e \in Events, e \in Stored'
               PROVE  IF e \in succeeded
                      THEN /\ rows'[e].status = PROCESSED
                           /\ rows'[e].processed_at
                           /\ rows'[e].error = NoError
                           /\ ~Raises(rows'[e])
                      ELSE /\ rows'[e].status # PROCESSED
                           /\ ~rows'[e].processed_at
    BY <1>4 DEF SuccessIsKept, Raises, Stored
  <2>1. e \in Stored /\ rows[e] \in Event
    BY <1>1, <1>2, <1>3 DEF Stored
  <2>2. IF e \in succeeded
        THEN /\ rows[e].status = PROCESSED
             /\ rows[e].processed_at
             /\ rows[e].error = NoError
             /\ ~Raises(rows[e])
        ELSE /\ rows[e].status # PROCESSED
             /\ ~rows[e].processed_at
    BY <2>1 DEF OneWorkerInv, SuccessIsKept
  <2>3. CASE e \notin batch
    BY <1>2, <2>2, <2>3
  <2>4. CASE e \in batch
    BY <1>2, <2>1, <2>2, <2>4, MarkPendingKeeps DEF PENDING, PROCESSED
  <2> QED  BY <2>3, <2>4
<1> QED  BY <1>5, <1>6, <1>7

\* Every step of a system with one worker preserves the invariant.
LEMMA NextOneWorker ==
    ASSUME OneWorker
    PROVE  OneWorkerInv /\ [Next]_vars => OneWorkerInv'
<1> SUFFICES ASSUME OneWorkerInv, [Next]_vars PROVE OneWorkerInv'
  OBVIOUS
<1>1. IInv'
  BY NextIInv DEF OneWorkerInv
<1>2. CASE \E e \in Events, payload \in Payloads : CreateEvent(e, payload)
  BY <1>1, <1>2, CreateEventOneWorker DEF OneWorkerInv
<1>3. CASE \E w \in Workers : LoadEvent(w)
  BY <1>1, <1>3, LoadEventOneWorker DEF OneWorkerInv
<1>4. CASE \E w \in Workers : CommitAttempt(w)
  BY <1>1, <1>4, CommitAttemptOneWorker DEF OneWorkerInv
<1>5. CASE \E o \in Operators : mark_events_pending(o)
  BY <1>1, <1>5, MarkOneWorker DEF OneWorkerInv
<1>6. CASE Quiet
  <2>1. CreatedOnce' /\ LoadedIsCurrent'
    BY <1>6 DEF Quiet, OneWorkerInv, CreatedOnce, LoadedIsCurrent
  <2>2. SuccessIsKept'
    BY <1>6 DEF Quiet, OneWorkerInv, SuccessIsKept, Stored
  <2> QED  BY <1>1, <2>1, <2>2 DEF OneWorkerInv
<1> QED  BY <1>2, <1>3, <1>4, <1>5, <1>6, QuietOrNot DEF OneWorkerInv

\* The invariant holds in every reachable state of a system with one worker.
THEOREM OneWorkerInvariant ==
    ASSUME OneWorker
    PROVE  Spec => []OneWorkerInv
<1>1. OneWorkerInv /\ [Next]_vars => OneWorkerInv'
  BY NextOneWorker
<1> QED  BY <1>1, InitOneWorker, PTL DEF Spec

-----------------------------------------------------------------------------
(* Refinement *)

\* The empty table is the abstract initial state.
LEMMA InitRefines == Init => Lifecycle!Init
BY DEF Init, Lifecycle!Init, Lifecycle!Absent, NoRow

\* A step of a system with one worker arrives at, attempts or resets events, or
\* changes neither a status nor an attempt count.
LEMMA NextRefines ==
    ASSUME OneWorkerInv, [Next]_vars
    PROVE  [Lifecycle!Next]_(Lifecycle!lifecycle)
<1> DEFINE Count(row) == IF row = NoRow THEN 0 ELSE row.attempts
           st == [f \in Events |-> rows[f].status]
           at == [f \in Events |-> Count(rows[f])]
<1>0. \A row \in Event : row # NoRow /\ row.status \in ProcessingStatus /\ row.status # "absent"
  BY EventIsRow DEF Event, ProcessingStatus, PENDING, PROCESSED, FAILED
<1>1. CASE \E e \in Events, payload \in Payloads : CreateEvent(e, payload)
  <2>1. PICK e \in Events, payload \in Payloads : CreateEvent(e, payload)
    BY <1>1
  <2>2. rows[e] = NoRow
    BY <2>1 DEF CreateEvent, OneWorkerInv, CreatedOnce
  <2>3. \A f \in Events : rows'[f] = IF f = e THEN create_event(payload) ELSE rows[f]
    BY <2>1 DEF CreateEvent, OneWorkerInv, IInv, TypeOK
  <2>4. /\ create_event(payload) # NoRow
        /\ create_event(payload).status = PENDING
        /\ create_event(payload).attempts = 0
    BY CreateEventType, ConstantsAssumption DEF create_event
  <2>5. Lifecycle!Arrive(e)
    <3>1. st[e] = "absent"
      BY <2>2 DEF NoRow
    <3>2. st' = [st EXCEPT ![e] = PENDING]
      BY <2>3, <2>4
    <3>3. at' = at
      BY <2>2, <2>3, <2>4
    <3> QED  BY <3>1, <3>2, <3>3 DEF Lifecycle!Arrive, Lifecycle!Absent, Lifecycle!PENDING, PENDING
  <2> QED  BY <2>5 DEF Lifecycle!Next
<1>2. CASE \E w \in Workers : CommitAttempt(w)
  <2>1. PICK w \in Workers : CommitAttempt(w)
    BY <1>2
  <2> DEFINE e == worker[w].envelope.event
  <2>2. /\ e \in Events /\ rows[e] \in Event
        /\ rows'[e] \in Event
        /\ \A f \in Events \ {e} : rows'[f] = rows[f]
        /\ rows'[e].attempts = rows[e].attempts + 1
        /\ rows[e].status = PROCESSED => rows'[e].status = PROCESSED
    BY <2>1, CommitOnRow
  <2>3. PICK f \in Events : f = e
    BY <2>2
  <2> HIDE DEF e
  <2>4. PICK verdict \in ProcessingStatus : verdict = rows'[f].status
    BY <1>0, <2>2, <2>3
  <2>5. Lifecycle!Attempt(f, verdict)
    <3>1. st[f] # "absent"
      BY <1>0, <2>2, <2>3
    <3>2. st[f] = PROCESSED => verdict = PROCESSED
      BY <2>2, <2>3, <2>4
    <3>3. st' = [st EXCEPT ![f] = verdict]
      BY <2>2, <2>3, <2>4
    <3>4. at' = [at EXCEPT ![f] = at[f] + 1]
      BY <1>0, <2>2, <2>3
    <3> QED  BY <3>1, <3>2, <3>3, <3>4
             DEF Lifecycle!Attempt, Lifecycle!Absent, Lifecycle!PROCESSED, PROCESSED
  <2> QED
    BY <2>5 DEF Lifecycle!Next, Lifecycle!ProcessingStatus, ProcessingStatus,
                Lifecycle!PENDING, Lifecycle!PROCESSED, Lifecycle!FAILED, PENDING, PROCESSED, FAILED
<1>3. CASE \E o \in Operators : mark_events_pending(o)
  <2>1. PICK o \in Operators : mark_events_pending(o)
    BY <1>3
  <2>2. PICK batch \in SUBSET Events : batch = operator[o].redriven
    BY <2>1, OperatorFields DEF mark_events_pending, OneWorkerInv, IInv, TypeOK
  <2>3. batch \subseteq Stored
    BY <2>1, <2>2 DEF mark_events_pending, OneWorkerInv, IInv, Referenced
  <2>4. \A f \in batch : rows[f] \in Event
    BY <2>2, <2>3 DEF Stored, OneWorkerInv, IInv, TypeOK
  <2>5. \A f \in Events : rows'[f] = IF f \in batch THEN mark_pending(rows[f]) ELSE rows[f]
    BY <2>1, <2>2 DEF mark_events_pending
  <2>6. \A f \in batch :
           /\ mark_pending(rows[f]) \in Event
           /\ mark_pending(rows[f]).attempts = rows[f].attempts
           /\ mark_pending(rows[f]).status = IF rows[f].status # PROCESSED
                                             THEN PENDING
                                             ELSE rows[f].status
    BY <2>4, MarkPendingKeeps, MarkPendingType
  <2>7. Lifecycle!Reset(batch)
    <3>1. \A f \in batch : st[f] # "absent"
      BY <1>0, <2>2, <2>4
    <3>2. st' = [f \in Events |-> IF f \in batch /\ st[f] # PROCESSED THEN PENDING ELSE st[f]]
      BY <2>5, <2>6
    <3>3. at' = at
      BY <1>0, <2>4, <2>5, <2>6
    <3> QED  BY <3>1, <3>2, <3>3 DEF Lifecycle!Reset, Lifecycle!Absent, Lifecycle!PENDING,
                                     Lifecycle!PROCESSED, PENDING, PROCESSED
  <2> QED  BY <2>7 DEF Lifecycle!Next
<1>4. CASE UNCHANGED rows
  BY <1>4 DEF Lifecycle!lifecycle
<1>5. (\E w \in Workers : LoadEvent(w)) \/ Quiet => UNCHANGED rows
  BY DEF LoadEvent, Quiet
<1> QED  BY <1>1, <1>2, <1>3, <1>4, <1>5, QuietOrNot DEF OneWorkerInv

\* With one worker the row of an event tells whether an attempt has succeeded, at
\* every interleaving of the worker's load and commit with redrives.
THEOREM OneWorkerKeepsSuccess ==
    ASSUME OneWorker
    PROVE  Spec => []SuccessIsKept
<1>1. OneWorkerInv => SuccessIsKept
  BY DEF OneWorkerInv
<1> QED  BY <1>1, OneWorkerInvariant, PTL

\* With one worker the service implements the event lifecycle: processed is
\* final, every attempt is counted, a redrive resets unprocessed events only.
THEOREM OneWorkerRefinement ==
    ASSUME OneWorker
    PROVE  Spec => ImplementsLifecycle
<1>1. OneWorkerInv /\ [Next]_vars => [Lifecycle!Next]_(Lifecycle!lifecycle)
  BY NextRefines
<1> QED  BY <1>1, InitRefines, OneWorkerInvariant, PTL DEF Spec, ImplementsLifecycle, Lifecycle!Spec

-----------------------------------------------------------------------------
(* What the row of an event says about its attempts *)

\* Attempt number a of the event is still to be made: its message waits, a worker
\* has it, or a worker is about to publish it for the retry.
Ahead(e, a) ==
    \/ \E q \in {"main", "retry"} : queue[q][_queue_payload(e, a)] > 0
    \/ \E w \in Workers : /\ worker[w].pc \in {"got", "loaded"}
                          /\ worker[w].envelope = _queue_payload(e, a)
    \/ \E w \in Workers : /\ worker[w].pc = "failed"
                          /\ worker[w].envelope = _queue_payload(e, a - 1)

\* A redrive has published the event again and may still reset its row.
Redriving(e) ==
    \E o \in Operators :
        \/ operator[o].pc = "ack" /\ operator[o].message.event = e
        \/ operator[o].pc \in {"redrive", "publish", "ack", "mark"} /\ e \in operator[o].redriven

\* A message of the event has been through all its attempts.
Exhausted(e) ==
    \/ \E p \in QueuePayload : p.event = e /\ (queue["dead"][p] > 0 \/ orphans[p] > 0)
    \/ \E w \in Workers : worker[w].pc = "failed" /\ worker[w].envelope = _queue_payload(e, MaxAttempts)
    \/ \E o \in Operators : operator[o].pc \in {"publish", "ack"} /\ operator[o].message.event = e
    \/ Redriving(e)

\* Between two attempts of the same message.
Retrying(row) == row.status = PENDING /\ row.error # NoError

\* After a last attempt that failed, until the next attempt.
Rejected(row) == ~Retrying(row) /\ row.status # PROCESSED

\* processing_attempts has counted the attempts a message has behind it.
AttemptsCounted ==
    /\ \A e \in Events, a \in Attempts : Ahead(e, a) => rows[e].attempts >= a - 1
    /\ \A w \in Workers : worker[w].pc # "poll" =>
          rows[worker[w].envelope.event].attempts >= worker[w].envelope.attempt - 1

ExhaustedIsCounted ==
    \A e \in Events : Exhausted(e) =>
        /\ rows[e].attempts >= MaxAttempts
        /\ rows[e].attempts = MaxAttempts => Rejected(rows[e])

\* A redrive has reset the row under the worker w.
ResetUnder(w) == worker[w].pc = "loaded" /\ rows[worker[w].envelope.event] # worker[w].loaded

ResetIsLate ==
    \A w \in Workers : ResetUnder(w) =>
        LET row == rows[worker[w].envelope.event]
        IN  /\ row.attempts >= MaxAttempts
            /\ row.attempts = MaxAttempts => ~Retrying(worker[w].loaded)

ReasonInv == AttemptsCounted /\ ExhaustedIsCounted /\ ResetIsLate /\ FailedHasError

\* A redriven event is up for as many attempts as a new one, until it has been
\* through all of them again.
RedrivenStartsOver ==
    \A e \in Stored :
        /\ rows[e].status # PROCESSED /\ rows[e].attempts < 2 * MaxAttempts
        /\ Redriving(e) \/ \E w \in Workers : ResetUnder(w) /\ worker[w].envelope.event = e
        => \E a \in Attempts : Ahead(e, a) /\ rows[e].attempts >= MaxAttempts + a - 1

PendingIsAhead ==
    \A e \in Stored :
        /\ rows[e].status = PENDING
        /\ MaxAttempts <= rows[e].attempts /\ rows[e].attempts < 2 * MaxAttempts
        => \E a \in Attempts : Ahead(e, a)

\* The delivery a worker has lost waits in the main queue.
LostIsQueued ==
    \A w \in Workers :
        worker[w].pc # "poll" /\ ~worker[w].owned => queue["main"][worker[w].envelope] > 0

DeadLetterInv == RedrivenStartsOver /\ PendingIsAhead /\ LostIsQueued

\* What a failed attempt commits.  The row says failed after the last attempt, and
\* why, unless a redrive has reset it since it was loaded: then a column whose
\* loaded value comes out again is not written.
LEMMA CommitVerdict ==
    ASSUME NEW loaded \in Event, NEW final \in BOOLEAN, Raises(loaded),
           NEW row \in {loaded, mark_pending(loaded)}, row.status # PROCESSED
    PROVE  LET new == commit(row, loaded, process_event(loaded, final))
           IN  /\ new.status \in {PENDING, FAILED}
               /\ ~final => new.status = PENDING
               /\ final /\ row = loaded => new.status = FAILED
               /\ new.status = FAILED /\ (row = loaded \/ ~Retrying(loaded)) => new.error # NoError
<1> DEFINE obj == process_event(loaded, final)
           new == commit(row, loaded, obj)
<1>1. PENDING # PROCESSED /\ PENDING # FAILED /\ PROCESSED # FAILED
  BY DEF PENDING, PROCESSED, FAILED
<1>2. NoError # TransientError /\ NoError # ForcedError
  BY DEF NoError, TransientError, ForcedError
<1>3. obj.status = (IF final THEN FAILED ELSE PENDING) /\ obj.error # NoError
  BY <1>2 DEF process_event
<1>4. /\ new.status = IF obj.status = loaded.status THEN row.status ELSE obj.status
      /\ new.error = IF obj.error = loaded.error THEN row.error ELSE obj.error
  BY DEF commit, Column
<1>5. loaded.status \in {PENDING, PROCESSED, FAILED}
  BY DEF Event, ProcessingStatus
<1>6. \/ row = loaded
      \/ loaded.status # PROCESSED /\ row.status = PENDING /\ row.error = NoError
  BY MarkPendingKeeps
<1> HIDE DEF obj, new
<1>7. /\ new.status \in {PENDING, FAILED}
      /\ ~final => new.status = PENDING
      /\ final /\ row = loaded => new.status = FAILED
  BY <1>1, <1>3, <1>4, <1>5, <1>6
<1>8. ASSUME new.status = FAILED, row = loaded \/ ~Retrying(loaded)
      PROVE  new.error # NoError
  <2>1. CASE row = loaded
    BY <1>3, <1>4, <2>1
  <2>2. CASE row # loaded
    <3>1. loaded.status = PENDING
      BY <1>1, <1>3, <1>4, <1>5, <1>6, <1>8, <2>2
    <3>2. loaded.error = NoError
      BY <1>8, <2>2, <3>1 DEF Retrying
    <3> QED  BY <1>3, <1>4, <3>2
  <2> QED  BY <2>1, <2>2
<1> QED  BY <1>7, <1>8 DEF new, obj

\* A message is its event and its attempt number.
LEMMA MessageFields ==
    ASSUME NEW p \in QueuePayload
    PROVE  /\ p = _queue_payload(p.event, p.attempt)
           /\ p.event \in Events /\ p.attempt \in Attempts
           /\ p.attempt \in Nat /\ p.attempt >= 1 /\ p.attempt <= MaxAttempts
BY ConstantsAssumption DEF QueuePayload, _queue_payload, Attempts

-----------------------------------------------------------------------------
(* Where messages go in a step that commits no attempt *)

\* An attempt that is still to be made stays so, perhaps with a lower number; a
\* new one is the first, a lower one than before, or that of a delivery which
\* returns from its worker.
AttemptsFlow ==
    /\ \A e \in Events, a \in Attempts :
          Ahead(e, a) => \E b \in Attempts : b <= a /\ Ahead(e, b)'
    /\ \A e \in Events, a \in Attempts :
          Ahead(e, a)' =>
             \/ a = 1
             \/ Ahead(e, a)
             \/ \E w \in Workers : worker[w].pc # "poll" /\ worker[w].envelope = _queue_payload(e, a)
    /\ \A w \in Workers :
          worker'[w].pc # "poll" =>
             \/ worker[w].pc # "poll" /\ worker'[w].envelope = worker[w].envelope
             \/ \E e \in Events, a \in Attempts : worker'[w].envelope = _queue_payload(e, a) /\ Ahead(e, a)

\* Nothing gets to where exhausted messages are; a redrive publishes what is there.
ExhaustedFlow ==
    /\ \A e \in Events : Exhausted(e)' => Exhausted(e)
    /\ \A e \in Events : Redriving(e)' => Redriving(e) \/ (Exhausted(e) /\ Ahead(e, 1)')

Flow == AttemptsFlow /\ ExhaustedFlow /\ LostIsQueued'

\* A step that moves no message of the main and the retry queue and no worker.
LEMMA StillFlow ==
    ASSUME worker' = worker, \A p \in QueuePayload :
              queue'["main"][p] = queue["main"][p] /\ queue'["retry"][p] = queue["retry"][p],
           LostIsQueued, worker \in [Workers -> WorkerState]
    PROVE  AttemptsFlow /\ LostIsQueued' /\ \A e \in Events, a \in Attempts : Ahead(e, a)' <=> Ahead(e, a)
<1>1. \A e \in Events, a \in Attempts : _queue_payload(e, a) \in QueuePayload
  BY QueuePayloadType
<1>2. \A e \in Events, a \in Attempts : Ahead(e, a)' <=> Ahead(e, a)
  BY <1>1 DEF Ahead
<1>3. \A a \in Attempts : a <= a
  BY DEF Attempts
<1>4. \A w \in Workers : worker[w].pc # "poll" => worker[w].envelope \in QueuePayload
  BY WorkerFields
<1> QED  BY <1>2, <1>3, <1>4 DEF AttemptsFlow, LostIsQueued

\* A publish to the main queue at attempt 1.
LEMMA FirstFlow ==
    ASSUME worker' = worker, queue \in [Queues -> [QueuePayload -> Nat]], NEW e \in Events,
           _publish_to_rabbitmq("main", _queue_payload(e, 1)),
           LostIsQueued, worker \in [Workers -> WorkerState]
    PROVE  AttemptsFlow /\ LostIsQueued' /\ Ahead(e, 1)'
<1> DEFINE r == _queue_payload(e, 1)
<1>1. r \in QueuePayload /\ r.attempt = 1
  BY FirstAttempt, QueuePayloadType
<1>2. /\ queue'["main"][r] > 0
      /\ \A p \in QueuePayload : /\ queue["main"][p] > 0 => queue'["main"][p] > 0
                                 /\ queue'["main"][p] > 0 => queue["main"][p] > 0 \/ p = r
                                 /\ queue'["retry"][p] = queue["retry"][p]
  BY <1>1 DEF _publish_to_rabbitmq, Queues
<1>3. \A f \in Events, a \in Attempts :
         /\ _queue_payload(f, a) \in QueuePayload
         /\ _queue_payload(f, a).attempt = a
         /\ a <= a
  BY QueuePayloadType DEF Attempts
<1> HIDE DEF r
<1>4. \A f \in Events, a \in Attempts : Ahead(f, a) => Ahead(f, a)'
  BY <1>2, <1>3 DEF Ahead
<1>5. \A f \in Events, a \in Attempts : Ahead(f, a)' => a = 1 \/ Ahead(f, a)
  BY <1>1, <1>2, <1>3 DEF Ahead
<1>6. \A w \in Workers : worker[w].pc # "poll" => worker[w].envelope \in QueuePayload
  BY WorkerFields
<1>7. Ahead(e, 1)'
  BY <1>2 DEF Ahead, r
<1> QED  BY <1>2, <1>3, <1>4, <1>5, <1>6, <1>7 DEF AttemptsFlow, LostIsQueued

\* The API's steps: one operator request, or an enqueue of the intake.
LEMMA StillExhausted ==
    ASSUME worker' = worker, orphans' = orphans, operator' = operator,
           \A p \in QueuePayload : queue'["dead"][p] = queue["dead"][p]
    PROVE  ExhaustedFlow
<1>1. \A e \in Events : (Redriving(e)' <=> Redriving(e))
  BY DEF Redriving
<1>2. \A e \in Events : (Exhausted(e)' <=> Exhausted(e))
  BY <1>1 DEF Exhausted
<1> QED  BY <1>1, <1>2 DEF ExhaustedFlow

LEMMA IntakeFlow ==
    ASSUME OneWorkerInv, LostIsQueued, NEW e \in Events,
           (\E payload \in Payloads : CreateEvent(e, payload)) \/ EnqueueCreated(e) \/ EnqueueFails(e)
    PROVE  Flow
<1>1. queue \in [Queues -> [QueuePayload -> Nat]] /\ worker \in [Workers -> WorkerState]
  BY DEF OneWorkerInv, IInv, TypeOK
<1>2. worker' = worker /\ orphans' = orphans /\ operator' = operator
  BY DEF CreateEvent, EnqueueCreated, EnqueueFails
<1>3. CASE queue' = queue
  BY <1>1, <1>2, <1>3, StillFlow, StillExhausted DEF Flow
<1>4. CASE enqueue_event(e)
  <2>1. _publish_to_rabbitmq("main", _queue_payload(e, 1))
    BY <1>4 DEF enqueue_event
  <2>2. \A p \in QueuePayload : queue'["dead"][p] = queue["dead"][p]
    BY <1>1, <2>1, MainPublish, FirstAttempt, QueuePayloadType
  <2> QED  BY <1>1, <1>2, <2>1, <2>2, FirstFlow, StillExhausted DEF Flow
<1> QED  BY <1>3, <1>4 DEF CreateEvent, EnqueueCreated, EnqueueFails

\* Two messages are the same when their fields are.
LEMMA SameMessage ==
    \A e, f, a, b : _queue_payload(e, a) = _queue_payload(f, b) <=> e = f /\ a = b
BY DEF _queue_payload

\* A step of a worker that leaves no exhausted message behind.
LEMMA WorkerExhausted ==
    ASSUME operator' = operator, orphans' = orphans,
           \A p \in QueuePayload : queue'["dead"][p] > 0 => queue["dead"][p] > 0,
           \A v \in Workers : worker'[v].pc = "failed" =>
              worker[v].pc = "failed" /\ worker'[v].envelope = worker[v].envelope
    PROVE  ExhaustedFlow
<1>1. \A e \in Events : (Redriving(e)' <=> Redriving(e))
  BY DEF Redriving
<1>2. \A e \in Events : Exhausted(e)' => Exhausted(e)
  BY <1>1 DEF Exhausted
<1> QED  BY <1>1, <1>2 DEF ExhaustedFlow

LEMMA DequeueFlow ==
    ASSUME OneWorker, OneWorkerInv, NEW w \in Workers, NEW p \in QueuePayload, dequeue_event(w, p)
    PROVE  Flow
<1>1. queue \in [Queues -> [QueuePayload -> Nat]] /\ worker \in [Workers -> WorkerState]
  BY DEF OneWorkerInv, IInv, TypeOK
<1>2. /\ queue["main"][p] > 0 /\ worker[w].pc = "poll"
      /\ \A r \in QueuePayload :
            /\ queue["main"][r] > 0 => queue'["main"][r] > 0 \/ r = p
            /\ queue'["main"][r] > 0 => queue["main"][r] > 0
            /\ queue'["retry"][r] = queue["retry"][r]
            /\ queue'["dead"][r] = queue["dead"][r]
  BY <1>1 DEF dequeue_event, Queues
<1>3. /\ \A v \in Workers : v = w
      /\ worker'[w] = [pc |-> "got", envelope |-> p, owned |-> TRUE]
      /\ operator' = operator /\ orphans' = orphans
  BY <1>1 DEF dequeue_event, OneWorker
<1>4. worker'[w].pc = "got" /\ worker'[w].envelope = p /\ worker'[w].owned
  BY <1>3
<1>5. \A e \in Events, a \in Attempts : _queue_payload(e, a) \in QueuePayload /\ a <= a
  BY QueuePayloadType DEF Attempts
<1>6. \A e \in Events, a \in Attempts : Ahead(e, a) <=> Ahead(e, a)'
  BY <1>2, <1>3, <1>4, <1>5 DEF Ahead
<1>7. p = _queue_payload(p.event, p.attempt) /\ p.event \in Events /\ p.attempt \in Attempts
  BY MessageFields
<1>8. Ahead(p.event, p.attempt)
  BY <1>2, <1>7 DEF Ahead
<1>9. AttemptsFlow
  BY <1>3, <1>4, <1>5, <1>6, <1>7, <1>8 DEF AttemptsFlow
<1>10. LostIsQueued'
  BY <1>3, <1>4 DEF LostIsQueued
<1>11. ExhaustedFlow
  BY <1>2, <1>3, <1>4, WorkerExhausted
<1> QED  BY <1>9, <1>10, <1>11 DEF Flow

LEMMA WorkerStepFlow ==
    ASSUME OneWorker, OneWorkerInv, LostIsQueued, NEW w \in Workers,
           LoadEvent(w) \/ complete_event(w) \/ AckRouted(w)
    PROVE  Flow
<1>1. worker \in [Workers -> WorkerState]
  BY DEF OneWorkerInv, IInv, TypeOK
<1>2. queue' = queue /\ operator' = operator /\ orphans' = orphans /\ \A v \in Workers : v = w
  BY DEF LoadEvent, complete_event, AckRouted, OneWorker
<1>3. \/ /\ worker[w].pc = "got" /\ worker'[w].pc = "loaded"
         /\ worker'[w].envelope = worker[w].envelope /\ worker'[w].owned = worker[w].owned
      \/ worker[w].pc \in {"processed", "routed"} /\ worker'[w].pc = "poll"
  BY <1>1 DEF LoadEvent, complete_event, AckRouted
<1>4. \A e \in Events, a \in Attempts : Ahead(e, a) <=> Ahead(e, a)'
  BY <1>2, <1>3 DEF Ahead
<1>5. \A a \in Attempts : a <= a
  BY DEF Attempts
<1>6. AttemptsFlow
  BY <1>2, <1>3, <1>4, <1>5 DEF AttemptsFlow
<1>7. LostIsQueued'
  BY <1>2, <1>3 DEF LostIsQueued
<1>8. ExhaustedFlow
  BY <1>2, <1>3, WorkerExhausted
<1> QED  BY <1>6, <1>7, <1>8 DEF Flow

\* The failed attempt is followed by the next one, or by the dead-letter queue.
LEMMA PublishFailedFlow ==
    ASSUME OneWorker, OneWorkerInv, LostIsQueued, NEW w \in Workers, PublishFailed(w)
    PROVE  Flow
<1>1. queue \in [Queues -> [QueuePayload -> Nat]] /\ worker \in [Workers -> WorkerState]
  BY DEF OneWorkerInv, IInv, TypeOK
<1>2. worker[w].pc = "failed" /\ worker[w].envelope \in QueuePayload
  BY <1>1, WorkerFields DEF PublishFailed
<1>3. PICK e \in Events, n \in Attempts : worker[w].envelope = _queue_payload(e, n)
  BY <1>2, MessageFields
<1>4. /\ n \in Nat /\ n >= 1 /\ n <= MaxAttempts /\ MaxAttempts \in Nat
      /\ _queue_payload(e, n).event = e /\ _queue_payload(e, n).attempt = n
  BY <1>3, QueuePayloadType, ConstantsAssumption DEF Attempts
<1>5. /\ operator' = operator /\ orphans' = orphans /\ \A v \in Workers : v = w
      /\ worker'[w].pc = "routed" /\ worker'[w].envelope = worker[w].envelope
      /\ worker'[w].owned = worker[w].owned
  BY <1>1 DEF PublishFailed, OneWorker
<1>6. \A f \in Events, a \in Attempts : _queue_payload(f, a) \in QueuePayload /\ a \in Int /\ a <= a
  BY QueuePayloadType DEF Attempts
<1>7. LostIsQueued' /\ \A p \in QueuePayload : queue'["main"][p] = queue["main"][p]
  <2>1. \A p \in QueuePayload : queue'["main"][p] = queue["main"][p]
    BY <1>1 DEF PublishFailed, _publish_to_rabbitmq, Queues
  <2> QED  BY <1>2, <1>5, <2>1 DEF LostIsQueued
<1>8. CASE n + 1 <= MaxAttempts
  <2> DEFINE r == _queue_payload(e, n + 1)
  <2>1. n + 1 \in Attempts /\ r \in QueuePayload
    BY <1>3, <1>4, <1>8, QueuePayloadType DEF Attempts
  <2>2. _publish_to_rabbitmq("retry", r)
    BY <1>3, <1>4, <1>8 DEF PublishFailed
  <2>3. /\ queue'["retry"][r] > 0
        /\ \A p \in QueuePayload : /\ queue["retry"][p] > 0 => queue'["retry"][p] > 0
                                   /\ queue'["retry"][p] > 0 => queue["retry"][p] > 0 \/ p = r
                                   /\ queue'["dead"][p] = queue["dead"][p]
    BY <1>1, <2>1, <2>2 DEF _publish_to_rabbitmq, Queues
  <2>4. \A a \in Attempts : a - 1 = n <=> a = n + 1
    BY <1>4 DEF Attempts
  <2>5. Ahead(e, n + 1) /\ Ahead(e, n + 1)'
    <3>1. (n + 1) - 1 = n
      BY <1>4
    <3> QED  BY <1>2, <1>3, <2>3, <3>1 DEF Ahead
  <2>6. ASSUME NEW f \in Events, NEW a \in Attempts
        PROVE  Ahead(f, a) <=> Ahead(f, a)'
    <3>1. CASE f = e /\ a = n + 1
      BY <2>5, <3>1
    <3>2. CASE ~(f = e /\ a = n + 1)
      <4>1. _queue_payload(f, a) # r /\ worker[w].envelope # _queue_payload(f, a - 1)
        BY <1>3, <2>4, <3>2, SameMessage
      <4>2. queue'["retry"][_queue_payload(f, a)] > 0 <=> queue["retry"][_queue_payload(f, a)] > 0
        BY <1>6, <2>3, <4>1
      <4> QED  BY <1>2, <1>5, <1>6, <1>7, <4>1, <4>2 DEF Ahead
    <3> QED  BY <3>1, <3>2
  <2>7. AttemptsFlow
    BY <1>2, <1>5, <1>6, <2>6 DEF AttemptsFlow
  <2>8. ExhaustedFlow
    BY <1>5, <2>3, WorkerExhausted
  <2> QED  BY <1>7, <2>7, <2>8 DEF Flow
<1>9. CASE ~(n + 1 <= MaxAttempts)
  <2>1. n = MaxAttempts
    BY <1>4, <1>9
  <2> DEFINE r == _queue_payload(e, n)
  <2>2. _publish_to_rabbitmq("dead", r)
    BY <1>3, <1>4, <1>9 DEF PublishFailed
  <2>3. \A p \in QueuePayload : /\ queue'["dead"][p] > 0 => queue["dead"][p] > 0 \/ p = r
                                /\ queue'["retry"][p] = queue["retry"][p]
    BY <1>1, <1>6, <2>2 DEF _publish_to_rabbitmq, Queues
  <2>4. \A f \in Events, a \in Attempts : worker[w].envelope # _queue_payload(f, a - 1)
    <3>1. \A a \in Attempts : a - 1 # n
      BY <1>4, <2>1 DEF Attempts
    <3> QED  BY <1>3, <3>1, SameMessage
  <2>5. \A f \in Events, a \in Attempts : Ahead(f, a) <=> Ahead(f, a)'
    BY <1>2, <1>5, <1>6, <1>7, <2>3, <2>4 DEF Ahead
  <2>6. AttemptsFlow
    BY <1>2, <1>5, <1>6, <2>5 DEF AttemptsFlow
  <2>7. ExhaustedFlow
    <3>1. \A f \in Events : (Redriving(f)' <=> Redriving(f))
      BY <1>5 DEF Redriving
    <3>2. r.event = e /\ Exhausted(e)
      BY <1>2, <1>3, <1>4, <2>1 DEF Exhausted
    <3>3. \A f \in Events : Exhausted(f)' => Exhausted(f)
      <4> SUFFICES ASSUME NEW f \in Events, Exhausted(f)', f # e
                   PROVE  Exhausted(f)
        BY <3>2
      <4> HIDE DEF r
      <4> QED  BY <1>5, <2>3, <3>1, <3>2 DEF Exhausted
    <3> QED  BY <3>1, <3>3 DEF ExhaustedFlow
  <2> QED  BY <1>7, <2>6, <2>7 DEF Flow
<1> QED  BY <1>8, <1>9

\* The delivery of a worker that stops, or loses its channel, is in the main
\* queue: the broker requeues it, or has done so before.
LEMMA WorkerFaultFlow ==
    ASSUME OneWorker, OneWorkerInv, LostIsQueued, NEW w \in Workers,
           WorkerRestart(w) \/ WorkerConnectionLost(w)
    PROVE  Flow
<1>1. queue \in [Queues -> [QueuePayload -> Nat]] /\ worker \in [Workers -> WorkerState]
  BY DEF OneWorkerInv, IInv, TypeOK
<1>2. worker[w].pc # "poll" /\ worker[w].envelope \in QueuePayload /\ worker[w].owned \in BOOLEAN
  BY <1>1, WorkerFields DEF WorkerRestart, WorkerConnectionLost
<1> DEFINE r == worker[w].envelope
<1>3. PICK e \in Events, n \in Attempts : r = _queue_payload(e, n)
  BY <1>2, MessageFields
<1>4. /\ queue'["main"][r] > 0
      /\ \A p \in QueuePayload : /\ queue["main"][p] > 0 => queue'["main"][p] > 0
                                 /\ queue'["main"][p] > 0 => queue["main"][p] > 0 \/ p = r
                                 /\ queue'["retry"][p] = queue["retry"][p]
                                 /\ queue'["dead"][p] = queue["dead"][p]
  <2>1. RequeueDelivery(w)
    BY DEF WorkerRestart, WorkerConnectionLost
  <2>2. CASE worker[w].owned
    <3>1. queue' = [queue EXCEPT !["main"][r] = @ + 1]
      BY <2>1, <2>2 DEF RequeueDelivery
    <3> HIDE DEF r
    <3> QED  BY <1>1, <1>2, <3>1 DEF Queues, r
  <2>3. CASE ~worker[w].owned
    <3>1. queue' = queue
      BY <2>1, <2>3 DEF RequeueDelivery
    <3> QED  BY <1>2, <2>3, <3>1 DEF LostIsQueued
  <2> QED  BY <2>2, <2>3
<1>5. operator' = operator /\ orphans' = orphans /\ \A v \in Workers : v = w
  BY DEF WorkerRestart, WorkerConnectionLost, OneWorker
<1>6. \/ worker'[w].pc = "poll"
      \/ worker'[w].pc = worker[w].pc /\ worker'[w].envelope = r
  <2>1. CASE WorkerRestart(w)
    BY <1>1, <2>1 DEF WorkerRestart
  <2>2. CASE WorkerConnectionLost(w)
    <3> DEFINE t == [worker[w] EXCEPT !.owned = FALSE]
    <3>1. t.pc = worker[w].pc /\ t.envelope = r
      BY <1>1, <1>2, WorkerFields
    <3>2. worker' = [worker EXCEPT ![w] = t]
      BY <2>2 DEF WorkerConnectionLost
    <3> HIDE DEF t
    <3> QED  BY <1>1, <3>1, <3>2
  <2> QED  BY <2>1, <2>2
<1>7. \A f \in Events, a \in Attempts : _queue_payload(f, a) \in QueuePayload /\ a \in Int /\ a <= a
  BY QueuePayloadType DEF Attempts
<1>8. Ahead(e, n)'
  BY <1>3, <1>4 DEF Ahead
<1>9. ASSUME NEW f \in Events, NEW a \in Attempts, Ahead(f, a)
      PROVE  \E b \in Attempts : b <= a /\ Ahead(f, b)'
  <2>1. CASE \E q \in {"main", "retry"} : queue[q][_queue_payload(f, a)] > 0
    <3>1. Ahead(f, a)'
      BY <1>4, <1>7, <2>1 DEF Ahead
    <3> QED  BY <1>7, <3>1
  <2>2. CASE r = _queue_payload(f, a)
    <3>1. f = e /\ a = n
      BY <1>3, <2>2 DEF _queue_payload
    <3> QED  BY <1>7, <1>8, <3>1
  <2>3. CASE r = _queue_payload(f, a - 1)
    <3>1. f = e /\ a - 1 = n
      BY <1>3, <2>3 DEF _queue_payload
    <3>2. n <= a
      BY <1>7, <3>1
    <3> QED  BY <1>8, <3>1, <3>2
  <2> QED  BY <1>5, <1>9, <2>1, <2>2, <2>3 DEF Ahead
<1>10. ASSUME NEW f \in Events, NEW a \in Attempts, Ahead(f, a)'
       PROVE  Ahead(f, a) \/ r = _queue_payload(f, a)
  BY <1>4, <1>5, <1>6, <1>7, <1>10 DEF Ahead
<1>11. AttemptsFlow
  BY <1>2, <1>5, <1>6, <1>9, <1>10 DEF AttemptsFlow
<1>12. LostIsQueued'
  BY <1>4, <1>5, <1>6 DEF LostIsQueued
<1>13. ExhaustedFlow
  BY <1>4, <1>5, <1>6, WorkerExhausted
<1> QED  BY <1>11, <1>12, <1>13 DEF Flow

LEMMA RetryDelayFlow ==
    ASSUME OneWorkerInv, LostIsQueued, NEW r \in QueuePayload, RetryDelayExpires(r)
    PROVE  Flow
<1>1. queue \in [Queues -> [QueuePayload -> Nat]] /\ worker \in [Workers -> WorkerState]
  BY DEF OneWorkerInv, IInv, TypeOK
<1>2. /\ queue["retry"][r] > 0 /\ queue'["main"][r] > 0
      /\ \A p \in QueuePayload : /\ queue["main"][p] > 0 => queue'["main"][p] > 0
                                 /\ queue["retry"][p] > 0 => queue'["retry"][p] > 0 \/ p = r
                                 /\ queue'["main"][p] > 0 => queue["main"][p] > 0 \/ p = r
                                 /\ queue'["retry"][p] > 0 => queue["retry"][p] > 0
                                 /\ queue'["dead"][p] = queue["dead"][p]
  BY <1>1 DEF RetryDelayExpires, Queues
<1>3. worker' = worker /\ operator' = operator /\ orphans' = orphans
  BY DEF RetryDelayExpires
<1>4. \A f \in Events, a \in Attempts : _queue_payload(f, a) \in QueuePayload /\ a <= a
  BY QueuePayloadType DEF Attempts
<1>5. \A f \in Events, a \in Attempts : Ahead(f, a) <=> Ahead(f, a)'
  BY <1>2, <1>3, <1>4 DEF Ahead
<1>6. \A w \in Workers : worker[w].pc # "poll" => worker[w].envelope \in QueuePayload
  BY <1>1, WorkerFields
<1>7. AttemptsFlow /\ LostIsQueued'
  BY <1>2, <1>3, <1>4, <1>5, <1>6 DEF AttemptsFlow, LostIsQueued
<1> QED  BY <1>2, <1>3, <1>7, WorkerExhausted DEF Flow

-----------------------------------------------------------------------------
(* Operator requests and the API's channel *)

\* A request that holds or has redriven no more than before adds nothing.
LEMMA OperatorExhausted ==
    ASSUME worker' = worker, NEW o \in Operators,
           \A p \in QueuePayload :
              queue'["dead"][p] > 0 \/ orphans'[p] > 0 => Exhausted(p.event),
           \A u \in Operators \ {o} : operator'[u] = operator[u],
           operator'[o].pc \in {"publish", "ack"} => Exhausted(operator'[o].message.event),
           \A e \in Events :
              \/ operator'[o].pc = "ack" /\ operator'[o].message.event = e
              \/ operator'[o].pc \in {"redrive", "publish", "ack", "mark"} /\ e \in operator'[o].redriven
              => Redriving(e) \/ (Exhausted(e) /\ Ahead(e, 1)')
    PROVE  ExhaustedFlow
<1>1. ASSUME NEW e \in Events, Redriving(e)'
      PROVE  Redriving(e) \/ (Exhausted(e) /\ Ahead(e, 1)')
  <2>1. PICK u \in Operators :
          \/ operator'[u].pc = "ack" /\ operator'[u].message.event = e
          \/ operator'[u].pc \in {"redrive", "publish", "ack", "mark"} /\ e \in operator'[u].redriven
    BY <1>1 DEF Redriving
  <2>2. CASE u = o
    BY <2>1, <2>2
  <2>3. CASE u # o
    BY <2>1, <2>3 DEF Redriving
  <2> QED  BY <2>2, <2>3
<1>2. ASSUME NEW e \in Events, Exhausted(e)'
      PROVE  Exhausted(e)
  <2>1. CASE Redriving(e)'
    BY <1>1, <2>1 DEF Exhausted
  <2>2. CASE \E p \in QueuePayload : p.event = e /\ (queue'["dead"][p] > 0 \/ orphans'[p] > 0)
    BY <2>2
  <2>3. CASE \E w \in Workers :
               worker[w].pc = "failed" /\ worker[w].envelope = _queue_payload(e, MaxAttempts)
    BY <2>3 DEF Exhausted
  <2>4. CASE \E u \in Operators : operator'[u].pc \in {"publish", "ack"} /\ operator'[u].message.event = e
    <3>1. PICK u \in Operators : operator'[u].pc \in {"publish", "ack"} /\ operator'[u].message.event = e
      BY <2>4
    <3>2. CASE u = o
      BY <3>1, <3>2
    <3>3. CASE u # o
      BY <3>1, <3>3 DEF Exhausted
    <3> QED  BY <3>2, <3>3
  <2> QED  BY <1>2, <2>1, <2>2, <2>3, <2>4 DEF Exhausted
<1> QED  BY <1>1, <1>2 DEF ExhaustedFlow

LEMMA OperatorFlow ==
    ASSUME OneWorkerInv, LostIsQueued, NEW o \in Operators,
           \/ \E e \in Events : RetryEvent(o, e)
           \/ EnqueueRetry(o)
           \/ \E limit \in Limits : RedriveDlq(o, limit)
           \/ RedriveStep(o)
           \/ OperatorFails(o)
    PROVE  Flow
<1>1. /\ queue \in [Queues -> [QueuePayload -> Nat]] /\ worker \in [Workers -> WorkerState]
      /\ operator \in [Operators -> OperatorState] /\ orphans \in [QueuePayload -> Nat]
  BY DEF OneWorkerInv, IInv, TypeOK
<1>2. \A p \in QueuePayload : queue["dead"][p] > 0 \/ orphans[p] > 0 => Exhausted(p.event)
  BY DEF Exhausted
<1>3. ASSUME \/ \E e \in Events : RetryEvent(o, e)
             \/ \E limit \in Limits : RedriveDlq(o, limit)
             \/ RedriveLoopEnds(o) \/ RedriveAck(o) \/ mark_events_pending(o)
      PROVE  Flow
  <2>1. /\ queue' = queue /\ orphans' = orphans /\ worker' = worker
        /\ \A u \in Operators \ {o} : operator'[u] = operator[u]
        /\ operator'[o].pc \notin {"publish", "ack"}
    BY <1>1, <1>3 DEF RetryEvent, RedriveDlq, RedriveLoopEnds, RedriveAck, mark_events_pending
  <2>2. \A e \in Events :
           operator'[o].pc \in {"redrive", "mark"} /\ e \in operator'[o].redriven => Redriving(e)
    BY <1>1, <1>3 DEF RetryEvent, RedriveDlq, RedriveLoopEnds, RedriveAck, mark_events_pending, Redriving
  <2>3. ExhaustedFlow
    BY <1>2, <2>1, <2>2, OperatorExhausted
  <2> QED  BY <1>1, <2>1, <2>3, StillFlow DEF Flow
<1>4. CASE EnqueueRetry(o)
  <2>1. operator[o].event \in Events
    BY <1>1, <1>4, OperatorFields DEF EnqueueRetry
  <2>2. /\ _publish_to_rabbitmq("main", _queue_payload(operator[o].event, 1))
        /\ orphans' = orphans /\ worker' = worker
        /\ \A u \in Operators \ {o} : operator'[u] = operator[u]
        /\ operator'[o].pc = "idle"
    BY <1>1, <1>4 DEF EnqueueRetry, enqueue_event
  <2>3. \A p \in QueuePayload : queue'["dead"][p] = queue["dead"][p]
    BY <1>1, <2>1, <2>2, MainPublish, FirstAttempt, QueuePayloadType
  <2>4. ExhaustedFlow
    BY <1>2, <2>2, <2>3, OperatorExhausted
  <2> QED  BY <1>1, <2>1, <2>2, <2>4, FirstFlow DEF Flow
<1>5. CASE RedrivePublish(o)
  <2>1. PICK e \in Events : e = operator[o].message.event
    BY <1>1, <1>5, OperatorFields DEF RedrivePublish, QueuePayload
  <2>2. /\ _publish_to_rabbitmq("main", _queue_payload(e, 1))
        /\ orphans' = orphans /\ worker' = worker
        /\ \A u \in Operators \ {o} : operator'[u] = operator[u]
        /\ operator[o].pc = "publish" /\ operator'[o].pc = "ack"
        /\ operator'[o].message.event = e /\ operator'[o].redriven = operator[o].redriven
    BY <1>1, <1>5, <2>1 DEF RedrivePublish
  <2>3. \A p \in QueuePayload : queue'["dead"][p] = queue["dead"][p]
    BY <1>1, <2>1, <2>2, MainPublish, FirstAttempt, QueuePayloadType
  <2>4. AttemptsFlow /\ LostIsQueued' /\ Ahead(e, 1)'
    BY <1>1, <2>1, <2>2, FirstFlow
  <2>5. Exhausted(e)
    BY <2>1, <2>2 DEF Exhausted
  <2>6. \A f \in operator[o].redriven : Redriving(f)
    BY <2>2 DEF Redriving
  <2>7. ExhaustedFlow
    BY <1>2, <2>2, <2>3, <2>4, <2>5, <2>6, OperatorExhausted
  <2> QED  BY <2>4, <2>7 DEF Flow
<1>6. ASSUME NEW r \in QueuePayload, RedriveGet(o, r)
      PROVE  Flow
  <2>1. /\ queue["dead"][r] > 0
        /\ \A p \in QueuePayload : /\ queue'["dead"][p] > 0 => queue["dead"][p] > 0
                                   /\ queue'["main"][p] = queue["main"][p]
                                   /\ queue'["retry"][p] = queue["retry"][p]
    BY <1>1, <1>6 DEF RedriveGet, Queues
  <2>2. /\ orphans' = orphans /\ worker' = worker
        /\ \A u \in Operators \ {o} : operator'[u] = operator[u]
        /\ operator[o].pc = "redrive" /\ operator'[o].pc = "publish"
        /\ operator'[o].message = r /\ operator'[o].redriven = operator[o].redriven
    BY <1>1, <1>6 DEF RedriveGet
  <2>3. \A f \in operator[o].redriven : Redriving(f)
    BY <2>2 DEF Redriving
  <2>4. ExhaustedFlow
    BY <1>2, <2>1, <2>2, <2>3, OperatorExhausted
  <2> QED  BY <1>1, <2>1, <2>2, <2>4, StillFlow DEF Flow
<1>7. CASE OperatorFails(o)
  <2>1. /\ queue' = queue /\ worker' = worker
        /\ \A u \in Operators \ {o} : operator'[u] = operator[u]
        /\ operator'[o].pc = "idle"
    BY <1>1, <1>7 DEF OperatorFails
  <2>2. \A p \in QueuePayload :
           orphans'[p] = IF Holds(o, p) THEN orphans[p] + 1 ELSE orphans[p]
    BY <1>7 DEF OperatorFails
  <2>3. \A p \in QueuePayload : orphans'[p] > 0 => orphans[p] > 0 \/ Holds(o, p)
    BY <2>2
  <2>4. \A p \in QueuePayload : Holds(o, p) => Exhausted(p.event)
    BY DEF Holds, Exhausted
  <2>5. ExhaustedFlow
    BY <1>2, <2>1, <2>3, <2>4, OperatorExhausted
  <2> QED  BY <1>1, <2>1, <2>5, StillFlow DEF Flow
<1> QED  BY <1>3, <1>4, <1>5, <1>6, <1>7 DEF RedriveStep

\* What the API's channel returns to the dead-letter queue was exhausted.
LEMMA ChannelFlow ==
    ASSUME OneWorkerInv, LostIsQueued, ApiRestart \/ ApiConnectionLost
    PROVE  Flow
<1>1. /\ queue \in [Queues -> [QueuePayload -> Nat]] /\ worker \in [Workers -> WorkerState]
      /\ operator \in [Operators -> OperatorState] /\ orphans \in [QueuePayload -> Nat]
  BY DEF OneWorkerInv, IInv, TypeOK
<1>2. CloseApiChannel /\ worker' = worker
  BY DEF ApiRestart, ApiConnectionLost
<1>3. \A p \in QueuePayload :
         /\ queue'["dead"][p] = queue["dead"][p] + orphans[p] + Cardinality(Holders(p))
         /\ queue'["retry"][p] = queue["retry"][p] /\ queue'["main"][p] = queue["main"][p]
         /\ orphans'[p] = 0
  BY <1>1, <1>2 DEF CloseApiChannel, Queues
<1>4. ASSUME NEW p \in QueuePayload, queue'["dead"][p] > 0
      PROVE  Exhausted(p.event)
  <2> DEFINE n == Cardinality(Holders(p))
  <2>1. n \in Nat /\ (n > 0 <=> \E o \in Operators : Holds(o, p))
    BY HoldersCount
  <2>2. queue["dead"][p] \in Nat /\ orphans[p] \in Nat
    BY <1>1 DEF Queues
  <2>3. queue["dead"][p] + orphans[p] + n > 0
    BY <1>3, <1>4
  <2> HIDE DEF n
  <2>4. queue["dead"][p] > 0 \/ orphans[p] > 0 \/ \E o \in Operators : Holds(o, p)
    BY <2>1, <2>2, <2>3
  <2> QED  BY <2>4 DEF Exhausted, Holds
<1>5. \A o \in Operators :
         \/ operator'[o].pc = "idle"
         \/ /\ operator'[o].pc = operator[o].pc
            /\ operator[o].pc \in {"publish", "ack"} => operator'[o].message = operator[o].message
            /\ operator[o].pc \in {"redrive", "publish", "ack", "mark"} =>
                  operator'[o].redriven = operator[o].redriven
  <2>1. CASE ApiRestart
    BY <2>1 DEF ApiRestart
  <2>2. CASE ApiConnectionLost
    <3>1. \A o \in Operators :
             operator'[o] = IF operator[o].pc \in {"publish", "ack"}
                            THEN [operator[o] EXCEPT !.owned = FALSE]
                            ELSE operator[o]
      BY <2>2 DEF ApiConnectionLost
    <3> QED  BY <1>1, <3>1, OperatorFields
  <2> QED  BY <2>1, <2>2
<1>6. \A e \in Events : Redriving(e)' => Redriving(e)
  BY <1>5 DEF Redriving
<1>7. \A e \in Events : Exhausted(e)' => Exhausted(e)
  <2> SUFFICES ASSUME NEW e \in Events, Exhausted(e)'
               PROVE  Exhausted(e)
    OBVIOUS
  <2>1. CASE \E p \in QueuePayload : p.event = e /\ (queue'["dead"][p] > 0 \/ orphans'[p] > 0)
    BY <1>3, <1>4, <2>1
  <2>2. CASE \E o \in Operators : operator'[o].pc \in {"publish", "ack"} /\ operator'[o].message.event = e
    BY <1>5, <2>2 DEF Exhausted
  <2> QED  BY <1>2, <1>6, <2>1, <2>2 DEF Exhausted
<1>8. ExhaustedFlow
  BY <1>6, <1>7 DEF ExhaustedFlow
<1> QED  BY <1>1, <1>2, <1>3, <1>8, StillFlow DEF Flow

\* In every step but the commit of an attempt.
LEMMA FlowOrCommit ==
    ASSUME OneWorker, OneWorkerInv, LostIsQueued, [Next]_vars
    PROVE  Flow \/ \E w \in Workers : CommitAttempt(w)
<1>1. CASE UNCHANGED vars
  <2>1. UNCHANGED <<queue, worker, operator, orphans>> /\ worker \in [Workers -> WorkerState]
    BY <1>1 DEF vars, OneWorkerInv, IInv, TypeOK
  <2> QED  BY <2>1, StillFlow, StillExhausted DEF Flow
<1>2. CASE \E e \in Events : \/ \E payload \in Payloads : CreateEvent(e, payload)
                             \/ EnqueueCreated(e) \/ EnqueueFails(e)
  BY <1>2, IntakeFlow
<1>3. CASE \E w \in Workers : run_worker(w)
  BY <1>3, DequeueFlow, WorkerStepFlow, PublishFailedFlow DEF run_worker
<1>4. CASE \E w \in Workers : WorkerRestart(w) \/ WorkerConnectionLost(w)
  BY <1>4, WorkerFaultFlow
<1>5. CASE \E p \in QueuePayload : RetryDelayExpires(p)
  BY <1>5, RetryDelayFlow
<1>6. CASE \E o \in Operators : \/ \E e \in Events : RetryEvent(o, e)
                                \/ EnqueueRetry(o)
                                \/ \E limit \in Limits : RedriveDlq(o, limit)
                                \/ RedriveStep(o)
                                \/ OperatorFails(o)
  BY <1>6, OperatorFlow
<1>7. CASE ApiRestart \/ ApiConnectionLost
  BY <1>7, ChannelFlow
<1> QED  BY <1>1, <1>2, <1>3, <1>4, <1>5, <1>6, <1>7 DEF Next, AfterHandOver

-----------------------------------------------------------------------------
(* The invariant of the attempts *)

AttemptsInv == OneWorkerInv /\ ReasonInv /\ DeadLetterInv

LEMMA InitAttempts == Init => AttemptsInv
<1> SUFFICES ASSUME Init PROVE AttemptsInv
  OBVIOUS
<1>1. \A e \in Events, a \in Attempts : ~Ahead(e, a)
  BY QueuePayloadType DEF Init, Ahead, Queues
<1>2. \A e \in Events : ~Exhausted(e)
  BY DEF Init, Exhausted, Redriving, Queues
<1>3. Stored = {} /\ \A w \in Workers : worker[w].pc = "poll"
  BY DEF Init, Stored
<1>4. ReasonInv
  BY <1>1, <1>2, <1>3 DEF ReasonInv, AttemptsCounted, ExhaustedIsCounted, ResetIsLate, ResetUnder,
                          FailedHasError
<1>5. DeadLetterInv
  BY <1>3 DEF DeadLetterInv, RedrivenStartsOver, PendingIsAhead, LostIsQueued
<1> QED  BY <1>4, <1>5, InitOneWorker DEF AttemptsInv

\* What a step that commits no attempt does to the table.
RowsKeptOrReset ==
    /\ \A e \in Stored :
          \/ rows'[e] = rows[e]
          \/ Redriving(e) /\ rows'[e] = mark_pending(rows[e])
    /\ \A e \in Events \ Stored :
          \/ rows'[e] = rows[e]
          \/ rows'[e].status = PENDING /\ rows'[e].attempts = 0
    /\ \A w \in Workers : worker'[w].pc = "loaded" =>
          \/ rows'[worker'[w].envelope.event] = worker'[w].loaded
          \/ /\ worker[w].pc = "loaded" /\ worker'[w].envelope = worker[w].envelope
             /\ worker'[w].loaded = worker[w].loaded

LEMMA TableFlow ==
    ASSUME OneWorkerInv, [Next]_vars
    PROVE  RowsKeptOrReset \/ \E w \in Workers : CommitAttempt(w)
<1>1. rows \in [Events -> Event \cup {NoRow}] /\ worker \in [Workers -> WorkerState]
  BY DEF OneWorkerInv, IInv, TypeOK
<1>2. Stored \subseteq Events
  BY DEF Stored
<1>3. ASSUME NEW e \in Events, NEW payload \in Payloads, CreateEvent(e, payload)
      PROVE  RowsKeptOrReset
  <2>1. rows' = [rows EXCEPT ![e] = create_event(payload)] /\ worker' = worker /\ e \notin Stored
    BY <1>3 DEF CreateEvent, OneWorkerInv, CreatedOnce, Stored
  <2>2. create_event(payload).status = PENDING /\ create_event(payload).attempts = 0
    BY DEF create_event
  <2> QED  BY <1>1, <1>2, <2>1, <2>2 DEF RowsKeptOrReset
<1>4. ASSUME NEW w \in Workers, LoadEvent(w)
      PROVE  RowsKeptOrReset
  <2>1. /\ rows' = rows /\ \A v \in Workers \ {w} : worker'[v] = worker[v]
        /\ worker'[w].envelope = worker[w].envelope
        /\ worker'[w].loaded = rows[worker[w].envelope.event]
    BY <1>1, <1>4 DEF LoadEvent
  <2> QED  BY <1>2, <2>1 DEF RowsKeptOrReset
<1>5. ASSUME NEW o \in Operators, mark_events_pending(o)
      PROVE  RowsKeptOrReset
  <2>1. /\ \A e \in Events : rows'[e] = IF e \in operator[o].redriven THEN mark_pending(rows[e]) ELSE rows[e]
        /\ worker' = worker
    BY <1>5 DEF mark_events_pending
  <2>2. \A e \in operator[o].redriven : Redriving(e) /\ e \in Stored
    BY <1>5 DEF mark_events_pending, Redriving, OneWorkerInv, IInv, Referenced
  <2> QED  BY <1>2, <2>1, <2>2 DEF RowsKeptOrReset
<1>6. CASE Quiet
  BY <1>2, <1>6 DEF Quiet, RowsKeptOrReset
<1> QED  BY <1>3, <1>4, <1>5, <1>6, QuietOrNot DEF OneWorkerInv

\* Only stored events have messages.
MessagesStored ==
    /\ \A e \in Events : Exhausted(e) => e \in Stored
    /\ \A e \in Events, a \in Attempts : Ahead(e, a) => e \in Stored
    /\ \A e \in Stored : e \in Events /\ rows[e] \in Event /\ rows[e].attempts \in Nat

LEMMA MessagesOfStored == OneWorkerInv => MessagesStored
<1> SUFFICES ASSUME OneWorkerInv PROVE MessagesStored
  OBVIOUS
<1>1. Referenced
  BY DEF OneWorkerInv, IInv
<1>2. \A e \in Stored : rows[e] \in Event
  BY DEF OneWorkerInv, IInv, TypeOK, Stored
<1>3. \A e \in Stored : rows[e].attempts \in Nat
  BY <1>2 DEF Event
<1>4. \A e \in Events : Redriving(e) => e \in Stored
  BY <1>1 DEF Referenced, Redriving
<1>5. \A e, a : _queue_payload(e, a).event = e
  BY DEF _queue_payload
<1>6. \A e \in Events : Exhausted(e) => e \in Stored
  BY <1>1, <1>4, <1>5 DEF Referenced, Exhausted, Queues
<1>7. \A e \in Events, a \in Attempts : Ahead(e, a) => e \in Stored
  BY <1>1, <1>5, QueuePayloadType DEF Referenced, Ahead, Queues
<1> QED  BY <1>2, <1>3, <1>6, <1>7 DEF MessagesStored, Stored

LEMMA MessagesOfStoredNext == OneWorkerInv' => MessagesStored'
BY MessagesOfStored, PTL

\* A step that commits no attempt keeps the invariant: rows change by resets, and
\* those come with the message that the redrive has published.
LEMMA FlowKeeps ==
    ASSUME AttemptsInv, OneWorkerInv', Flow, RowsKeptOrReset
    PROVE  ReasonInv' /\ DeadLetterInv'
<1> DEFINE M == MaxAttempts
<1>1. M \in Nat /\ M >= 1 /\ \A a \in Attempts : a \in Nat /\ a >= 1
  BY ConstantsAssumption DEF Attempts
<1>2. /\ \A e \in Events : Exhausted(e) => e \in Stored
      /\ \A e \in Events, a \in Attempts : Ahead(e, a) => e \in Stored
      /\ \A e \in Stored : e \in Events /\ rows[e] \in Event /\ rows[e].attempts \in Nat
  BY MessagesOfStored DEF AttemptsInv, MessagesStored
<1>3. /\ \A e \in Events, a \in Attempts : Ahead(e, a)' => e \in Stored'
      /\ \A e \in Stored' : e \in Events /\ rows'[e].attempts \in Nat
  BY MessagesOfStoredNext DEF MessagesStored
<1>4. PENDING # PROCESSED /\ PENDING # FAILED
  BY DEF PENDING, PROCESSED, FAILED
<1>5. \A e \in Stored :
         /\ rows'[e].attempts = rows[e].attempts
         /\ rows'[e] = rows[e] \/ Redriving(e)
         /\ rows'[e].status = FAILED => rows'[e] = rows[e]
         /\ Retrying(rows'[e]) => Retrying(rows[e])
         /\ rows[e].status = PROCESSED <=> rows'[e].status = PROCESSED
  <2> SUFFICES ASSUME NEW e \in Stored, rows'[e] = mark_pending(rows[e])
               PROVE  /\ rows'[e].attempts = rows[e].attempts
                      /\ rows'[e].status = FAILED => rows'[e] = rows[e]
                      /\ Retrying(rows'[e]) => Retrying(rows[e])
                      /\ rows[e].status = PROCESSED <=> rows'[e].status = PROCESSED
    BY DEF RowsKeptOrReset
  <2> QED  BY <1>2, <1>4, MarkPendingKeeps DEF Retrying
<1>6. \A e \in Stored' \ Stored : rows'[e].status = PENDING /\ rows'[e].attempts = 0
  BY DEF RowsKeptOrReset, Stored
<1>7. \A w \in Workers : worker[w].pc # "poll" => worker[w].envelope.event \in Stored
  BY DEF AttemptsInv, OneWorkerInv, IInv, Referenced
<1>8. \A e, a : _queue_payload(e, a).event = e /\ _queue_payload(e, a).attempt = a
  BY DEF _queue_payload
<1>9. AttemptsCounted'
  <2>1. ASSUME NEW e \in Events, NEW a \in Attempts, Ahead(e, a)'
        PROVE  rows'[e].attempts >= a - 1
    <3>1. CASE a = 1
      BY <1>3, <2>1, <3>1
    <3>2. CASE Ahead(e, a)
      BY <1>2, <1>5, <3>2 DEF AttemptsInv, ReasonInv, AttemptsCounted
    <3>3. CASE \E w \in Workers : worker[w].pc # "poll" /\ worker[w].envelope = _queue_payload(e, a)
      <4>1. PICK w \in Workers : worker[w].pc # "poll" /\ worker[w].envelope = _queue_payload(e, a)
        BY <3>3
      <4>2. e \in Stored /\ rows[e].attempts >= a - 1
        BY <1>7, <1>8, <4>1 DEF AttemptsInv, ReasonInv, AttemptsCounted
      <4> QED  BY <1>5, <4>2
    <3> QED  BY <2>1, <3>1, <3>2, <3>3 DEF Flow, AttemptsFlow
  <2>2. ASSUME NEW w \in Workers, worker'[w].pc # "poll"
        PROVE  rows'[worker'[w].envelope.event].attempts >= worker'[w].envelope.attempt - 1
    <3>1. CASE worker[w].pc # "poll" /\ worker'[w].envelope = worker[w].envelope
      BY <1>5, <1>7, <3>1 DEF AttemptsInv, ReasonInv, AttemptsCounted
    <3>2. CASE \E e \in Events, a \in Attempts :
                  worker'[w].envelope = _queue_payload(e, a) /\ Ahead(e, a)
      <4>1. PICK e \in Events, a \in Attempts : worker'[w].envelope = _queue_payload(e, a) /\ Ahead(e, a)
        BY <3>2
      <4>2. e \in Stored /\ rows'[e].attempts >= a - 1
        BY <1>2, <1>5, <4>1 DEF AttemptsInv, ReasonInv, AttemptsCounted
      <4> QED  BY <1>8, <4>1, <4>2
    <3> QED  BY <2>2, <3>1, <3>2 DEF Flow, AttemptsFlow
  <2> QED  BY <2>1, <2>2 DEF AttemptsCounted
<1>10. \A e \in Events : Exhausted(e) =>
          /\ e \in Stored /\ rows[e].attempts >= M
          /\ rows[e].attempts = M => Rejected(rows[e])
  BY <1>2 DEF AttemptsInv, ReasonInv, ExhaustedIsCounted
<1>11. ExhaustedIsCounted'
  <2> SUFFICES ASSUME NEW e \in Events, Exhausted(e)'
               PROVE  /\ rows'[e].attempts >= M
                      /\ rows'[e].attempts = M => Rejected(rows'[e])
    BY DEF ExhaustedIsCounted, Rejected, Retrying
  <2>1. Exhausted(e)
    BY DEF Flow, ExhaustedFlow
  <2> QED  BY <1>5, <1>10, <2>1 DEF Rejected
<1>12. ASSUME NEW w \in Workers, ResetUnder(w)'
       PROVE  /\ worker[w].pc = "loaded" /\ worker'[w].envelope = worker[w].envelope
              /\ worker'[w].loaded = worker[w].loaded
              /\ worker[w].envelope.event \in Stored
              /\ ResetUnder(w) \/ (/\ Redriving(worker[w].envelope.event)
                                   /\ rows[worker[w].envelope.event] = worker[w].loaded)
  <2>1. /\ worker[w].pc = "loaded" /\ worker'[w].envelope = worker[w].envelope
        /\ worker'[w].loaded = worker[w].loaded
        /\ rows'[worker[w].envelope.event] # worker[w].loaded
    BY <1>12 DEF ResetUnder, RowsKeptOrReset
  <2>2. worker[w].envelope.event \in Stored
    BY <1>7, <2>1
  <2> QED  BY <1>5, <2>1, <2>2 DEF ResetUnder
<1>13. ResetIsLate'
  <2> SUFFICES ASSUME NEW w \in Workers, ResetUnder(w)'
               PROVE  LET row == rows'[worker'[w].envelope.event]
                      IN  /\ row.attempts >= M
                          /\ row.attempts = M => ~Retrying(worker'[w].loaded)
    BY DEF ResetIsLate, Retrying
  <2> DEFINE e == worker[w].envelope.event
  <2>1. CASE ResetUnder(w)
    BY <1>5, <1>12, <2>1 DEF AttemptsInv, ReasonInv, ResetIsLate
  <2>2. CASE Redriving(e) /\ rows[e] = worker[w].loaded
    <3>1. e \in Events /\ Exhausted(e)
      BY <1>2, <1>12, <2>2 DEF Exhausted
    <3> QED  BY <1>5, <1>10, <1>12, <2>2, <3>1 DEF Rejected
  <2> QED  BY <1>12, <2>1, <2>2
<1>14. FailedHasError'
  <2> SUFFICES ASSUME NEW e \in Stored', rows'[e].status = FAILED, rows'[e].attempts <= M + 1
               PROVE  rows'[e].error # NoError
    BY DEF FailedHasError
  <2>1. e \in Stored /\ rows'[e] = rows[e]
    BY <1>4, <1>5, <1>6
  <2> QED  BY <2>1 DEF AttemptsInv, ReasonInv, FailedHasError
<1>15. ASSUME NEW e \in Stored, rows[e].status # PROCESSED, rows[e].attempts < 2 * M,
              Redriving(e) \/ \E w \in Workers : ResetUnder(w) /\ worker[w].envelope.event = e
       PROVE  \E a \in Attempts : Ahead(e, a)' /\ rows'[e].attempts >= M + a - 1
  <2>1. PICK a \in Attempts : Ahead(e, a) /\ rows[e].attempts >= M + a - 1
    BY <1>15 DEF AttemptsInv, DeadLetterInv, RedrivenStartsOver
  <2>2. PICK b \in Attempts : b <= a /\ Ahead(e, b)'
    BY <1>2, <2>1 DEF Flow, AttemptsFlow
  <2>3. rows'[e].attempts >= M + b - 1
    BY <1>1, <1>2, <1>5, <2>1, <2>2
  <2> QED  BY <2>2, <2>3
<1>16. RedrivenStartsOver'
  <2> SUFFICES ASSUME NEW e \in Stored', rows'[e].status # PROCESSED, rows'[e].attempts < 2 * M,
                      Redriving(e)' \/ \E w \in Workers : ResetUnder(w)' /\ worker'[w].envelope.event = e
               PROVE  \E a \in Attempts : Ahead(e, a)' /\ rows'[e].attempts >= M + a - 1
    BY DEF RedrivenStartsOver
  <2>1. e \in Events
    BY <1>3
  <2>2. CASE Exhausted(e) /\ Ahead(e, 1)'
    <3>1. rows'[e].attempts >= M + 1 - 1
      BY <1>1, <1>5, <1>10, <2>1, <2>2
    <3> QED  BY <2>2, <3>1, FirstAttempt
  <2>3. CASE Redriving(e)
    <3>1. e \in Stored
      BY <1>2, <2>1, <2>3 DEF Exhausted
    <3> QED  BY <1>5, <1>15, <2>3, <3>1
  <2>4. CASE \E w \in Workers : ResetUnder(w)' /\ worker'[w].envelope.event = e
    <3>1. PICK w \in Workers : ResetUnder(w)' /\ worker'[w].envelope.event = e
      BY <2>4
    <3>2. e \in Stored /\ (Redriving(e) \/ (ResetUnder(w) /\ worker[w].envelope.event = e))
      BY <1>12, <3>1
    <3> QED  BY <1>5, <1>15, <3>2
  <2> QED  BY <2>1, <2>2, <2>3, <2>4 DEF Flow, ExhaustedFlow
<1>17. PendingIsAhead'
  <2> SUFFICES ASSUME NEW e \in Stored', rows'[e].status = PENDING,
                      M <= rows'[e].attempts, rows'[e].attempts < 2 * M
               PROVE  \E a \in Attempts : Ahead(e, a)'
    BY DEF PendingIsAhead
  <2>1. e \in Stored
    BY <1>1, <1>6
  <2>2. CASE rows'[e] = rows[e]
    <3>1. PICK a \in Attempts : Ahead(e, a)
      BY <2>1, <2>2 DEF AttemptsInv, DeadLetterInv, PendingIsAhead
    <3> QED  BY <1>2, <2>1, <3>1 DEF Flow, AttemptsFlow
  <2>3. CASE Redriving(e)
    BY <1>4, <1>5, <1>15, <2>1, <2>3
  <2> QED  BY <1>5, <2>1, <2>2, <2>3
<1>18. LostIsQueued'
  BY DEF Flow
<1> QED  BY <1>9, <1>11, <1>13, <1>14, <1>16, <1>17, <1>18 DEF ReasonInv, DeadLetterInv

\* What the commit of the only worker makes of the row.
LEMMA CommitReason ==
    ASSUME OneWorkerInv, NEW w \in Workers, CommitAttempt(w)
    PROVE  LET e == worker[w].envelope.event
               n == worker[w].envelope.attempt
           IN  /\ worker'[w].pc \in {"failed", "processed"}
               /\ worker'[w].envelope = worker[w].envelope /\ worker'[w].owned = worker[w].owned
               /\ worker'[w].pc = "processed" => rows'[e].status = PROCESSED
               /\ worker'[w].pc = "failed" =>
                     /\ rows'[e].status # PROCESSED
                     /\ n < MaxAttempts => rows'[e].status = PENDING
                     /\ n = MaxAttempts /\ ~ResetUnder(w) => rows'[e].status = FAILED
                     /\ /\ rows'[e].status = FAILED
                        /\ ~ResetUnder(w) \/ ~Retrying(worker[w].loaded)
                        => rows'[e].error # NoError
<1> DEFINE s     == worker[w]
           e     == s.envelope.event
           n     == s.envelope.attempt
           final == FinalAttempt(s.envelope)
           new   == commit(rows[e], s.loaded, process_event(s.loaded, final))
<1>1. s \in WorkerState /\ s.pc = "loaded"
  BY DEF OneWorkerInv, IInv, TypeOK, CommitAttempt
<1>2. s.loaded \in Event /\ s.envelope \in QueuePayload
  BY <1>1, WorkerFields
<1>3. n \in Nat /\ n <= MaxAttempts /\ MaxAttempts \in Nat
  BY <1>2, MessageFields, ConstantsAssumption
<1>4. final \in BOOLEAN /\ (final <=> n = MaxAttempts)
  BY <1>3 DEF FinalAttempt
<1>5. e \in Stored /\ e \in Events /\ rows[e] \in Event
  BY <1>1 DEF OneWorkerInv, IInv, Referenced, Stored, TypeOK
<1>6. rows[e] \in {s.loaded, mark_pending(s.loaded)} /\ (ResetUnder(w) <=> rows[e] # s.loaded)
  BY <1>1 DEF OneWorkerInv, LoadedIsCurrent, ResetUnder
<1>7. rows'[e] = new
  <2>1. rows' = [rows EXCEPT ![e] = new]
    BY DEF CommitAttempt
  <2> QED  BY <1>5, <2>1 DEF OneWorkerInv, IInv, TypeOK
<1>8. worker'[w] = [pc |-> IF Raises(s.loaded) THEN "failed" ELSE "processed",
                    envelope |-> s.envelope, owned |-> s.owned]
  BY DEF CommitAttempt, OneWorkerInv, IInv, TypeOK
<1>9. /\ worker'[w].pc = (IF Raises(s.loaded) THEN "failed" ELSE "processed")
      /\ worker'[w].envelope = s.envelope /\ worker'[w].owned = s.owned
  BY <1>8
<1>10. CASE ~Raises(s.loaded)
  <2>1. new.status = PROCESSED
    BY <1>2, <1>4, <1>6, <1>10, CommitSuccess
  <2> QED  BY <1>7, <1>9, <1>10, <2>1
<1>11. CASE Raises(s.loaded)
  <2>1. Raises(rows[e])
    BY <1>2, <1>6, <1>11, MarkPendingKeeps
  <2>2. rows[e].status # PROCESSED
    BY <1>5, <2>1 DEF OneWorkerInv, SuccessIsKept
  <2>3. /\ new.status # PROCESSED
        /\ ~final => new.status = PENDING
        /\ final /\ rows[e] = s.loaded => new.status = FAILED
        /\ new.status = FAILED /\ (rows[e] = s.loaded \/ ~Retrying(s.loaded)) => new.error # NoError
    BY <1>2, <1>4, <1>6, <1>11, <2>2, CommitVerdict DEF PENDING, PROCESSED, FAILED
  <2>4. n < MaxAttempts => ~final
    BY <1>3, <1>4
  <2> QED  BY <1>4, <1>6, <1>7, <1>9, <1>11, <2>3, <2>4
<1> QED  BY <1>10, <1>11

\* The commit of the only worker keeps the invariant: it counts the attempt it
\* takes off, and makes the row failed unless the event has been redriven.
LEMMA CommitKeeps ==
    ASSUME OneWorker, AttemptsInv, OneWorkerInv', NEW w \in Workers, CommitAttempt(w)
    PROVE  ReasonInv' /\ DeadLetterInv'
<1> DEFINE M == MaxAttempts
           loaded == worker[w].loaded
<1>1. M \in Nat /\ M >= 1 /\ \A a \in Attempts : a \in Nat /\ a >= 1 /\ a <= M
  BY ConstantsAssumption DEF Attempts
<1>2. worker[w].pc = "loaded" /\ worker[w].envelope \in QueuePayload
  BY WorkerFields DEF CommitAttempt, AttemptsInv, OneWorkerInv, IInv, TypeOK
<1>3. PICK e \in Events, n \in Attempts : worker[w].envelope = _queue_payload(e, n)
  BY <1>2, MessageFields
<1>4. worker[w].envelope.event = e /\ worker[w].envelope.attempt = n
  BY <1>3, QueuePayloadType
<1>5. /\ queue' = queue /\ operator' = operator /\ orphans' = orphans
      /\ \A v \in Workers : v = w
  BY DEF CommitAttempt, OneWorker
<1>6. /\ e \in Stored /\ rows[e] \in Event
      /\ \A f \in Events \ {e} : rows'[f] = rows[f]
      /\ rows'[e] \in Event /\ rows'[e].attempts = rows[e].attempts + 1
      /\ rows[e].status = PROCESSED => rows'[e].status = PROCESSED
  BY <1>4, CommitOnRow DEF AttemptsInv
<1>7. /\ worker'[w].pc \in {"failed", "processed"}
      /\ worker'[w].envelope = worker[w].envelope /\ worker'[w].owned = worker[w].owned
      /\ worker'[w].pc = "processed" => rows'[e].status = PROCESSED
      /\ worker'[w].pc = "failed" =>
            /\ rows'[e].status # PROCESSED
            /\ n < M => rows'[e].status = PENDING
            /\ n = M /\ ~ResetUnder(w) => rows'[e].status = FAILED
            /\ /\ rows'[e].status = FAILED
               /\ ~ResetUnder(w) \/ ~Retrying(loaded)
               => rows'[e].error # NoError
  BY <1>4, CommitReason DEF AttemptsInv
<1>8. rows[e].attempts \in Nat
  BY <1>6 DEF Event
<1>9. PENDING # PROCESSED /\ PENDING # FAILED /\ PROCESSED # FAILED
  BY DEF PENDING, PROCESSED, FAILED
<1>10. Stored' = Stored
  <2>1. rows'[e] # NoRow /\ rows[e] # NoRow
    BY <1>6, EventIsRow
  <2> QED  BY <1>6, <2>1 DEF Stored
<1>11. \A f \in Events, a \in Attempts : Ahead(f, a)' =>
          Ahead(f, a) \/ (f = e /\ a = n + 1)
  <2> SUFFICES ASSUME NEW f \in Events, NEW a \in Attempts, worker[w].envelope = _queue_payload(f, a - 1)
               PROVE  f = e /\ a = n + 1
    BY <1>5, <1>7 DEF Ahead
  <2>1. f = e /\ a - 1 = n
    BY <1>3, <1>4 DEF _queue_payload
  <2> QED  BY <1>1, <2>1
<1>12. ASSUME NEW f \in Events, NEW a \in Attempts, Ahead(f, a)
       PROVE  Ahead(f, a)' \/ (f = e /\ a = n)
  <2>1. worker[w].envelope = _queue_payload(f, a) => f = e /\ a = n
    BY <1>3 DEF _queue_payload
  <2> QED  BY <1>2, <1>5, <1>12, <2>1 DEF Ahead
<1>13. worker'[w].pc = "failed" /\ n < M => n + 1 \in Attempts /\ Ahead(e, n + 1)'
  <2>1. (n + 1) - 1 = n
    BY <1>1
  <2> QED  BY <1>1, <1>3, <1>7, <2>1 DEF Ahead, Attempts
<1>14. rows[e].attempts >= n - 1
  BY <1>2, <1>4 DEF AttemptsInv, ReasonInv, AttemptsCounted
<1>15. ResetUnder(w) => rows[e].attempts >= M /\ (rows[e].attempts = M => ~Retrying(loaded))
  BY <1>4 DEF AttemptsInv, ReasonInv, ResetIsLate
<1>16. AttemptsCounted'
  <2>1. ASSUME NEW f \in Events, NEW a \in Attempts, Ahead(f, a)'
        PROVE  rows'[f].attempts >= a - 1
    <3>1. CASE Ahead(f, a)
      <4>1. rows[f].attempts >= a - 1
        BY <3>1 DEF AttemptsInv, ReasonInv, AttemptsCounted
      <4>2. CASE f = e
        BY <1>1, <1>6, <1>8, <4>1, <4>2
      <4>3. CASE f # e
        BY <1>6, <4>1, <4>3
      <4> QED  BY <4>2, <4>3
    <3>2. CASE f = e /\ a = n + 1
      BY <1>1, <1>6, <1>8, <1>14, <3>2
    <3> QED  BY <1>11, <2>1, <3>1, <3>2
  <2>2. rows'[worker'[w].envelope.event].attempts >= worker'[w].envelope.attempt - 1
    BY <1>1, <1>4, <1>6, <1>7, <1>8, <1>14
  <2> QED  BY <1>5, <2>1, <2>2 DEF AttemptsCounted
<1>17. \A f \in Events : Redriving(f)' <=> Redriving(f)
  BY <1>5 DEF Redriving
<1>18. ExhaustedIsCounted'
  <2> SUFFICES ASSUME NEW f \in Events, Exhausted(f)'
               PROVE  /\ rows'[f].attempts >= M
                      /\ rows'[f].attempts = M => Rejected(rows'[f])
    BY DEF ExhaustedIsCounted, Rejected, Retrying
  <2>1. CASE Exhausted(f)
    <3>1. /\ rows[f].attempts >= M
          /\ rows[f].attempts = M => Rejected(rows[f])
      BY <2>1 DEF AttemptsInv, ReasonInv, ExhaustedIsCounted
    <3>2. CASE f = e
      BY <1>1, <1>6, <1>8, <3>1, <3>2
    <3>3. CASE f # e
      BY <1>6, <3>1, <3>3
    <3> QED  BY <3>2, <3>3
  <2>2. CASE worker'[w].pc = "failed" /\ worker'[w].envelope = _queue_payload(f, M)
    <3>1. f = e /\ n = M
      BY <1>3, <1>7, <2>2 DEF _queue_payload
    <3>2. rows'[f].attempts >= M
      BY <1>1, <1>6, <1>8, <1>14, <3>1
    <3>3. ASSUME rows'[f].attempts = M
          PROVE  Rejected(rows'[f])
      <4>1. ~ResetUnder(w)
        BY <1>1, <1>6, <1>8, <1>15, <3>1, <3>3
      <4> QED  BY <1>7, <1>9, <2>2, <3>1, <4>1 DEF Rejected, Retrying
    <3> QED  BY <3>2, <3>3
  <2> QED  BY <1>5, <1>17, <2>1, <2>2 DEF Exhausted
<1>19. \A v \in Workers : ~ResetUnder(v)'
  BY <1>5, <1>7 DEF ResetUnder
<1>20. FailedHasError'
  <2> SUFFICES ASSUME NEW f \in Stored, rows'[f].status = FAILED, rows'[f].attempts <= M + 1
               PROVE  rows'[f].error # NoError
    BY <1>10 DEF FailedHasError
  <2>1. CASE f = e
    <3>1. worker'[w].pc = "failed"
      BY <1>7, <1>9, <2>1
    <3>2. ~ResetUnder(w) \/ ~Retrying(loaded)
      BY <1>1, <1>6, <1>8, <1>15, <2>1
    <3> QED  BY <1>7, <2>1, <3>1, <3>2
  <2>2. CASE f # e
    <3>1. rows'[f] = rows[f]
      BY <1>6, <2>2 DEF Stored
    <3> QED  BY <3>1 DEF AttemptsInv, ReasonInv, FailedHasError
  <2> QED  BY <2>1, <2>2
<1>21. ASSUME rows'[e].status # PROCESSED, rows'[e].attempts < 2 * M,
              Redriving(e) \/ ResetUnder(w)
       PROVE  \E a \in Attempts : Ahead(e, a)' /\ rows'[e].attempts >= M + a - 1
  <2>1. rows[e].attempts < 2 * M - 1
    BY <1>1, <1>6, <1>8, <1>21
  <2>2. PICK a \in Attempts : Ahead(e, a) /\ rows[e].attempts >= M + a - 1
    BY <1>1, <1>4, <1>6, <1>8, <1>21, <2>1 DEF AttemptsInv, DeadLetterInv, RedrivenStartsOver
  <2>3. CASE Ahead(e, a)'
    <3>1. rows'[e].attempts >= M + a - 1
      BY <1>1, <1>6, <1>8, <2>2
    <3> QED  BY <2>3, <3>1
  <2>4. CASE a = n
    <3>1. n < M
      BY <1>1, <1>8, <2>1, <2>2, <2>4
    <3>2. worker'[w].pc = "failed"
      BY <1>7, <1>21
    <3>3. rows'[e].attempts >= M + (n + 1) - 1
      BY <1>1, <1>6, <1>8, <2>2, <2>4
    <3> QED  BY <1>13, <3>1, <3>2, <3>3
  <2> QED  BY <1>12, <2>2, <2>3, <2>4
<1>22. RedrivenStartsOver'
  <2> SUFFICES ASSUME NEW f \in Stored, rows'[f].status # PROCESSED, rows'[f].attempts < 2 * M,
                      Redriving(f)
               PROVE  \E a \in Attempts : Ahead(f, a)' /\ rows'[f].attempts >= M + a - 1
    <3>1. \A f \in Stored : f \in Events
      BY DEF Stored
    <3> QED  BY <1>10, <1>17, <1>19, <3>1 DEF RedrivenStartsOver
  <2>1. CASE f = e
    BY <1>21, <2>1
  <2>2. CASE f # e
    <3>1. f \in Events /\ rows'[f] = rows[f]
      BY <1>6, <2>2 DEF Stored
    <3>2. PICK a \in Attempts : Ahead(f, a) /\ rows[f].attempts >= M + a - 1
      BY <3>1 DEF AttemptsInv, DeadLetterInv, RedrivenStartsOver
    <3> QED  BY <1>12, <2>2, <3>1, <3>2
  <2> QED  BY <2>1, <2>2
<1>23. PendingIsAhead'
  <2> SUFFICES ASSUME NEW f \in Stored, rows'[f].status = PENDING,
                      M <= rows'[f].attempts, rows'[f].attempts < 2 * M
               PROVE  \E a \in Attempts : Ahead(f, a)'
    BY <1>10 DEF PendingIsAhead
  <2>1. CASE f = e
    <3>1. worker'[w].pc = "failed"
      BY <1>7, <1>9, <2>1
    <3>2. CASE n < M
      BY <1>13, <2>1, <3>1, <3>2
    <3>3. CASE ~(n < M)
      <4>1. n = M
        BY <1>1, <3>3
      <4>2. ResetUnder(w)
        BY <1>7, <1>9, <2>1, <3>1, <4>1
      <4> QED  BY <1>9, <1>21, <2>1, <4>2
    <3> QED  BY <3>2, <3>3
  <2>2. CASE f # e
    <3>1. f \in Events /\ rows'[f] = rows[f]
      BY <1>6, <2>2 DEF Stored
    <3>2. PICK a \in Attempts : Ahead(f, a)
      BY <3>1 DEF AttemptsInv, DeadLetterInv, PendingIsAhead
    <3> QED  BY <1>12, <2>2, <3>1, <3>2
  <2> QED  BY <2>1, <2>2
<1>24. LostIsQueued'
  BY <1>2, <1>5, <1>7 DEF AttemptsInv, DeadLetterInv, LostIsQueued
<1>25. ResetIsLate'
  BY <1>19 DEF ResetIsLate
<1> QED  BY <1>16, <1>18, <1>20, <1>22, <1>23, <1>24, <1>25 DEF ReasonInv, DeadLetterInv

\* The attempts of a system with one worker are counted, exhausted and started
\* over as AttemptsInv says, in every reachable state.
THEOREM AttemptsInvariant ==
    ASSUME OneWorker
    PROVE  Spec => []AttemptsInv
<1>1. AttemptsInv /\ [Next]_vars => AttemptsInv'
  <2> SUFFICES ASSUME AttemptsInv, [Next]_vars PROVE AttemptsInv'
    OBVIOUS
  <2>1. OneWorkerInv'
    BY NextOneWorker DEF AttemptsInv
  <2>2. ReasonInv' /\ DeadLetterInv'
    <3>1. CASE \E w \in Workers : CommitAttempt(w)
      BY <2>1, <3>1, CommitKeeps
    <3>2. CASE Flow /\ RowsKeptOrReset
      BY <2>1, <3>2, FlowKeeps
    <3> QED  BY <3>1, <3>2, FlowOrCommit, TableFlow DEF AttemptsInv, DeadLetterInv
  <2> QED  BY <2>1, <2>2 DEF AttemptsInv
<1> QED  BY <1>1, InitAttempts, PTL DEF Spec

\* With one worker a failed row says why, up to the second attempt after a redrive.
THEOREM OneWorkerFailureHasReason ==
    ASSUME OneWorker
    PROVE  Spec => []FailedHasError
<1>1. AttemptsInv => FailedHasError
  BY DEF AttemptsInv, ReasonInv
<1> QED  BY <1>1, AttemptsInvariant, PTL

\* Only a commit can take its reason from a failed row, and only one whose row has
\* been reset under it: what it does not write is then not what it has loaded.
LEMMA LostReason ==
    ASSUME OneWorkerInv, [Next]_vars,
           NEW e \in Events, WithoutReason(rows'[e]), ~WithoutReason(rows[e])
    PROVE  \E w \in Workers :
              /\ worker[w].pc = "loaded"
              /\ worker[w].envelope = _queue_payload(e, MaxAttempts)
              /\ worker[w].loaded.status = PENDING
              /\ worker[w].loaded.error # NoError
              /\ rows[e] = mark_pending(worker[w].loaded)
<1>1. PENDING # FAILED /\ PROCESSED # FAILED
  BY DEF PENDING, PROCESSED, FAILED
<1>2. rows'[e].status = FAILED /\ rows'[e].error = NoError /\ rows'[e] # rows[e]
  BY DEF WithoutReason
<1>3. ~RowsKeptOrReset
  <2> SUFFICES ASSUME RowsKeptOrReset  PROVE FALSE
    OBVIOUS
  <2>1. CASE e \in Stored
    <3>1. rows[e] \in Event /\ rows'[e] = mark_pending(rows[e])
      BY <1>2, <2>1 DEF RowsKeptOrReset, Stored, OneWorkerInv, IInv, TypeOK
    <3>2. rows[e].status # PROCESSED
      BY <1>2, <3>1, MarkPendingKeeps
    <3> QED  BY <1>1, <1>2, <3>1, <3>2, MarkPendingKeeps
  <2>2. CASE e \notin Stored
    BY <1>1, <1>2, <2>2 DEF RowsKeptOrReset
  <2> QED  BY <2>1, <2>2
<1>4. PICK w \in Workers : CommitAttempt(w)
  BY <1>3, TableFlow
<1>5. worker[w].envelope.event = e
  BY <1>2, <1>4, CommitOnRow
<1>6. /\ worker'[w].pc = "failed" /\ ResetUnder(w) /\ Retrying(worker[w].loaded)
      /\ ~(worker[w].envelope.attempt < MaxAttempts)
  BY <1>1, <1>2, <1>4, <1>5, CommitReason
<1>7. worker[w] \in WorkerState /\ worker[w].pc = "loaded"
  BY <1>6 DEF ResetUnder, OneWorkerInv, IInv, TypeOK
<1>8. worker[w].envelope = _queue_payload(e, MaxAttempts)
  <2>1. worker[w].envelope \in QueuePayload
    BY <1>7, WorkerFields
  <2>2. /\ worker[w].envelope.attempt \in Nat /\ worker[w].envelope.attempt <= MaxAttempts
        /\ worker[w].envelope = _queue_payload(e, worker[w].envelope.attempt)
    BY <1>5, <2>1, MessageFields DEF _queue_payload
  <2>3. worker[w].envelope.attempt = MaxAttempts
    BY <1>6, <2>2, ConstantsAssumption
  <2> QED  BY <2>2, <2>3
<1>9. rows[e] = mark_pending(worker[w].loaded)
  BY <1>5, <1>6, <1>7 DEF ResetUnder, OneWorkerInv, LoadedIsCurrent
<1> QED  BY <1>6, <1>7, <1>8, <1>9 DEF Retrying

\* With one worker a failed row loses its reason only to a redrive's reset between
\* the load and the commit of a last attempt, however many there have been.
THEOREM OneWorkerReasonLost ==
    ASSUME OneWorker
    PROVE  Spec => ReasonIsLostOnlyToReset
<1>1. OneWorkerInv /\ [Next]_vars =>
         [\A e \in Events :
             WithoutReason(rows'[e]) /\ ~WithoutReason(rows[e]) =>
                 \E w \in Workers :
                     /\ worker[w].pc = "loaded"
                     /\ worker[w].envelope = _queue_payload(e, MaxAttempts)
                     /\ worker[w].loaded.status = PENDING
                     /\ worker[w].loaded.error # NoError
                     /\ rows[e] = mark_pending(worker[w].loaded)]_vars
  BY LostReason
<1> QED  BY <1>1, OneWorkerInvariant, PTL DEF Spec, ReasonIsLostOnlyToReset

\* With one worker an event that is left in the dead-letter queue alone is failed,
\* until it has been through all its attempts twice.
THEOREM OneWorkerDeadLetters ==
    ASSUME OneWorker
    PROVE  Spec => []DeadLetteredIsFailed
<1>1. AttemptsInv => DeadLetteredIsFailed
  <2> SUFFICES ASSUME AttemptsInv, NEW p \in QueuePayload, queue["dead"][p] > 0,
                      rows[p.event].status # PROCESSED,
                      rows[p.event].attempts < 2 * MaxAttempts,
                      \A a \in Attempts : LET c == _queue_payload(p.event, a)
                                          IN  /\ queue["main"][c] = 0 /\ queue["retry"][c] = 0
                                              /\ \A w \in Workers : ~AtWorker(w, c)
               PROVE  rows[p.event].status = FAILED
    BY DEF DeadLetteredIsFailed
  <2>1. PICK e \in Events : e = p.event
    BY MessageFields
  <2>2. \A a \in Attempts : /\ queue["main"][_queue_payload(e, a)] = 0
                            /\ queue["retry"][_queue_payload(e, a)] = 0
                            /\ \A w \in Workers : ~AtWorker(w, _queue_payload(e, a))
    BY <2>1
  <2>3. Exhausted(e)
    BY <2>1 DEF Exhausted
  <2>4. e \in Stored /\ rows[e] \in Event /\ rows[e].attempts >= MaxAttempts
    BY <2>3, MessagesOfStored DEF AttemptsInv, MessagesStored, ReasonInv, ExhaustedIsCounted
  <2>5. \A w \in Workers, a \in Attempts :
           worker[w].pc # "poll" => worker[w].envelope # _queue_payload(e, a)
    <3>1. \A w \in Workers : worker[w].pc # "poll" => worker[w].owned \in BOOLEAN
      BY WorkerFields DEF AttemptsInv, OneWorkerInv, IInv, TypeOK
    <3> QED  BY <2>2, <3>1 DEF AttemptsInv, DeadLetterInv, LostIsQueued, AtWorker
  <2>6. \A a \in Attempts : ~Ahead(e, a)
    <3> SUFFICES ASSUME NEW a \in Attempts, Ahead(e, a)
                 PROVE  FALSE
      OBVIOUS
    <3>1. PICK w \in Workers : worker[w].pc = "failed" /\ worker[w].envelope = _queue_payload(e, a - 1)
      BY <2>2, <2>5 DEF Ahead
    <3>2. worker[w].envelope \in QueuePayload
      BY <3>1, WorkerFields DEF AttemptsInv, OneWorkerInv, IInv, TypeOK
    <3>3. a - 1 \in Attempts
      BY <3>1, <3>2 DEF QueuePayload, _queue_payload
    <3> QED  BY <2>5, <3>1, <3>3
  <2>7. rows[e].status # PENDING
    BY <2>1, <2>4, <2>6 DEF AttemptsInv, DeadLetterInv, PendingIsAhead
  <2>8. rows[e].status \in {PENDING, PROCESSED, FAILED}
    BY <2>4 DEF Event, ProcessingStatus
  <2> QED  BY <2>1, <2>7, <2>8
<1> QED  BY <1>1, AttemptsInvariant, PTL

-----------------------------------------------------------------------------
(* What a passed smoke check shows *)

\* Every step of the composition is a step of the system or leaves it alone.
LEMMA SmokeSteps ==
    ASSUME SmokeSetup, [SmokeNext]_smokeVars
    PROVE  [Next]_vars
<1>1. /\ Accepted \in Events /\ Retryable \in Events /\ Redrive \in Operators
      /\ AcceptedPayload \in Payloads /\ RetryablePayload \in Payloads /\ RedriveLimit \in Limits
  BY DEF SmokeSetup, SmokePayloads
<1>2. CASE UNCHANGED smokeVars \/ wait_for \/ Ended
  BY <1>2 DEF smokeVars, wait_for, Ended
<1>3. CASE main
  <2>1. CASE send_accepted \/ send_retryable
    BY <1>1, <2>1 DEF send_accepted, send_retryable, Next, AfterHandOver
  <2>2. CASE redrive
    BY <1>1, <2>2 DEF redrive, Next, AfterHandOver
  <2>3. CASE Redriven
    BY <1>1, <2>3 DEF Redriven, RedriveStep, Next, AfterHandOver
  <2>4. CASE UNCHANGED vars
    BY <2>4
  <2> QED  BY <1>3, <2>1, <2>2, <2>3, <2>4
           DEF main, Answered, send_duplicate, send_invalid, dlq_stats, dlq_summary, RedriveFailed,
               event_processed, event_stats
<1>4. CASE ServiceStep
  BY <1>1, <1>4 DEF ServiceStep, RedriveStep, Next, AfterHandOver
<1>5. CASE FaultStep
  BY <1>1, <1>5 DEF FaultStep, Next, AfterHandOver
<1> QED  BY <1>2, <1>3, <1>4, <1>5 DEF SmokeNext

\* The smoke check is one way to use the system: what is proved of Delivery holds
\* while it runs.
THEOREM SmokeIsDelivery ==
    ASSUME SmokeSetup
    PROVE  SmokeSpec => Spec
<1>1. SmokeInit => Init
  BY DEF SmokeInit
<1>2. [SmokeNext]_smokeVars => [Next]_vars
  BY SmokeSteps
<1> QED  BY <1>1, <1>2, PTL DEF SmokeSpec, Spec

\* Only main creates the event of accepted_delivery_id.
LEMMA AcceptedIsCreated ==
    ASSUME SmokeSetup, [SmokeNext]_smokeVars, OneWorkerInv, Accepted \notin Stored, Accepted \in Stored'
    PROVE  rows'[Accepted] = create_event(AcceptedPayload)
<1>1. /\ Accepted \in Events /\ rows[Accepted] = NoRow /\ rows'[Accepted] # NoRow
      /\ rows \in [Events -> Event \cup {NoRow}]
  BY DEF SmokeSetup, Stored, OneWorkerInv, IInv, TypeOK
<1>2. CASE send_accepted
  BY <1>1, <1>2 DEF send_accepted, CreateEvent
<1>3. CASE send_retryable
  BY <1>1, <1>3 DEF send_retryable, CreateEvent, SmokeSetup
<1>4. ASSUME NEW w \in Workers, CommitAttempt(w)
      PROVE  FALSE
  BY <1>1, <1>4, CommitOnRow DEF Stored
<1>5. CASE mark_events_pending(Redrive)
  <2>1. \A e \in operator[Redrive].redriven : e \in Stored
    BY <1>5 DEF SmokeSetup, mark_events_pending, OneWorkerInv, IInv, Referenced
  <2> QED  BY <1>1, <1>5, <2>1 DEF mark_events_pending
<1>6. rows' # rows
  BY <1>1
<1>7. ~ServiceStep
  BY <1>4, <1>6 DEF ServiceStep, EnqueueCreated, run_worker, dequeue_event, LoadEvent, complete_event,
                    PublishFailed, AckRouted, RetryDelayExpires, RedriveGet, RedriveLoopEnds,
                    RedrivePublish, RedriveAck
<1>8. ~FaultStep
  BY <1>6 DEF FaultStep, EnqueueFails, WorkerRestart, WorkerConnectionLost, OperatorFails,
              ApiRestart, ApiConnectionLost
<1>9. ~UNCHANGED vars
  BY <1>6 DEF vars
<1>10. main
  BY <1>7, <1>8, <1>9 DEF SmokeNext, smokeVars, wait_for, Ended
<1> QED  BY <1>2, <1>3, <1>5, <1>6, <1>9, <1>10
         DEF main, Answered, send_duplicate, send_invalid, dlq_stats, dlq_summary, redrive, RedriveDlq,
             Redriven, RedriveFailed, event_processed, event_stats

\* What a step of a system with one worker does to a row: it stays, its attempts
\* never drop, processed is final and comes with a counted attempt, and a payload
\* that asks for no failure never will.
LEMMA RowSteps ==
    ASSUME OneWorker, OneWorkerInv, [Next]_vars, NEW e \in Stored
    PROVE  /\ e \in Stored'
           /\ rows'[e].attempts >= rows[e].attempts
           /\ rows'[e].status = PROCESSED /\ rows[e].status # PROCESSED
                 => rows'[e].attempts > rows[e].attempts
           /\ rows[e].status = PROCESSED => rows'[e].status = PROCESSED
           /\ ~Raises(rows[e]) => ~Raises(rows'[e])
<1>1. e \in Events /\ rows[e] \in Event /\ rows[e].attempts \in Nat
  BY MessagesOfStored DEF MessagesStored
<1>2. PENDING # PROCESSED
  BY DEF PENDING, PROCESSED
<1>3. CASE rows'[e] = rows[e]
  BY <1>1, <1>3 DEF Stored
<1>4. CASE rows'[e] = mark_pending(rows[e])
  <2>1. mark_pending(rows[e]) # NoRow
    BY <1>1, MarkPendingType, EventIsRow
  <2> QED  BY <1>1, <1>2, <1>4, <2>1, MarkPendingKeeps DEF Stored
<1>5. ASSUME NEW w \in Workers, CommitAttempt(w), worker[w].envelope.event = e
      PROVE  /\ rows'[e] \in Event
             /\ rows'[e].attempts = rows[e].attempts + 1
             /\ rows[e].status = PROCESSED => rows'[e].status = PROCESSED
             /\ ~Raises(rows[e]) => ~Raises(rows'[e])
  <2>1. /\ rows'[e] \in Event
        /\ rows'[e].attempts = rows[e].attempts + 1
        /\ rows[e].status = PROCESSED => rows'[e].status = PROCESSED
        /\ e \in succeeded' => ~Raises(rows'[e])
    BY <1>5, CommitOnRow
  <2>2. worker[w].pc = "loaded" /\ worker[w].loaded \in Event
    BY <1>5, WorkerFields DEF CommitAttempt, OneWorkerInv, IInv, TypeOK
  <2>3. Raises(worker[w].loaded) <=> Raises(rows[e])
    BY <1>5, <2>2, MarkPendingKeeps DEF OneWorkerInv, LoadedIsCurrent
  <2>4. ~Raises(rows[e]) => e \in succeeded'
    BY <1>5, <2>3 DEF CommitAttempt
  <2> QED  BY <2>1, <2>4
<1>6. CASE \E w \in Workers : CommitAttempt(w) /\ worker[w].envelope.event = e
  <2>1. rows'[e] # NoRow
    BY <1>5, <1>6, EventIsRow
  <2> QED  BY <1>1, <1>5, <1>6, <2>1 DEF Stored
<1>7. ASSUME NEW w \in Workers, CommitAttempt(w), worker[w].envelope.event # e
      PROVE  rows'[e] = rows[e]
  BY <1>1, <1>7, CommitOnRow
<1> QED  BY <1>3, <1>4, <1>6, <1>7, TableFlow DEF RowsKeptOrReset

\* The accepted event never fails, so it is not what a redrive brings back; once
\* the redrive has answered, the retryable event has used up its attempts without
\* success, and a success the check has seen is there to stay.
SmokeInv ==
    /\ Accepted \in Stored => ~Raises(rows[Accepted])
    /\ ~Exhausted(Accepted)
    /\ smoke \in {"processed?", "dlq empty?", "ok"} =>
          /\ Retryable \in Stored
          /\ rows[Retryable].attempts >= MaxAttempts
          /\ rows[Retryable].attempts = MaxAttempts => rows[Retryable].status # PROCESSED
    /\ smoke \in {"dlq empty?", "ok"} => rows[Retryable].status = PROCESSED

\* A commit exhausts no event whose payload asks for no failure.
LEMMA CommitExhausts ==
    ASSUME OneWorkerInv, NEW w \in Workers, CommitAttempt(w), NEW e \in Events,
           e \in Stored => ~Raises(rows[e]), ~Exhausted(e)
    PROVE  ~Exhausted(e)'
<1>1. worker[w].pc = "loaded" /\ worker[w].loaded \in Event /\ worker[w].envelope \in QueuePayload
  BY WorkerFields DEF CommitAttempt, OneWorkerInv, IInv, TypeOK
<1>2. /\ queue' = queue /\ operator' = operator /\ orphans' = orphans
      /\ worker \in [Workers -> WorkerState]
  BY DEF CommitAttempt, OneWorkerInv, IInv, TypeOK
<1>3. \A v \in Workers \ {w} : worker'[v] = worker[v]
  BY <1>2 DEF CommitAttempt
<1>4. /\ worker'[w].pc = IF Raises(worker[w].loaded) THEN "failed" ELSE "processed"
      /\ worker'[w].envelope = worker[w].envelope
  BY <1>2 DEF CommitAttempt
<1>5. worker[w].envelope.event \in Stored
  BY CommitOnRow
<1>6. worker'[w].pc = "failed" => worker[w].envelope.event # e
  <2> SUFFICES ASSUME worker[w].envelope.event = e, Raises(worker[w].loaded)
               PROVE  FALSE
    BY <1>4
  <2>1. rows[e] \in {worker[w].loaded, mark_pending(worker[w].loaded)}
    BY <1>1 DEF OneWorkerInv, LoadedIsCurrent
  <2> QED  BY <1>1, <1>5, <2>1, MarkPendingKeeps
<1>7. \A a : _queue_payload(e, a).event = e
  BY DEF _queue_payload
<1>8. Redriving(e)' <=> Redriving(e)
  BY <1>2 DEF Redriving
<1> QED  BY <1>2, <1>3, <1>4, <1>6, <1>7, <1>8 DEF Exhausted

LEMMA SmokeInvNext ==
    ASSUME OneWorker, SmokeSetup, AttemptsInv, SmokeInv, [SmokeNext]_smokeVars
    PROVE  SmokeInv'
<1>1. [Next]_vars /\ OneWorkerInv /\ LostIsQueued
  BY SmokeSteps DEF AttemptsInv, DeadLetterInv
<1>2. /\ Events = {Accepted, Retryable}
      /\ Accepted \in Events /\ Retryable \in Events /\ Accepted # Retryable
  BY DEF SmokeSetup
<1>3. MaxAttempts \in Nat /\ \A e \in Stored : rows[e].attempts \in Nat
  BY <1>1, ConstantsAssumption, MessagesOfStored DEF MessagesStored
<1>4. (Accepted \in Stored => ~Raises(rows[Accepted]))'
  <2>1. CASE Accepted \in Stored
    BY <1>1, <2>1, RowSteps DEF SmokeInv
  <2>2. CASE Accepted \notin Stored
    <3>1. ~Raises(create_event(AcceptedPayload))
      BY DEF Raises, create_event, AcceptedPayload
    <3> QED  BY <1>1, <2>2, <3>1, AcceptedIsCreated
  <2> QED  BY <2>1, <2>2
<1>5. ~Exhausted(Accepted)'
  <2>1. CASE Flow
    BY <1>2, <2>1 DEF Flow, ExhaustedFlow, SmokeInv
  <2>2. CASE \E w \in Workers : CommitAttempt(w)
    BY <1>1, <1>2, <2>2, CommitExhausts DEF SmokeInv
  <2> QED  BY <1>1, <2>1, <2>2, FlowOrCommit
<1>6. OneWorkerInv'
  BY <1>1, NextOneWorker
<1>7. \A e \in Stored' : rows'[e].attempts \in Nat
  BY <1>6, MessagesOfStoredNext DEF MessagesStored
<1> DEFINE Up == /\ Retryable \in Stored
                 /\ rows[Retryable].attempts >= MaxAttempts
                 /\ rows[Retryable].attempts = MaxAttempts => rows[Retryable].status # PROCESSED
<1>8. Up => Up'
  <2> SUFFICES ASSUME Up PROVE Up'
    OBVIOUS
  <2>1. /\ Retryable \in Stored'
        /\ rows'[Retryable].attempts >= rows[Retryable].attempts
        /\ rows'[Retryable].status = PROCESSED /\ rows[Retryable].status # PROCESSED
              => rows'[Retryable].attempts > rows[Retryable].attempts
    BY <1>1, RowSteps
  <2> QED  BY <1>3, <1>7, <2>1
<1>9. Redriven => smoke' = "failed" \/ (smoke' = "processed?" /\ Up)
  <2> SUFFICES ASSUME Redriven, operator[Redrive].redriven # {}
               PROVE  Up
    BY DEF Redriven, Expect
  <2>1. PICK e : e \in operator[Redrive].redriven
    OBVIOUS
  <2>2. e \in Stored /\ e \in Events
    BY <1>1, <2>1 DEF SmokeSetup, Redriven, mark_events_pending, OneWorkerInv, IInv, Referenced, Stored
  <2>3. Exhausted(e)
    BY <2>1 DEF SmokeSetup, Redriven, mark_events_pending, Exhausted, Redriving
  <2>4. e = Retryable
    BY <1>2, <2>2, <2>3 DEF SmokeInv
  <2> QED  BY <2>2, <2>3, <2>4 DEF AttemptsInv, ReasonInv, ExhaustedIsCounted, Rejected
<1>10. smoke' \in {"processed?", "dlq empty?", "ok"} => Up
  <2>1. CASE smoke' = smoke
    BY <2>1 DEF SmokeInv
  <2>2. CASE smoke' # smoke
    BY <1>9, <2>2
    DEF SmokeInv, SmokeNext, smokeVars, main, wait_for, Ended, send_accepted, send_retryable, Answered,
        send_duplicate, send_invalid, dlq_stats, dlq_summary, redrive, RedriveFailed, event_processed,
        event_stats, Expect
  <2> QED  BY <2>1, <2>2
<1>11. smoke' \in {"dlq empty?", "ok"} => rows[Retryable].status = PROCESSED
  <2>1. CASE smoke' = smoke
    BY <2>1 DEF SmokeInv
  <2>2. CASE smoke' # smoke
    BY <1>9, <2>2
    DEF SmokeInv, SmokeNext, smokeVars, main, wait_for, Ended, send_accepted, send_retryable, Answered,
        send_duplicate, send_invalid, dlq_stats, dlq_summary, redrive, RedriveFailed, event_processed,
        event_stats, Expect
  <2> QED  BY <2>1, <2>2
<1>12. smoke' \in {"dlq empty?", "ok"} => rows'[Retryable].status = PROCESSED
  BY <1>1, <1>10, <1>11, RowSteps
<1> QED  BY <1>4, <1>5, <1>8, <1>10, <1>12 DEF SmokeInv

\* With one worker a passed smoke check is evidence, whatever faults came in
\* between: the retryable event used up its attempts, was redriven and succeeded in
\* a later attempt.
THEOREM SmokeEvidence ==
    ASSUME OneWorker, SmokeSetup
    PROVE  SmokeSpec => []OkIsEvidence
<1>1. SmokeInit => SmokeInv
  <2> SUFFICES ASSUME SmokeInit PROVE SmokeInv
    OBVIOUS
  <2>1. Init /\ Stored = {}
    BY DEF SmokeInit, Init, Stored
  <2>2. ~Exhausted(Accepted)
    BY <2>1, InitOneWorker, MessagesOfStored DEF SmokeSetup, MessagesStored
  <2> QED  BY <2>1, <2>2 DEF SmokeInit, SmokeInv
<1>2. AttemptsInv /\ SmokeInv /\ [SmokeNext]_smokeVars => SmokeInv'
  BY SmokeInvNext
<1>3. AttemptsInv /\ SmokeInv => OkIsEvidence
  <2> SUFFICES ASSUME AttemptsInv, SmokeInv, smoke = "ok"
               PROVE  /\ Retryable \in succeeded
                      /\ rows[Retryable].status = PROCESSED
                      /\ rows[Retryable].attempts > MaxAttempts
    BY DEF OkIsEvidence
  <2>1. /\ Retryable \in Stored /\ rows[Retryable].status = PROCESSED
        /\ rows[Retryable].attempts >= MaxAttempts /\ rows[Retryable].attempts # MaxAttempts
    BY DEF SmokeInv
  <2>2. MaxAttempts \in Nat /\ rows[Retryable].attempts \in Nat
    BY <2>1, ConstantsAssumption, MessagesOfStored DEF AttemptsInv, MessagesStored
  <2>3. Retryable \in succeeded
    BY <2>1 DEF AttemptsInv, OneWorkerInv, SuccessIsKept
  <2> QED  BY <2>1, <2>2, <2>3
<1>4. SmokeSpec => []AttemptsInv
  BY AttemptsInvariant, SmokeIsDelivery, PTL
<1> QED  BY <1>1, <1>2, <1>3, <1>4, PTL DEF SmokeSpec

=============================================================================
