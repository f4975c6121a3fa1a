----------------------------- MODULE EventStore -----------------------------
(***************************************************************************)
(* The "events" table as the service reads and writes it: the columns the  *)
(* code branches on, the two statements of crud.py that change a row, and  *)
(* the UPDATE the ORM session emits when it commits a loaded object.       *)
(*                                                                         *)
(* Abstractions.  A timestamp is present or absent.  The payload keeps the *)
(* two keys the processor reads.  error_message is one of the texts the    *)
(* processor can raise.  source, event_type, request_id and received_at    *)
(* influence nothing the service decides and are left out.                 *)
(***************************************************************************)
EXTENDS Integers

PENDING   == "pending"
PROCESSED == "processed"
FAILED    == "failed"

ProcessingStatus == {PENDING, PROCESSED, FAILED}

NoError        == "no error"
TransientError == "transient failure requested by payload"
ForcedError    == "failure requested by payload"

ErrorMessage == {NoError, TransientError, ForcedError}

\* remaining is payload["fail_attempts_remaining"], force is payload["force_failure"].
\* A payload whose counter int() cannot read fails every attempt, like force.
Payload == [remaining : Int, force : BOOLEAN]

Event == [status       : ProcessingStatus,
          attempts     : Nat,
          processed_at : BOOLEAN,
          error        : ErrorMessage,
          payload      : Payload]

-----------------------------------------------------------------------------
(* crud.py *)

create_event(payload) ==
    [status       |-> PENDING,
     attempts     |-> 0,
     processed_at |-> FALSE,
     error        |-> NoError,
     payload      |-> payload]

\* Mutant: the UPDATE lacks its condition on the status.
MarkAllPending(row) ==
    [row EXCEPT !.status = PENDING, !.processed_at = FALSE, !.error = NoError]

\* Mutant: the UPDATE starts the attempts over.
MarkPendingFromZero(row) ==
    IF row.status = PROCESSED
    THEN row
    ELSE [row EXCEPT !.status = PENDING, !.attempts = 0, !.processed_at = FALSE, !.error = NoError]

\* UPDATE ... WHERE processing_status != 'processed', evaluated by the database
\* on the row as it is when the statement runs.
mark_pending(row) ==
    IF row.status = PROCESSED
    THEN row
    ELSE [status       |-> PENDING,
          attempts     |-> row.attempts,
          processed_at |-> FALSE,
          error        |-> NoError,
          payload      |-> row.payload]

-----------------------------------------------------------------------------
(* services/processor.py *)

Raises(row) == row.payload.remaining > 0 \/ row.payload.force

\* Mutant: the last failure leaves error_message as it was loaded.
ProcessWithoutFinalError(row, final_attempt) ==
    IF Raises(row)
    THEN [status       |-> IF final_attempt THEN FAILED ELSE PENDING,
          attempts     |-> row.attempts + 1,
          processed_at |-> FALSE,
          error        |-> IF final_attempt THEN NoError ELSE TransientError,
          payload      |-> row.payload]
    ELSE [row EXCEPT !.status = PROCESSED, !.attempts = @ + 1, !.processed_at = TRUE,
                     !.error = NoError]

\* Mutant: the label of the metric is stored as the status.
ProcessMarksRetry(row, final_attempt) ==
    [row EXCEPT !.status = IF ~Raises(row) THEN PROCESSED
                           ELSE IF final_attempt THEN FAILED ELSE "retry",
                !.attempts = @ + 1]

\* The object process_event commits, computed from the object it was given.
process_event(row, final_attempt) ==
    IF Raises(row)
    THEN [status       |-> IF final_attempt THEN FAILED ELSE PENDING,
          attempts     |-> row.attempts + 1,
          processed_at |-> FALSE,
          error        |-> IF row.payload.remaining > 0 THEN TransientError ELSE ForcedError,
          payload      |-> [remaining |-> IF row.payload.remaining > 0
                                          THEN row.payload.remaining - 1
                                          ELSE row.payload.remaining,
                            force     |-> row.payload.force]]
    ELSE [status       |-> PROCESSED,
          attempts     |-> row.attempts + 1,
          processed_at |-> TRUE,
          error        |-> NoError,
          payload      |-> row.payload]

-----------------------------------------------------------------------------
(* The ORM session (SQLAlchemy, external).  session.commit() writes a column
   only when the object's value differs from the value that was loaded, and
   writes the object's value whatever the row holds by then: no row lock, no
   version check.                                                          *)

Column(stored, loaded, value) == IF value = loaded THEN stored ELSE value

\* A new processed_at is a fresh timestamp, hence always different from the one loaded.
commit(row, loaded, obj) ==
    [status       |-> Column(row.status, loaded.status, obj.status),
     attempts     |-> Column(row.attempts, loaded.attempts, obj.attempts),
     processed_at |-> IF obj.processed_at
                      THEN TRUE
                      ELSE Column(row.processed_at, loaded.processed_at, obj.processed_at),
     error        |-> Column(row.error, loaded.error, obj.error),
     payload      |-> Column(row.payload, loaded.payload, obj.payload)]

=============================================================================
