--------------------------- MODULE ReadEndpoints ---------------------------
(***************************************************************************)
(* GET /events and GET /events/summary over a table that intake and        *)
(* processing go on changing.  Each SELECT sees one committed state of the *)
(* table (READ COMMITTED); a summary is three of them, and a client that   *)
(* pages through the list sends one request after the other.               *)
(*                                                                         *)
(* received_at is the database's now(), the start of the inserting         *)
(* transaction: two rows may have the same, and a row may appear after     *)
(* rows that are younger than it.  Rows are never deleted.                 *)
(***************************************************************************)
EXTENDS EventStore, FiniteSets, SequencesExt

CONSTANTS
    Events,     \* event ids
    Sources,    \* values of source
    MaxTime,    \* bound: timestamps are 0..MaxTime
    Limit,      \* the limit a client pages with
    MaxUpdates  \* bound: changes of a status

ASSUME ReadAssumption == MaxTime \in Nat /\ Limit \in 1..100 /\ MaxUpdates \in Nat

VARIABLES
    rows,     \* the events table: received_at, source and status of each row
    pager,    \* a client that asks for page after page
    summary,  \* a request of /events/summary
    updates

vars == <<rows, pager, summary, updates>>

NoRow == [status |-> "absent"]

Stored == {e \in Events : rows[e] # NoRow}

NoSource == "any source"

From(source) == {e \in Stored : source = NoSource \/ rows[e].source = source}

NoSummary == [executed |-> 0, total |-> 0, status |-> 0, by_source |-> 0]

Init ==
    /\ rows = [e \in Events |-> NoRow]
    /\ pager = [pc |-> "idle"]
    /\ summary = NoSummary
    /\ updates = 0

-----------------------------------------------------------------------------
(* What the rest of the service does to the table *)

Insert(e, time, source) ==
    /\ rows[e] = NoRow
    /\ rows' = [rows EXCEPT ![e] = [received_at |-> time, source |-> source, status |-> PENDING]]
    /\ UNCHANGED <<pager, summary, updates>>

UpdateStatus(e, status) ==
    /\ updates < MaxUpdates /\ updates' = updates + 1
    /\ e \in Stored
    /\ rows' = [rows EXCEPT ![e].status = status]
    /\ UNCHANGED <<pager, summary>>

-----------------------------------------------------------------------------
(* GET /events, asked by a client until a page is not full *)

Page(s, offset) == SubSeq(s, offset + 1, Min({offset + Limit, Len(s)}))

\* Mutant: pending events first, then by age.
ListPendingFirst(source, offset) ==
    {Page(s, offset) :
        s \in {s \in SetToSeqs(From(source)) :
                  \A i, j \in DOMAIN s : i < j =>
                      \/ rows[s[i]].status = PENDING /\ rows[s[j]].status # PENDING
                      \/ /\ (rows[s[i]].status = PENDING) = (rows[s[j]].status = PENDING)
                         /\ rows[s[i]].received_at >= rows[s[j]].received_at}}

\* The pages the database may return: rows with the same received_at come in any
\* order, and in another one the next time.
list_events(source, offset) ==
    {Page(s, offset) :
        s \in {s \in SetToSeqs(From(source)) :
                  \A i, j \in DOMAIN s :
                      i < j => rows[s[i]].received_at >= rows[s[j]].received_at}}

StartPaging(source) ==
    /\ pager.pc = "idle"
    /\ pager' = [pc |-> "paging", source |-> source, offset |-> 0, got |-> {},
                 expected |-> From(source)]
    /\ UNCHANGED <<rows, summary, updates>>

get_events ==
    /\ pager.pc = "paging"
    /\ \E items \in list_events(pager.source, pager.offset) :
          pager' = [pager EXCEPT !.got = @ \cup ToSet(items), !.offset = @ + Limit,
                                 !.pc = IF Len(items) < Limit THEN "done" ELSE "paging"]
    /\ UNCHANGED <<rows, summary, updates>>

StopPaging ==
    /\ pager.pc = "done"
    /\ pager' = [pc |-> "idle"]
    /\ UNCHANGED <<rows, summary, updates>>

-----------------------------------------------------------------------------
(* GET /events/summary *)

WithStatus(status) == Cardinality({e \in Stored : rows[e].status = status})

\* Every row is in the group of its source, so the groups together are these rows.
WithSource == Cardinality({e \in Stored : rows[e].source \in Sources})

\* What a statement counts; the two GROUP BYs by the sum of what is returned of them.
Figure(statement) ==
    CASE statement = "total"     -> Cardinality(Stored)
      [] statement = "status"    -> WithStatus(PENDING) + WithStatus(PROCESSED) + WithStatus(FAILED)
      [] statement = "by_source" -> WithSource

\* Mutant: the total is counted last.
TotalLast == <<"status", "by_source", "total">>

\* The statements in program order.
Statements == <<"total", "status", "by_source">>

get_events_summary ==
    /\ summary.executed < Len(Statements)
    /\ LET statement == Statements[summary.executed + 1]
       IN  summary' = [summary EXCEPT !.executed = @ + 1, ![statement] = Figure(statement)]
    /\ UNCHANGED <<rows, pager, updates>>

\* The queue snapshot that follows does not change the figures.
AnswerSummary ==
    /\ summary.executed = Len(Statements)
    /\ summary' = NoSummary
    /\ UNCHANGED <<rows, pager, updates>>

-----------------------------------------------------------------------------

Next ==
    \/ \E e \in Events, time \in 0..MaxTime, source \in Sources : Insert(e, time, source)
    \/ \E e \in Events, status \in ProcessingStatus : UpdateStatus(e, status)
    \/ \E source \in Sources \cup {NoSource} : StartPaging(source)
    \/ get_events
    \/ StopPaging
    \/ get_events_summary
    \/ AnswerSummary

Spec == Init /\ [][Next]_vars

-----------------------------------------------------------------------------
(* Properties *)

\* No other row of the table, up to now, has this one's received_at.
Distinct(e) == \A f \in Stored \ {e} : rows[f].received_at # rows[e].received_at

\* Paging by offset misses no event that was there when it began, unless it shares
\* its received_at with another: insertions at any place and processing meanwhile
\* only move rows to later pages.  (Rows of the same received_at may be missed,
\* for the ORDER BY has no second key.)
PagingIsComplete ==
    pager.pc = "done" => \A e \in pager.expected : Distinct(e) => e \in pager.got

\* The figures of a summary are of three moments, but in a known order: total is
\* never more than pending, processed and failed together, and these never more
\* than the sources together, whatever is inserted or processed in between.
SummaryIsOrdered ==
    summary.executed = Len(Statements) =>
        summary.total <= summary.status /\ summary.status <= summary.by_source

=============================================================================
