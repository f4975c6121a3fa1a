----------------------------- MODULE ReadProofs -----------------------------
(***************************************************************************)
(* Proofs about ReadEndpoints, for any number of events, sources and       *)
(* timestamps, every page size and any number of changes meanwhile.        *)
(***************************************************************************)
EXTENDS ReadEndpoints, FiniteSetTheorems, TLAPS

Row == [received_at : 0..MaxTime, source : Sources, status : ProcessingStatus]

Summary == [executed : 0..3, total : Nat, status : Nat, by_source : Nat]

PagerState ==
         [pc : {"idle"}]
    \cup [pc : {"paging", "done"}, source : Sources \cup {NoSource}, offset : Nat,
          got : SUBSET Events, expected : SUBSET Events]

TypeInv ==
    /\ rows \in [Events -> Row \cup {NoRow}]
    /\ IsFiniteSet(Stored)
    /\ pager \in PagerState
    /\ summary \in Summary

\* Each figure is of a table no larger than the one the next statement sees.
FiguresGrow ==
    /\ summary.executed = 1 => summary.total <= Cardinality(Stored)
    /\ summary.executed = 2 => summary.total <= summary.status /\ summary.status <= Cardinality(Stored)
    /\ summary.executed = 3 => summary.total <= summary.status /\ summary.status <= summary.by_source

Newer(e, source) == {f \in From(source) : rows[f].received_at > rows[e].received_at}

\* An event that paging still owes the client is behind the pages that were read.
OwedIsAhead ==
    pager.pc # "idle" => \A e \in pager.expected :
        /\ e \in From(pager.source)
        /\ Distinct(e) /\ e \notin pager.got =>
              pager.pc = "paging" /\ Cardinality(Newer(e, pager.source)) >= pager.offset

IInv == TypeInv /\ FiguresGrow /\ OwedIsAhead

-----------------------------------------------------------------------------
(* Orderings and pages *)

\* An ordering of a finite set, as the database returns one, has every element at
\* one place.
LEMMA Ordering ==
    ASSUME NEW S, IsFiniteSet(S), NEW s \in SetToSeqs(S)
    PROVE  /\ Cardinality(S) \in Nat
           /\ s \in Seq(S) /\ Len(s) = Cardinality(S) /\ DOMAIN s = 1..Cardinality(S)
           /\ \A i, j \in DOMAIN s : s[i] = s[j] => i = j
           /\ \A x \in S : \E i \in DOMAIN s : s[i] = x
<1> DEFINE n == Cardinality(S)
<1>1. n \in Nat
  BY FS_CardinalityType
<1>2. s \in [1..n -> S] /\ \A i, j \in 1..n : i # j => s[i] # s[j]
  BY DEF SetToSeqs
<1>3. s \in Injection(1..n, S)
  BY <1>2 DEF Injection, IsInjective
<1>4. Cardinality(1..n) = n
  BY <1>1, FS_Interval
<1>5. s \in Surjection(1..n, S)
  BY <1>3, <1>4, FS_Injection
<1>6. \A x \in S : \E i \in 1..n : s[i] = x
  BY <1>5 DEF Surjection
<1>7. s \in Seq(S) /\ Len(s) = n /\ DOMAIN s = 1..n
  BY <1>1, <1>2
<1> QED  BY <1>1, <1>2, <1>6, <1>7

Places(s, k) == {s[i] : i \in 1..k}

\* The first k elements of an ordering are k.
LEMMA FirstPlaces ==
    ASSUME NEW n \in Nat, NEW s, DOMAIN s = 1..n, \A i, j \in 1..n : s[i] = s[j] => i = j,
           NEW k \in 0..n
    PROVE  Cardinality(Places(s, k)) = k
<1> DEFINE T == {s[i] : i \in 1..k}
           f == [i \in 1..k |-> s[i]]
<1>1. f \in Bijection(1..k, T)
  BY DEF Bijection, Injection, Surjection, IsInjective
<1>2. ExistsBijection(1..k, T)
  BY <1>1 DEF ExistsBijection
<1>3. IsFiniteSet(1..k) /\ Cardinality(1..k) = k
  BY FS_Interval
<1> QED  BY <1>2, <1>3, FS_Bijection DEF Places

LEMMA MinOfTwo ==
    ASSUME NEW a \in Int, NEW b \in Int
    PROVE  Min({a, b}) = IF a <= b THEN a ELSE b
BY DEF Min

\* LIMIT and OFFSET cut a page out of an ordering.
LEMMA PageOf ==
    ASSUME NEW S, NEW s \in Seq(S), NEW offset \in Nat
    PROVE  /\ Page(s, offset) \in Seq(S)
           /\ Len(Page(s, offset)) < Limit => Len(s) < offset + Limit
           /\ \A i \in DOMAIN s : i > offset /\ i <= offset + Limit => s[i] \in ToSet(Page(s, offset))
           /\ ToSet(Page(s, offset)) \subseteq S
<1> DEFINE m == IF offset + Limit <= Len(s) THEN offset + Limit ELSE Len(s)
           items == SubSeq(s, offset + 1, m)
<1>1. Limit \in Nat \ {0} /\ Len(s) \in Nat
  BY ReadAssumption
<1>2. Page(s, offset) = items /\ m \in Nat /\ m <= Len(s)
  BY <1>1, MinOfTwo DEF Page
<1>3. /\ items \in Seq(S) /\ Len(items) = IF offset + 1 <= m THEN m - offset ELSE 0
      /\ \A i \in 1..Len(items) : items[i] = s[offset + i]
  BY <1>1, <1>2
<1>4. ASSUME NEW i \in DOMAIN s, i > offset, i <= offset + Limit
      PROVE  s[i] \in ToSet(items)
  <2>1. i \in 1..Len(s) /\ i - offset \in 1..Len(items)
    BY <1>1, <1>3, <1>4
  <2>2. s[i] = items[i - offset] /\ i - offset \in DOMAIN items
    BY <1>3, <2>1
  <2> HIDE DEF items
  <2> QED  BY <2>2 DEF ToSet
<1>5. ToSet(items) \subseteq S
  <2> HIDE DEF items
  <2> QED  BY <1>3 DEF ToSet
<1> QED  BY <1>1, <1>2, <1>3, <1>4, <1>5

-----------------------------------------------------------------------------
(* The table *)

\* A stored row has its columns, and a filter selects finitely many of them.
LEMMA Rows ==
    ASSUME TypeInv
    PROVE  /\ \A e \in Stored : rows[e] \in Row
           /\ \A e \in Stored : rows[e].received_at \in Int
           /\ \A source : From(source) \subseteq Stored /\ IsFiniteSet(From(source))
           /\ \A source, e : IsFiniteSet(Newer(e, source))
<1>1. \A e \in Stored : rows[e] \in Row
  BY DEF TypeInv, Stored
<1>2. MaxTime \in Nat
  BY ReadAssumption
<1>3. \A e \in Stored : rows[e].received_at \in Int
  BY <1>1, <1>2 DEF Row
<1>4. \A source : From(source) \subseteq Stored
  BY DEF From
<1>5. \A source : IsFiniteSet(From(source))
  BY <1>4, FS_Subset DEF TypeInv
<1>6. ASSUME NEW source, NEW e
      PROVE  IsFiniteSet(Newer(e, source))
  <2>1. Newer(e, source) \subseteq From(source)
    BY DEF Newer
  <2> QED  BY <2>1, <1>5, FS_Subset
<1> QED  BY <1>1, <1>3, <1>4, <1>5, <1>6

\* A row alone at its received_at that is behind the pages read so far is on the
\* next page, or that page is full and the row is behind it too.
LEMMA NextPage ==
    ASSUME TypeInv, NEW source, NEW offset \in Nat, NEW items \in list_events(source, offset),
           NEW e \in From(source), Distinct(e), Cardinality(Newer(e, source)) >= offset
    PROVE  \/ e \in ToSet(items)
           \/ Len(items) >= Limit /\ Cardinality(Newer(e, source)) >= offset + Limit
<1> DEFINE S == From(source)
<1>1. Limit \in Nat \ {0}
  BY ReadAssumption
<1>2. PICK s \in SetToSeqs(S) :
        /\ items = Page(s, offset)
        /\ \A i, j \in DOMAIN s : i < j => rows[s[i]].received_at >= rows[s[j]].received_at
  BY DEF list_events
<1>3. IsFiniteSet(S) /\ S \subseteq Stored /\ \A f \in Stored : rows[f].received_at \in Int
  BY Rows
<1> DEFINE n == Cardinality(S)
<1>4. /\ n \in Nat /\ s \in Seq(S) /\ Len(s) = n /\ DOMAIN s = 1..n
      /\ \A i, j \in 1..n : s[i] = s[j] => i = j
      /\ \A x \in S : \E i \in 1..n : s[i] = x
      /\ \A i \in 1..n : s[i] \in S
  <2> HIDE DEF S
  <2>1. /\ n \in Nat /\ s \in Seq(S) /\ Len(s) = n /\ DOMAIN s = 1..n
        /\ \A i, j \in DOMAIN s : s[i] = s[j] => i = j
        /\ \A x \in S : \E i \in DOMAIN s : s[i] = x
    BY <1>2, <1>3, Ordering
  <2>2. \A i \in 1..n : s[i] \in S
    BY <2>1
  <2> QED  BY <2>1, <2>2
<1>5. PICK p \in 1..n : s[p] = e
  BY <1>4
<1> DEFINE T == {s[i] : i \in 1..(p - 1)}
<1>6. Newer(e, source) = T
  <2>1. ASSUME NEW f \in Newer(e, source)
        PROVE  f \in T
    <3>1. f \in S /\ rows[f].received_at > rows[e].received_at
      BY DEF Newer
    <3>2. PICK j \in 1..n : s[j] = f
      BY <1>4, <3>1
    <3>3. rows[f].received_at \in Int /\ rows[e].received_at \in Int
      BY <1>3, <3>1
    <3>4. j # p /\ ~(p < j)
      BY <1>2, <1>4, <1>5, <3>1, <3>2, <3>3
    <3>5. j \in 1..(p - 1)
      BY <1>4, <1>5, <3>2, <3>4
    <3> QED  BY <3>2, <3>5
  <2>2. ASSUME NEW j \in 1..(p - 1)
        PROVE  s[j] \in Newer(e, source)
    <3>1. j \in 1..n /\ j < p
      BY <1>4, <1>5
    <3>2. s[j] \in S /\ s[j] # e /\ rows[s[j]].received_at >= rows[e].received_at
      BY <1>2, <1>4, <1>5, <3>1
    <3>3. rows[s[j]].received_at # rows[e].received_at
      BY <1>3, <3>2 DEF Distinct
    <3>4. rows[s[j]].received_at \in Int /\ rows[e].received_at \in Int
      BY <1>3, <3>2
    <3>5. rows[s[j]].received_at > rows[e].received_at
      BY <3>2, <3>3, <3>4
    <3> QED  BY <3>2, <3>5 DEF Newer
  <2> QED  BY <2>1, <2>2
<1>7. Cardinality(T) = p - 1
  <2>1. p - 1 \in 0..n
    BY <1>4, <1>5
  <2>2. n \in Nat /\ DOMAIN s = 1..n /\ \A i, j \in 1..n : s[i] = s[j] => i = j
    BY <1>4
  <2> HIDE DEF n
  <2>3. ASSUME NEW k \in 0..n
        PROVE  Cardinality(Places(s, k)) = k
    BY <2>2, FirstPlaces
  <2> QED  BY <2>1, <2>3 DEF Places
<1>8. p > offset
  BY <1>6, <1>7, <1>4, <1>5
<1>9. CASE p <= offset + Limit
  <2> HIDE DEF S, n, T
  <2>1. p \in DOMAIN s /\ s \in Seq(S)
    BY <1>4, <1>5
  <2>2. s[p] \in ToSet(Page(s, offset))
    BY <2>1, <1>8, <1>9, PageOf
  <2> QED  BY <2>2, <1>2, <1>5
<1>10. CASE ~(p <= offset + Limit)
  <2> HIDE DEF S, n, T
  <2>1. Len(s) >= offset + Limit
    BY <1>1, <1>4, <1>5, <1>10
  <2>2. ~(Len(items) < Limit)
    BY <1>1, <1>2, <1>4, <2>1, PageOf
  <2>3. Len(items) \in Nat
    BY <1>2, <1>4, PageOf
  <2>4. Cardinality(Newer(e, source)) >= offset + Limit
    BY <1>1, <1>4, <1>5, <1>6, <1>7, <1>10
  <2> QED  BY <1>1, <2>2, <2>3, <2>4
<1> QED  BY <1>9, <1>10

-----------------------------------------------------------------------------
(* The invariant *)

LEMMA InitIInv == Init => IInv
<1> SUFFICES ASSUME Init
             PROVE  IInv
  OBVIOUS
<1>1. Stored = {} /\ IsFiniteSet({})
  BY FS_EmptySet DEF Init, Stored
<1>2. rows \in [Events -> Row \cup {NoRow}] /\ pager \in PagerState
  BY DEF Init, PagerState
<1>3. summary \in Summary /\ summary.executed = 0
  BY DEF Init, NoSummary, Summary
<1>4. pager.pc = "idle"
  BY DEF Init
<1> QED  BY <1>1, <1>2, <1>3, <1>4 DEF IInv, TypeInv, FiguresGrow, OwedIsAhead

\* What intake and processing do to the table: rows are added, and a row keeps its
\* received_at and its source.  Neither the figures nor the pages lose by it.
LEMMA TableGrows ==
    ASSUME IInv, UNCHANGED <<pager, summary>>, Stored \subseteq Stored', IsFiniteSet(Stored'),
           \A f \in Stored' : rows'[f].received_at \in Int,
           \A f \in Stored : rows'[f].received_at = rows[f].received_at
                             /\ rows'[f].source = rows[f].source
    PROVE  FiguresGrow' /\ OwedIsAhead'
<1>1. /\ Cardinality(Stored) \in Nat /\ Cardinality(Stored') \in Nat
      /\ Cardinality(Stored) <= Cardinality(Stored')
  BY FS_Subset, FS_CardinalityType DEF IInv, TypeInv
<1>2. FiguresGrow'
  <2>1. summary.total \in Nat /\ summary.status \in Nat
    BY DEF IInv, TypeInv, Summary
  <2> QED  BY <1>1, <2>1 DEF IInv, FiguresGrow
<1>3. OwedIsAhead'
  <2> SUFFICES ASSUME pager.pc # "idle", NEW e \in pager.expected
               PROVE  /\ (e \in From(pager.source))'
                      /\ Distinct(e)' /\ e \notin pager.got =>
                            /\ pager.pc = "paging"
                            /\ Cardinality(Newer(e, pager.source)') >= pager.offset
    BY DEF OwedIsAhead
  <2>1. e \in From(pager.source) /\ e \in Stored
    BY DEF IInv, OwedIsAhead, From
  <2>2. From(pager.source) \subseteq From(pager.source)'
    BY DEF From
  <2>3. ASSUME Distinct(e)', e \notin pager.got
        PROVE  /\ pager.pc = "paging"
               /\ Cardinality(Newer(e, pager.source)') >= pager.offset
    <3>1. Distinct(e)
      BY <2>1, <2>3 DEF Distinct
    <3>2. pager.pc = "paging" /\ Cardinality(Newer(e, pager.source)) >= pager.offset
      BY <2>3, <3>1 DEF IInv, OwedIsAhead
    <3>3. Newer(e, pager.source) \subseteq Newer(e, pager.source)'
      BY <2>1, <2>2 DEF Newer, From
    <3>4. IsFiniteSet(Newer(e, pager.source)')
      <4>1. Newer(e, pager.source)' \subseteq Stored'
        BY DEF Newer, From
      <4> QED  BY <4>1, FS_Subset
    <3>5. /\ Cardinality(Newer(e, pager.source)) <= Cardinality(Newer(e, pager.source)')
          /\ Cardinality(Newer(e, pager.source)) \in Nat
          /\ Cardinality(Newer(e, pager.source)') \in Nat
      BY <3>3, <3>4, FS_Subset, FS_CardinalityType
    <3>6. pager.offset \in Nat
      BY <3>2 DEF IInv, TypeInv, PagerState
    <3> QED  BY <3>2, <3>5, <3>6
  <2> QED  BY <2>1, <2>2, <2>3
<1> QED  BY <1>2, <1>3

LEMMA InsertIInv ==
    ASSUME IInv, NEW e \in Events, NEW time \in 0..MaxTime, NEW source \in Sources,
           Insert(e, time, source)
    PROVE  IInv'
<1> DEFINE row == [received_at |-> time, source |-> source, status |-> PENDING]
<1>1. row \in Row /\ row # NoRow
  BY DEF Row, NoRow, ProcessingStatus, PENDING
<1>2. rows \in [Events -> Row \cup {NoRow}] /\ rows' = [rows EXCEPT ![e] = row] /\ rows[e] = NoRow
  BY DEF IInv, TypeInv, Insert
<1> HIDE DEF row
<1>3. Stored' = Stored \cup {e}
  BY <1>1, <1>2 DEF Stored
<1>4. IsFiniteSet(Stored')
  BY <1>3, FS_AddElement DEF IInv, TypeInv
<1>5. rows' \in [Events -> Row \cup {NoRow}]
  BY <1>1, <1>2
<1>6. \A f \in Stored : rows'[f] = rows[f]
  BY <1>2 DEF Stored
<1>7. \A f \in Stored' : rows'[f].received_at \in Int
  <2>1. \A f \in Stored' : rows'[f] \in Row
    BY <1>5 DEF Stored
  <2> QED  BY <2>1, ReadAssumption DEF Row
<1>8. UNCHANGED <<pager, summary>>
  BY DEF Insert
<1>9. TypeInv'
  BY <1>4, <1>5, <1>8 DEF IInv, TypeInv
<1>10. FiguresGrow' /\ OwedIsAhead'
  BY <1>3, <1>4, <1>6, <1>7, <1>8, TableGrows
<1> QED  BY <1>9, <1>10 DEF IInv

LEMMA UpdateStatusIInv ==
    ASSUME IInv, NEW e \in Events, NEW status \in ProcessingStatus, UpdateStatus(e, status)
    PROVE  IInv'
<1> DEFINE row == [rows[e] EXCEPT !.status = status]
<1>1. rows[e] \in Row
  BY Rows DEF IInv, UpdateStatus
<1>2. /\ row \in Row /\ row # NoRow
      /\ row.received_at = rows[e].received_at /\ row.source = rows[e].source
  BY <1>1 DEF Row, NoRow, ProcessingStatus, PENDING, PROCESSED, FAILED
<1>3. /\ rows \in [Events -> Row \cup {NoRow}] /\ rows[e] # NoRow
      /\ rows' = [rows EXCEPT ![e] = row]
  BY DEF IInv, TypeInv, UpdateStatus, Stored
<1> HIDE DEF row
<1>4. Stored' = Stored
  BY <1>2, <1>3 DEF Stored
<1>5. IsFiniteSet(Stored')
  BY <1>4 DEF IInv, TypeInv
<1>6. rows' \in [Events -> Row \cup {NoRow}]
  BY <1>2, <1>3
<1>7. \A f \in Stored : rows'[f].received_at = rows[f].received_at /\ rows'[f].source = rows[f].source
  BY <1>2, <1>3 DEF Stored
<1>8. \A f \in Stored' : rows'[f].received_at \in Int
  BY <1>4, <1>7, Rows DEF IInv
<1>9. UNCHANGED <<pager, summary>>
  BY DEF UpdateStatus
<1>10. TypeInv'
  BY <1>5, <1>6, <1>9 DEF IInv, TypeInv
<1>11. FiguresGrow' /\ OwedIsAhead'
  BY <1>4, <1>5, <1>7, <1>8, <1>9, TableGrows
<1> QED  BY <1>10, <1>11 DEF IInv

LEMMA StartPagingIInv ==
    ASSUME IInv, NEW source \in Sources \cup {NoSource}, StartPaging(source)
    PROVE  IInv'
<1>1. UNCHANGED <<rows, summary>>
  BY DEF StartPaging
<1>2. /\ pager'.pc = "paging" /\ pager'.offset = 0 /\ pager'.source = source
      /\ pager'.expected = From(source)
  BY DEF StartPaging
<1>3. Stored' = Stored /\ \A src : From(src)' = From(src)
  BY <1>1 DEF Stored, From
<1>4. \A e : Newer(e, source)' = Newer(e, source)
  BY <1>1, <1>3 DEF Newer
<1>5. pager' \in PagerState
  BY DEF StartPaging, PagerState, From, Stored
<1>6. TypeInv' /\ FiguresGrow'
  BY <1>1, <1>3, <1>5 DEF IInv, TypeInv, FiguresGrow
<1>7. OwedIsAhead'
  <2>1. \A e : Cardinality(Newer(e, source)) \in Nat
    BY Rows, FS_CardinalityType DEF IInv
  <2>2. \A e : Cardinality(Newer(e, source)') >= 0
    BY <2>1, <1>4
  <2>3. \A e \in From(source) : e \in From(source)'
    BY <1>3
  <2> QED  BY <1>2, <2>2, <2>3 DEF OwedIsAhead
<1> QED  BY <1>6, <1>7 DEF IInv

LEMMA get_eventsIInv ==
    ASSUME IInv, get_events
    PROVE  IInv'
<1> DEFINE source == pager.source
           offset == pager.offset
<1>1. UNCHANGED <<rows, summary>> /\ pager.pc = "paging"
  BY DEF get_events
<1>2. Limit \in Nat \ {0}
  BY ReadAssumption
<1>3. /\ pager \in [pc : {"paging", "done"}, source : Sources \cup {NoSource}, offset : Nat,
                    got : SUBSET Events, expected : SUBSET Events]
  BY <1>1 DEF IInv, TypeInv, PagerState
<1>4. PICK items \in list_events(source, offset) :
        pager' = [pager EXCEPT !.got = @ \cup ToSet(items), !.offset = @ + Limit,
                               !.pc = IF Len(items) < Limit THEN "done" ELSE "paging"]
  BY DEF get_events
<1>5. ToSet(items) \subseteq Events /\ Len(items) \in Nat
  <2>1. PICK s \in SetToSeqs(From(source)) : items = Page(s, offset)
    BY DEF list_events
  <2>2. s \in Seq(From(source))
    BY <2>1, Rows, Ordering DEF IInv
  <2>3. ToSet(items) \subseteq From(source) /\ items \in Seq(From(source))
    BY <1>3, <2>1, <2>2, PageOf
  <2>4. From(source) \subseteq Events
    BY DEF From, Stored
  <2> QED  BY <2>3, <2>4
<1>6. /\ pager'.got = pager.got \cup ToSet(items) /\ pager'.offset = offset + Limit
      /\ pager'.pc = IF Len(items) < Limit THEN "done" ELSE "paging"
      /\ pager'.source = source /\ pager'.expected = pager.expected
  BY <1>3, <1>4
<1>7. pager' \in PagerState
  <2>1. /\ pager.offset + Limit \in Nat /\ pager.got \cup ToSet(items) \in SUBSET Events
        /\ (IF Len(items) < Limit THEN "done" ELSE "paging") \in {"paging", "done"}
    BY <1>2, <1>3, <1>5
  <2> QED  BY <1>3, <1>4, <2>1 DEF PagerState
<1>8. Stored' = Stored /\ \A src : From(src)' = From(src)
  BY <1>1 DEF Stored, From
<1>9. \A e, src : Newer(e, src)' = Newer(e, src)
  BY <1>1, <1>8 DEF Newer
<1>10. TypeInv' /\ FiguresGrow'
  BY <1>1, <1>7, <1>8 DEF IInv, TypeInv, FiguresGrow
<1>11. ASSUME NEW e \in pager.expected
       PROVE  /\ e \in From(source)
              /\ Distinct(e) /\ e \notin pager'.got =>
                    pager'.pc = "paging" /\ Cardinality(Newer(e, source)) >= offset + Limit
  <2>1. e \in From(source)
    BY <1>1 DEF IInv, OwedIsAhead
  <2>2. ASSUME Distinct(e), e \notin pager'.got
        PROVE  pager'.pc = "paging" /\ Cardinality(Newer(e, source)) >= offset + Limit
    <3>1. e \notin pager.got /\ e \notin ToSet(items)
      BY <1>6, <2>2
    <3>2. Cardinality(Newer(e, source)) >= offset
      BY <1>1, <2>2, <3>1 DEF IInv, OwedIsAhead
    <3>3. TypeInv /\ offset \in Nat
      BY <1>3 DEF IInv
    <3>4. Len(items) >= Limit /\ Cardinality(Newer(e, source)) >= offset + Limit
      BY <2>1, <2>2, <3>1, <3>2, <3>3, NextPage
    <3>5. ~(Len(items) < Limit)
      BY <1>2, <1>5, <3>4
    <3> QED  BY <1>6, <3>4, <3>5
  <2> QED  BY <2>1, <2>2
<1>12. OwedIsAhead'
  <2>1. \A e : Distinct(e)' <=> Distinct(e)
    BY <1>1, <1>8 DEF Distinct
  <2>2. From(pager.source)' = From(source)
    BY <1>6, <1>8 DEF From
  <2>3. \A e : Newer(e, pager.source)' = Newer(e, source)
    BY <1>1, <2>2 DEF Newer
  <2> QED  BY <1>6, <1>11, <2>1, <2>2, <2>3 DEF OwedIsAhead
<1> QED  BY <1>10, <1>12 DEF IInv

LEMMA StopPagingIInv ==
    ASSUME IInv, StopPaging
    PROVE  IInv'
<1>1. UNCHANGED <<rows, summary>> /\ pager' = [pc |-> "idle"]
  BY DEF StopPaging
<1>2. Stored' = Stored
  BY <1>1 DEF Stored
<1>3. pager' \in PagerState /\ pager'.pc = "idle"
  BY <1>1 DEF PagerState
<1> QED  BY <1>1, <1>2, <1>3 DEF IInv, TypeInv, FiguresGrow, OwedIsAhead

-----------------------------------------------------------------------------
(* The summary *)

LEMMA DisjointUnion ==
    ASSUME NEW S, NEW T, IsFiniteSet(S), IsFiniteSet(T), S \cap T = {}
    PROVE  Cardinality(S \cup T) = Cardinality(S) + Cardinality(T)
<1>1. Cardinality(S \cap T) = 0
  BY FS_EmptySet, Zenon
<1>2. Cardinality(S \cup T) = Cardinality(S) + Cardinality(T) - Cardinality(S \cap T)
  BY FS_Union
<1>3. Cardinality(S) \in Nat /\ Cardinality(T) \in Nat
  BY FS_CardinalityType
<1> QED  BY <1>1, <1>2, <1>3

\* A row has one status, so the three counts together are the table.
LEMMA StatusesAreTheTable ==
    ASSUME TypeInv
    PROVE  Figure("status") = Cardinality(Stored)
<1> DEFINE P == {e \in Stored : rows[e].status = PENDING}
           D == {e \in Stored : rows[e].status = PROCESSED}
           F == {e \in Stored : rows[e].status = FAILED}
<1>1. PENDING # PROCESSED /\ PENDING # FAILED /\ PROCESSED # FAILED
  BY DEF PENDING, PROCESSED, FAILED
<1>2. \A e \in Stored : rows[e].status \in ProcessingStatus
  BY Rows DEF Row
<1>3. Stored = (P \cup D) \cup F /\ P \cap D = {} /\ (P \cup D) \cap F = {}
  BY <1>1, <1>2 DEF ProcessingStatus
<1>4. IsFiniteSet(P) /\ IsFiniteSet(D) /\ IsFiniteSet(F)
  BY FS_Subset DEF TypeInv
<1>5. Figure("status") = (Cardinality(P) + Cardinality(D)) + Cardinality(F)
  BY DEF Figure, WithStatus
<1> HIDE DEF P, D, F
<1>6. Cardinality(P) \in Nat /\ Cardinality(D) \in Nat /\ Cardinality(F) \in Nat
  BY <1>4, FS_CardinalityType
<1>7. IsFiniteSet(P \cup D)
  BY <1>4, FS_Union
<1>8. Cardinality(P \cup D) = Cardinality(P) + Cardinality(D)
  BY <1>3, <1>4, DisjointUnion
<1>9. Cardinality((P \cup D) \cup F) = Cardinality(P \cup D) + Cardinality(F)
  BY <1>3, <1>4, <1>7, DisjointUnion
<1> QED  BY <1>3, <1>5, <1>8, <1>9

LEMMA get_events_summaryIInv ==
    ASSUME IInv, get_events_summary
    PROVE  IInv'
<1> DEFINE n == Cardinality(Stored)
           done == summary.executed
<1>1. UNCHANGED <<rows, pager>>
  BY DEF get_events_summary
<1>2. Stored' = Stored /\ n \in Nat
  BY <1>1, FS_CardinalityType DEF Stored, IInv, TypeInv
<1>3. summary \in Summary /\ done \in 0..2
  BY DEF IInv, TypeInv, Summary, get_events_summary, Statements
<1>4. Figure("total") = n /\ Figure("status") = n /\ Figure("by_source") = n
  <2>1. Figure("total") = n
    BY DEF Figure
  <2>2. Figure("status") = n
    BY StatusesAreTheTable DEF IInv
  <2>3. \A e \in Stored : rows[e].source \in Sources
    BY Rows DEF IInv, Row
  <2>4. {e \in Stored : rows[e].source \in Sources} = Stored
    BY <2>3
  <2>5. Figure("by_source") = WithSource
    BY DEF Figure
  <2> QED  BY <2>1, <2>2, <2>4, <2>5 DEF WithSource
<1> DEFINE Now(executed, total, status, by_source) ==
             [executed |-> executed, total |-> total, status |-> status, by_source |-> by_source]
<1>5. summary = Now(done, summary.total, summary.status, summary.by_source)
  BY <1>3 DEF Summary
<1>6. summary' \in Summary /\ FiguresGrow'
  <2>1. Cardinality(Stored)' = n
    BY <1>2
  <2>2. summary.total \in Nat /\ summary.status \in Nat /\ summary.by_source \in Nat
    BY <1>3 DEF Summary
  <2>3. \A statement : statement = Statements[done + 1] =>
           summary' = [summary EXCEPT !.executed = done + 1, ![statement] = Figure(statement)]
    BY <1>3 DEF get_events_summary
  <2>4. CASE done = 0
    <3>1. Statements[done + 1] = "total" /\ done + 1 = 1
      BY <2>4 DEF Statements
    <3>2. summary' = [summary EXCEPT !.executed = 1, !["total"] = n]
      BY <1>4, <2>3, <3>1, Zenon
    <3> HIDE DEF n
    <3>3. summary' = Now(1, n, summary.status, summary.by_source)
      BY <1>5, <3>2
    <3> QED  BY <1>2, <2>1, <2>2, <3>3 DEF FiguresGrow, Summary
  <2>5. CASE done = 1
    <3>1. Statements[done + 1] = "status" /\ done + 1 = 2
      BY <2>5 DEF Statements
    <3>2. summary' = [summary EXCEPT !.executed = 2, !["status"] = n]
      BY <1>4, <2>3, <3>1, Zenon
    <3>3. summary.total <= n
      BY <2>5 DEF IInv, FiguresGrow
    <3> HIDE DEF n
    <3>4. summary' = Now(2, summary.total, n, summary.by_source)
      BY <1>5, <3>2
    <3> QED  BY <1>2, <2>1, <2>2, <3>3, <3>4 DEF FiguresGrow, Summary
  <2>6. CASE done = 2
    <3>1. Statements[done + 1] = "by_source" /\ done + 1 = 3
      BY <2>6 DEF Statements
    <3>2. summary' = [summary EXCEPT !.executed = 3, !["by_source"] = n]
      BY <1>4, <2>3, <3>1, Zenon
    <3>3. summary.total <= summary.status /\ summary.status <= n
      BY <2>6 DEF IInv, FiguresGrow
    <3> HIDE DEF n
    <3>4. summary' = Now(3, summary.total, summary.status, n)
      BY <1>5, <3>2
    <3> QED  BY <1>2, <2>1, <2>2, <3>3, <3>4 DEF FiguresGrow, Summary
  <2> QED  BY <1>3, <2>4, <2>5, <2>6
<1>7. TypeInv'
  BY <1>1, <1>2, <1>6 DEF IInv, TypeInv
<1>8. OwedIsAhead'
  BY <1>1, <1>2 DEF IInv, OwedIsAhead, From, Distinct, Newer
<1> QED  BY <1>6, <1>7, <1>8 DEF IInv

LEMMA AnswerSummaryIInv ==
    ASSUME IInv, AnswerSummary
    PROVE  IInv'
<1>1. UNCHANGED <<rows, pager>> /\ summary' = NoSummary
  BY DEF AnswerSummary
<1>2. summary' \in Summary /\ summary'.executed = 0
  BY <1>1 DEF NoSummary, Summary
<1>3. Stored' = Stored
  BY <1>1 DEF Stored
<1>4. TypeInv' /\ FiguresGrow'
  BY <1>1, <1>2, <1>3 DEF IInv, TypeInv, FiguresGrow
<1>5. OwedIsAhead'
  BY <1>1, <1>3 DEF IInv, OwedIsAhead, From, Distinct, Newer
<1> QED  BY <1>4, <1>5 DEF IInv

-----------------------------------------------------------------------------
(* The theorems *)

\* IInv is inductive: every statement of the two endpoints, and every change of
\* the table between them, keeps it.
THEOREM ReadInvariant == Spec => []IInv
<1>1. IInv /\ [Next]_vars => IInv'
  <2> SUFFICES ASSUME IInv, [Next]_vars
               PROVE  IInv'
    OBVIOUS
  <2>1. CASE Next
    BY <2>1, InsertIInv, UpdateStatusIInv, StartPagingIInv, get_eventsIInv, StopPagingIInv,
       get_events_summaryIInv, AnswerSummaryIInv DEF Next
  <2>2. CASE UNCHANGED vars
    <3>1. UNCHANGED <<rows, pager, summary>>
      BY <2>2 DEF vars
    <3>2. Stored' = Stored
      BY <3>1 DEF Stored
    <3>3. TypeInv' /\ FiguresGrow'
      BY <3>1, <3>2 DEF IInv, TypeInv, FiguresGrow
    <3>4. OwedIsAhead'
      BY <3>1, <3>2 DEF IInv, OwedIsAhead, From, Distinct, Newer
    <3> QED  BY <3>3, <3>4 DEF IInv
  <2> QED  BY <2>1, <2>2
<1> QED  BY <1>1, InitIInv, PTL DEF Spec

\* A client that pages GET /events to its end has been given every event that was
\* there when it began and shares its received_at with no other, whatever was
\* inserted and processed between its requests (crud.list_events).
THEOREM PagesMissNothing == Spec => []PagingIsComplete
<1>1. IInv => PagingIsComplete
  BY DEF IInv, OwedIsAhead, PagingIsComplete
<1> QED  BY <1>1, ReadInvariant, PTL

\* The figures of one GET /events/summary come in the order its statements run:
\* total, then the statuses together, then the sources together.
THEOREM SummaryInOrder == Spec => []SummaryIsOrdered
<1>1. IInv => SummaryIsOrdered
  BY DEF IInv, FiguresGrow, SummaryIsOrdered, Statements
<1> QED  BY <1>1, ReadInvariant, PTL

=============================================================================
