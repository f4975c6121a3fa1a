-------------------------- MODULE MonitoringProofs --------------------------
(***************************************************************************)
(* Proofs about Monitoring, for any number of concurrent probes and        *)
(* readers, every backend and any number of outages.                       *)
(***************************************************************************)
EXTENDS Monitoring, TLAPS

Pinging == [pc : {"ping_queue"}, db_ok : BOOLEAN]

ProbeState ==
         [pc : {"idle", "ping_db"}]
    \cup Pinging
    \cup [pc : {"snapshot"}, read : Seq(Nat), of : Pinging]
    \cup [pc : {"answered"}, code : {200, 503}]

TypeInv ==
    /\ backend \in {"inline", "redis", "rabbitmq"}
    /\ up \subseteq Dependencies
    /\ depth \in [Lanes -> Nat]
    /\ DOMAIN actor = Probes \cup Readers \cup {Poller}
    /\ \A r \in Probes : actor[r] \in ProbeState
    /\ was \in [Probes -> [up : SUBSET Dependencies, down : SUBSET Dependencies]]

\* The history of a probe has everything that is so now.
WasKeepsUp(r) ==
    actor[r].pc # "idle" => up \subseteq was[r].up /\ Dependencies \ up \subseteq was[r].down

\* ping_db said what was so at some moment of the request.
DatabaseWas(r, db_ok) ==
    IF db_ok THEN "database" \in was[r].up ELSE "database" \in was[r].down

\* What a probe has found out so far is true of the time it has run for.
EvidenceOf(r) ==
    /\ actor[r].pc = "ping_queue" => DatabaseWas(r, actor[r].db_ok)
    /\ actor[r].pc = "snapshot" =>
          /\ is_queue_enabled
          /\ DatabaseWas(r, actor[r].of.db_ok)
          /\ Len(actor[r].read) > 0 => "queue" \in was[r].up
    /\ actor[r].pc = "answered" =>
          /\ actor[r].code = 200 => Needed \subseteq was[r].up
          /\ actor[r].code = 503 => Needed \cap was[r].down # {}

IInv == TypeInv /\ \A r \in Probes : WasKeepsUp(r) /\ EvidenceOf(r)

-----------------------------------------------------------------------------

LEMMA ProbeStates ==
    /\ \A s \in ProbeState :
          /\ s.pc \in {"idle", "ping_db", "ping_queue", "snapshot", "answered"}
          /\ s.pc = "ping_queue" => s \in Pinging /\ s.db_ok \in BOOLEAN
          /\ s.pc = "snapshot" =>
                /\ s \in [pc : {"snapshot"}, read : Seq(Nat), of : Pinging]
                /\ s.read \in Seq(Nat) /\ s.of \in Pinging /\ s.of.db_ok \in BOOLEAN
    /\ Idle \in ProbeState /\ Idle.pc = "idle"
    /\ [pc |-> "ping_db"] \in ProbeState
    /\ \A ok \in BOOLEAN : [pc |-> "ping_queue", db_ok |-> ok] \in ProbeState
    /\ \A code \in {200, 503} : [pc |-> "answered", code |-> code] \in ProbeState
BY DEF ProbeState, Pinging, Idle

LEMMA AskedIsNotEmpty ==
    ASSUME TypeInv
    PROVE  /\ Asked \in Seq(Lanes)
           /\ is_queue_enabled => Len(Asked) > 0
<1>1. CASE backend = "inline"
  BY <1>1 DEF Asked, is_queue_enabled
<1>2. CASE backend = "redis"
  BY <1>2 DEF Asked, Lanes
<1>3. CASE backend = "rabbitmq"
  BY <1>3 DEF Asked, Lanes
<1> QED  BY <1>1, <1>2, <1>3 DEF TypeInv

LEMMA InitIInv == Init => IInv
<1> SUFFICES ASSUME Init PROVE IInv
  OBVIOUS
<1>1. \A r \in Probes : actor[r] = Idle
  BY DEF Init
<1>2. Idle \in ProbeState /\ Idle.pc = "idle"
  BY ProbeStates
<1>3. TypeInv
  <2>1. was \in [Probes -> [up : SUBSET Dependencies, down : SUBSET Dependencies]]
    BY DEF Init
  <2>2. backend \in {"inline", "redis", "rabbitmq"} /\ up \subseteq Dependencies
    BY MonitoringAssumption DEF Init
  <2>3. depth \in [Lanes -> Nat] /\ DOMAIN actor = Probes \cup Readers \cup {Poller}
    BY DEF Init
  <2> QED  BY <1>1, <1>2, <2>1, <2>2, <2>3 DEF TypeInv
<1> QED  BY <1>1, <1>2, <1>3 DEF IInv, WasKeepsUp, EvidenceOf

\* A step that concerns no probe's evidence: another actor moves, a depth changes,
\* a failure is counted or scraped.
LEMMA OthersMove ==
    ASSUME IInv, UNCHANGED <<backend, up, was>>, depth' \in [Lanes -> Nat],
           DOMAIN actor' = DOMAIN actor, \A r \in Probes : actor'[r] = actor[r]
    PROVE  IInv'
<1>1. TypeInv'
  BY DEF IInv, TypeInv
<1>2. \A r \in Probes : WasKeepsUp(r)' /\ EvidenceOf(r)'
  BY DEF IInv, WasKeepsUp, EvidenceOf, DatabaseWas, Needed, is_queue_enabled
<1> QED  BY <1>1, <1>2 DEF IInv

\* One probe goes on; what it knows must be evident from its history.
LEMMA ProbeMoves ==
    ASSUME IInv, NEW r \in Probes, NEW s \in ProbeState, Goto(r, s),
           UNCHANGED environment,
           was' \in [Probes -> [up : SUBSET Dependencies, down : SUBSET Dependencies]],
           \A q \in Probes \ {r} : was'[q] = was[q],
           s.pc # "idle" => up \subseteq was'[r].up /\ Dependencies \ up \subseteq was'[r].down,
           EvidenceOf(r)'
    PROVE  IInv'
<1>1. TypeInv
  BY DEF IInv
<1>2. /\ DOMAIN actor' = DOMAIN actor /\ actor'[r] = s
      /\ \A q \in Probes \ {r} : actor'[q] = actor[q]
  BY <1>1 DEF Goto, TypeInv
<1>3. TypeInv'
  BY <1>1, <1>2 DEF TypeInv, environment
<1>4. WasKeepsUp(r)'
  BY <1>2 DEF WasKeepsUp, environment
<1>5. \A q \in Probes \ {r} : WasKeepsUp(q)' /\ EvidenceOf(q)'
  BY <1>2 DEF IInv, WasKeepsUp, EvidenceOf, DatabaseWas, Needed, is_queue_enabled, environment
<1> QED  BY <1>3, <1>4, <1>5 DEF IInv

LEMMA HealthStep ==
    ASSUME IInv, NEW r \in Probes, health(r)
    PROVE  IInv'
<1>1. /\ Goto(r, [pc |-> "ping_db"]) /\ UNCHANGED environment
      /\ was' = [was EXCEPT ![r] = [up |-> up, down |-> Dependencies \ up]]
  BY DEF health
<1>2. /\ was' \in [Probes -> [up : SUBSET Dependencies, down : SUBSET Dependencies]]
      /\ was'[r].up = up /\ was'[r].down = Dependencies \ up
      /\ \A q \in Probes \ {r} : was'[q] = was[q]
  BY <1>1 DEF IInv, TypeInv
<1>3. actor'[r] = [pc |-> "ping_db"]
  BY <1>1 DEF Goto, IInv, TypeInv
<1>4. EvidenceOf(r)'
  BY <1>3 DEF EvidenceOf
<1>5. [pc |-> "ping_db"] \in ProbeState
  BY ProbeStates
<1> QED  BY <1>1, <1>2, <1>4, <1>5, ProbeMoves

\* The same where the history stays as it is and the probe was running.
LEMMA RunningProbeMoves ==
    ASSUME IInv, NEW r \in Probes, NEW s \in ProbeState, Goto(r, s), actor[r].pc # "idle",
           UNCHANGED <<environment, was>>, EvidenceOf(r)'
    PROVE  IInv'
<1>1. was' \in [Probes -> [up : SUBSET Dependencies, down : SUBSET Dependencies]]
  BY DEF IInv, TypeInv
<1>2. up \subseteq was'[r].up /\ Dependencies \ up \subseteq was'[r].down
  BY DEF IInv, WasKeepsUp
<1> QED  BY <1>1, <1>2, ProbeMoves

LEMMA PingDbStep ==
    ASSUME IInv, NEW r \in Probes, ping_db(r)
    PROVE  IInv'
<1> DEFINE ok == "database" \in up
           s  == [pc |-> "ping_queue", db_ok |-> ok]
<1>1. actor[r].pc = "ping_db" /\ Goto(r, s) /\ UNCHANGED <<environment, was>>
  BY DEF ping_db
<1>2. ok \in BOOLEAN
  OBVIOUS
<1>3. s \in ProbeState
  BY <1>2, ProbeStates
<1>4. IF ok THEN "database" \in was'[r].up ELSE "database" \in was'[r].down
  BY <1>1 DEF IInv, WasKeepsUp, Dependencies
<1> HIDE DEF ok
<1>5. actor'[r].pc = "ping_queue" /\ actor'[r].db_ok = ok
  BY <1>1 DEF Goto, IInv, TypeInv
<1>6. EvidenceOf(r)'
  BY <1>4, <1>5 DEF EvidenceOf, DatabaseWas
<1> QED  BY <1>1, <1>3, <1>6, RunningProbeMoves

\* The answer follows from what the pings found, if that was so.
LEMMA AnswerStep ==
    ASSUME IInv, NEW r \in Probes, NEW db_ok \in BOOLEAN, NEW queue_ok \in BOOLEAN,
           NEW dependencies, Conclude(r, db_ok, queue_ok, dependencies),
           actor[r].pc # "idle", UNCHANGED <<environment, was>>,
           DatabaseWas(r, db_ok),
           is_queue_enabled => IF queue_ok THEN "queue" \in was[r].up ELSE "queue" \in was[r].down
    PROVE  IInv'
<1> DEFINE code == IF ~db_ok \/ (is_queue_enabled /\ ~queue_ok) THEN 503 ELSE 200
           s == [pc |-> "answered", code |-> code]
<1>1. Goto(r, s)
  BY DEF Conclude
<1>2. code \in {200, 503}
  OBVIOUS
<1>3. s \in ProbeState
  BY <1>2, ProbeStates
<1>4. actor'[r] = s
  BY <1>1 DEF Goto, IInv, TypeInv
<1>5. /\ code = 200 => Needed \subseteq was[r].up
      /\ code = 503 => Needed \cap was[r].down # {}
  <2>1. CASE is_queue_enabled
    BY <2>1 DEF Needed, Dependencies, DatabaseWas
  <2>2. CASE ~is_queue_enabled
    BY <2>2 DEF Needed, DatabaseWas
  <2> QED  BY <2>1, <2>2
<1>6. Needed' = Needed
  BY DEF Needed, is_queue_enabled, environment
<1>7. EvidenceOf(r)'
  BY <1>4, <1>5, <1>6 DEF EvidenceOf
<1> QED  BY <1>1, <1>3, <1>7, RunningProbeMoves

LEMMA PingQueueStep ==
    ASSUME IInv, NEW r \in Probes, ping_queue(r)
    PROVE  IInv'
<1> DEFINE dependencies == set_dependency_state(dependency_up, "database", actor[r].db_ok)
<1>1. actor[r].pc = "ping_queue" /\ UNCHANGED <<environment, was>>
  BY DEF ping_queue
<1>2. /\ actor[r] \in Pinging /\ actor[r].db_ok \in BOOLEAN
      /\ DatabaseWas(r, actor[r].db_ok)
      /\ up \subseteq was[r].up /\ Dependencies \ up \subseteq was[r].down
  BY <1>1, ProbeStates DEF IInv, TypeInv, WasKeepsUp, EvidenceOf
<1>3. PICK queue_ok \in Pings :
         IF is_queue_enabled /\ queue_ok
         THEN Goto(r, Snapshot(actor[r]))
         ELSE Conclude(r, actor[r].db_ok, queue_ok, dependencies)
  BY DEF ping_queue
<1>4. queue_ok \in BOOLEAN /\ (~queue_ok => "queue" \notin up)
  BY <1>3 DEF Pings
<1>5. CASE is_queue_enabled /\ queue_ok
  <2>1. Goto(r, Snapshot(actor[r]))
    BY <1>3, <1>5
  <2>2. /\ Snapshot(actor[r]) \in ProbeState
        /\ Snapshot(actor[r]).pc = "snapshot" /\ Snapshot(actor[r]).of = actor[r]
        /\ Snapshot(actor[r]).read = <<>>
    BY <1>2 DEF Snapshot, ProbeState
  <2>3. actor'[r] = Snapshot(actor[r])
    BY <2>1 DEF Goto, IInv, TypeInv
  <2>4. is_queue_enabled' /\ was' = was
    BY <1>1, <1>5 DEF is_queue_enabled, environment
  <2>5. EvidenceOf(r)'
    BY <1>2, <2>2, <2>3, <2>4 DEF EvidenceOf, DatabaseWas
  <2> QED  BY <1>1, <2>1, <2>2, <2>5, RunningProbeMoves
<1>6. CASE ~(is_queue_enabled /\ queue_ok)
  <2>1. Conclude(r, actor[r].db_ok, queue_ok, dependencies)
    BY <1>3, <1>6
  <2>2. is_queue_enabled => IF queue_ok THEN "queue" \in was[r].up ELSE "queue" \in was[r].down
    BY <1>2, <1>4, <1>6 DEF Dependencies
  <2> HIDE DEF dependencies
  <2> QED  BY <1>1, <1>2, <1>4, <2>1, <2>2, AnswerStep
<1> QED  BY <1>5, <1>6

\* A depth that could be read shows that the queue was up.
LEMMA ReadDepthStep ==
    ASSUME IInv, NEW r \in Probes, ReadDepth(r)
    PROVE  IInv'
<1> DEFINE n == depth[Asked[Len(actor[r].read) + 1]]
           s == [actor[r] EXCEPT !.read = Append(@, n)]
<1>1. /\ actor[r].pc = "snapshot" /\ "queue" \in up /\ Goto(r, s)
      /\ Len(actor[r].read) < Len(Asked) /\ UNCHANGED <<environment, was>>
  BY DEF ReadDepth
<1>2. /\ actor[r] \in [pc : {"snapshot"}, read : Seq(Nat), of : Pinging]
      /\ actor[r].read \in Seq(Nat) /\ actor[r].of \in Pinging
  BY <1>1, ProbeStates DEF IInv, TypeInv
<1>3. n \in Nat
  BY <1>1, <1>2, AskedIsNotEmpty DEF IInv, TypeInv
<1> HIDE DEF n
<1>4. Append(actor[r].read, n) \in Seq(Nat) /\ Len(Append(actor[r].read, n)) > 0
  BY <1>2, <1>3
<1>5. /\ s \in [pc : {"snapshot"}, read : Seq(Nat), of : Pinging]
      /\ s.pc = "snapshot" /\ s.of = actor[r].of /\ s.read = Append(actor[r].read, n)
  BY <1>2, <1>4
<1>6. s \in ProbeState
  BY <1>5 DEF ProbeState
<1> HIDE DEF s
<1>7. actor'[r] = s
  BY <1>1 DEF Goto, IInv, TypeInv
<1>8. "queue" \in was[r].up /\ is_queue_enabled /\ DatabaseWas(r, actor[r].of.db_ok)
  BY <1>1 DEF IInv, WasKeepsUp, EvidenceOf
<1>9. is_queue_enabled' /\ was' = was
  BY <1>1, <1>8 DEF is_queue_enabled, environment
<1>10. EvidenceOf(r)'
  BY <1>5, <1>7, <1>8, <1>9 DEF EvidenceOf, DatabaseWas
<1> QED  BY <1>1, <1>6, <1>10, RunningProbeMoves

LEMMA HealthRecordsStep ==
    ASSUME IInv, NEW r \in Probes, HealthRecords(r)
    PROVE  IInv'
<1>1. /\ actor[r].pc = "snapshot" /\ (Done(r) \/ Broken(r))
      /\ Conclude(r, actor[r].of.db_ok, Done(r), dependency_up)
      /\ UNCHANGED <<environment, was>>
  BY DEF HealthRecords, Done, Broken
<1>2. /\ actor[r].of.db_ok \in BOOLEAN /\ actor[r].read \in Seq(Nat)
      /\ is_queue_enabled /\ DatabaseWas(r, actor[r].of.db_ok)
      /\ Len(actor[r].read) > 0 => "queue" \in was[r].up
      /\ Dependencies \ up \subseteq was[r].down
  BY <1>1, ProbeStates DEF IInv, TypeInv, WasKeepsUp, EvidenceOf
<1>3. Len(Asked) > 0
  BY <1>2, AskedIsNotEmpty DEF IInv
<1>4. Done(r) \in BOOLEAN
  BY DEF Done
<1>5. IF Done(r) THEN "queue" \in was[r].up ELSE "queue" \in was[r].down
  BY <1>1, <1>2, <1>3 DEF Done, Broken, Dependencies
<1> QED  BY <1>1, <1>2, <1>4, <1>5, AnswerStep

LEMMA CloseStep ==
    ASSUME IInv, NEW r \in Probes, Close(r)
    PROVE  IInv'
<1>1. actor[r].pc = "answered" /\ Goto(r, Idle) /\ UNCHANGED <<environment, was>>
  BY DEF Close
<1>2. Idle \in ProbeState /\ Idle.pc = "idle"
  BY ProbeStates
<1>3. actor'[r] = Idle
  BY <1>1 DEF Goto, IInv, TypeInv
<1>4. EvidenceOf(r)'
  BY <1>2, <1>3 DEF EvidenceOf
<1> QED  BY <1>1, <1>2, <1>4, RunningProbeMoves

\* An outage, or its end, is added to the history of every probe.
LEMMA DependencyStep ==
    ASSUME IInv, NEW d \in Dependencies, DependencyChanges(d)
    PROVE  IInv'
<1>1. /\ up' \subseteq Dependencies /\ UNCHANGED <<backend, depth, actor>>
      /\ was' = [r \in Probes |-> [up   |-> was[r].up \cup up',
                                   down |-> was[r].down \cup (Dependencies \ up')]]
  BY DEF DependencyChanges, IInv, TypeInv
<1>2. \A r \in Probes :
         /\ was'[r].up = was[r].up \cup up' /\ was'[r].down = was[r].down \cup (Dependencies \ up')
         /\ was[r].up \subseteq Dependencies /\ was[r].down \subseteq Dependencies
  BY <1>1 DEF IInv, TypeInv
<1>3. was' \in [Probes -> [up : SUBSET Dependencies, down : SUBSET Dependencies]]
  BY <1>1, <1>2
<1>4. TypeInv'
  BY <1>1, <1>3 DEF IInv, TypeInv
<1>5. \A r \in Probes : WasKeepsUp(r)'
  BY <1>2 DEF WasKeepsUp
<1>6. Needed' = Needed /\ is_queue_enabled' = is_queue_enabled
  BY <1>1 DEF Needed, is_queue_enabled
<1>7. \A r \in Probes : EvidenceOf(r)'
  BY <1>1, <1>2, <1>6 DEF IInv, EvidenceOf, DatabaseWas
<1> QED  BY <1>4, <1>5, <1>7 DEF IInv

\* The poller, the readers and the environment otherwise.
LEMMA OtherStep ==
    ASSUME IInv,
           \/ _queue_metrics_poller
           \/ \E r \in Readers : Read(r)
           \/ \E l \in Lanes : DepthChanges(l)
           \/ record_processing
           \/ Scrape
    PROVE  IInv'
<1>1. ASSUME NEW a \in Readers \cup {Poller}, NEW s, Goto(a, s), UNCHANGED <<environment, was>>
      PROVE  IInv'
  <2>1. DOMAIN actor' = DOMAIN actor /\ \A r \in Probes : actor'[r] = actor[r]
    BY <1>1, MonitoringAssumption DEF Goto, IInv, TypeInv
  <2>2. UNCHANGED <<backend, up, was>> /\ depth' \in [Lanes -> Nat]
    BY <1>1 DEF environment, IInv, TypeInv
  <2> QED  BY <2>1, <2>2, OthersMove
<1>2. CASE _queue_metrics_poller
  <2>1. \E s : Goto(Poller, s) /\ UNCHANGED <<environment, was>>
    BY <1>2 DEF _queue_metrics_poller, PollerWakes, ReadDepth, PollerRecords
  <2> QED  BY <1>1, <2>1
<1>3. ASSUME NEW r \in Readers, Read(r) PROVE IInv'
  <2>1. \E s : Goto(r, s) /\ UNCHANGED <<environment, was>>
    BY <1>3 DEF Read, get_queue_stats, ReadDepth, StatsRecords
  <2> QED  BY <1>1, <2>1
<1>4. ASSUME NEW l \in Lanes, DepthChanges(l) PROVE IInv'
  <2>1. /\ UNCHANGED <<backend, up, was, actor>>
        /\ \E n \in 0..MaxDepth : depth' = [depth EXCEPT ![l] = n]
    BY <1>4 DEF DepthChanges
  <2>2. depth' \in [Lanes -> Nat]
    BY <2>1, MonitoringAssumption DEF IInv, TypeInv
  <2> QED  BY <2>1, <2>2, OthersMove
<1>5. CASE record_processing \/ Scrape
  <2>1. UNCHANGED <<backend, up, depth, was, actor>>
    BY <1>5 DEF record_processing, Scrape, environment
  <2>2. depth' \in [Lanes -> Nat]
    BY <2>1 DEF IInv, TypeInv
  <2> QED  BY <2>1, <2>2, OthersMove
<1> QED  BY <1>2, <1>3, <1>4, <1>5

LEMMA NextIInv == IInv /\ [Next]_vars => IInv'
<1> SUFFICES ASSUME IInv, [Next]_vars PROVE IInv'
  OBVIOUS
<1>1. ASSUME NEW r \in Probes, Probe(r) PROVE IInv'
  BY <1>1, HealthStep, PingDbStep, PingQueueStep, ReadDepthStep, HealthRecordsStep, CloseStep DEF Probe
<1>2. ASSUME NEW d \in Dependencies, DependencyChanges(d) PROVE IInv'
  BY <1>2, DependencyStep
<1>3. CASE UNCHANGED vars
  <2>1. UNCHANGED <<backend, up, depth, was, actor>>
    BY <1>3 DEF vars, environment
  <2>2. depth' \in [Lanes -> Nat]
    BY <2>1 DEF IInv, TypeInv
  <2> QED  BY <2>1, <2>2, OthersMove
<1> QED  BY <1>1, <1>2, <1>3, OtherStep DEF Next

THEOREM ProbeInvariant == Spec => []IInv
BY InitIInv, NextIInv, PTL DEF Spec

\* /health answers about the time it ran for: 200 only if every dependency the backend
\* needs was up then, 503 only if one was down, whatever comes and goes between its
\* pings and however many probes run.
THEOREM HealthTellsTheTruth == Spec => []HealthIsTruthful
<1>1. IInv => HealthIsTruthful
  BY DEF IInv, EvidenceOf, HealthIsTruthful
<1> QED  BY <1>1, ProbeInvariant, PTL

=============================================================================
