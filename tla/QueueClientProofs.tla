------------------------- MODULE QueueClientProofs --------------------------
(***************************************************************************)
(* Proofs about QueueClient, for any finite number of coroutines that      *)
(* initialise the connection at once and any number of failing calls,      *)
(* crashes and restarts.                                                   *)
(***************************************************************************)
EXTENDS QueueClient, FiniteSetTheorems, TLAPS

Connection == Nat \ {None}

Channel == [on : Connection, by : Coroutines]

Declared == {Topology[i] : i \in DOMAIN Topology}

CallerState ==
         [pc : {"idle", "connect"}]
    \cup [pc : {"open"}, on : Connection]
    \cup [pc : {"declare"}, next : 1..4]
    \cup [pc : {"have"}, channel : Channel]

TypeInv ==
    /\ _rabbitmq_connection \in Connection \cup {None}
    /\ _rabbitmq_channel \in Channel \cup {NoChannel}
    /\ _topology_ready \in BOOLEAN
    /\ caller \in [Coroutines -> CallerState]
    /\ open \subseteq Connection /\ IsFiniteSet(open)
    /\ channels \subseteq Channel /\ IsFiniteSet(channels)
    /\ bound \subseteq Declared
    /\ running \in BOOLEAN
    /\ faults \in 0..MaxFaults

\* The globals name what is open: a known channel is open and its connection is
\* known, on which a coroutine that opens one relies; and while the process runs,
\* nothing is open before the globals name a first connection and a first channel.
GlobalsAreOpen ==
    /\ _rabbitmq_channel # NoChannel
          => _rabbitmq_channel \in channels /\ _rabbitmq_connection # None
    /\ \A c \in Coroutines : caller[c].pc = "open" => _rabbitmq_connection # None
    /\ running /\ _rabbitmq_connection = None => open = {}
    /\ running /\ _rabbitmq_channel = NoChannel => channels = {}

\* A stopped process has no coroutines and no globals.
StoppedIsIdle ==
    ~running => /\ \A c \in Coroutines : caller[c] = Idle
                /\ _rabbitmq_channel = NoChannel

\* The flag is set, and a channel is handed out, only after every declaration has
\* been made; whoever declares has made the earlier ones, on a channel that is
\* known to all.
DeclaredInOrder ==
    /\ _topology_ready => bound = Declared
    /\ \A c \in Coroutines :
          /\ caller[c].pc = "declare" =>
                /\ _rabbitmq_channel # NoChannel
                /\ \A i \in 1..4 : i < caller[c].next => Topology[i] \in bound
          /\ caller[c].pc = "have" => caller[c].channel \in channels /\ bound = Declared

Connecting == {c \in Coroutines : caller[c].pc = "connect"}

Acquiring == {c \in Coroutines : caller[c].pc \in {"connect", "open"}}

\* Who is on the way to a connection or to a channel of its own has none yet, so
\* together they are at most as many as the coroutines.
RoomForCallers ==
    /\ Cardinality(open) + Cardinality(Connecting) <= Cardinality(Coroutines)
    /\ Cardinality(channels) + Cardinality(Acquiring) <= Cardinality(Coroutines)

IInv == TypeInv /\ GlobalsAreOpen /\ StoppedIsIdle /\ DeclaredInOrder /\ RoomForCallers

-----------------------------------------------------------------------------
(* Coroutines and how many of them wait *)

\* What each control state carries, and the states the steps go to.
LEMMA CallerStates ==
    /\ \A s \in CallerState :
          /\ s.pc \in {"idle", "connect", "open", "declare", "have"}
          /\ s.pc = "open" => s.on \in Connection
          /\ s.pc = "declare" => s.next \in 1..4
          /\ s.pc = "have" => s.channel \in Channel
    /\ Idle \in CallerState /\ Idle.pc = "idle"
    /\ [pc |-> "connect"] \in CallerState
    /\ \A n \in Connection : [pc |-> "open", on |-> n] \in CallerState
    /\ \A i \in 1..4 : Declare(i) \in CallerState /\ Declare(i).pc = "declare" /\ Declare(i).next = i
    /\ \A ch \in Channel : Have(ch) \in CallerState /\ Have(ch).pc = "have" /\ Have(ch).channel = ch
    /\ NoChannel \notin Channel
BY DEF CallerState, Idle, Declare, Have, Channel, Connection, NoChannel, None

LEMMA TopologyLength == Len(Topology) = 4 /\ DOMAIN Topology = 1..4
BY DEF Topology

\* One element moves into or out of a finite set.
LEMMA MoveOne ==
    ASSUME NEW S, NEW T, NEW c, IsFiniteSet(S), S \ {c} = T \ {c}
    PROVE  /\ IsFiniteSet(T)
           /\ Cardinality(T) = Cardinality(S) - (IF c \in S THEN 1 ELSE 0)
                                              + (IF c \in T THEN 1 ELSE 0)
<1>1. IsFiniteSet(S \ {c}) /\ Cardinality(S) \in Nat
  BY FS_RemoveElement, FS_CardinalityType
<1>2. Cardinality(S \ {c}) = Cardinality(S) - (IF c \in S THEN 1 ELSE 0)
  BY <1>1, FS_RemoveElement
<1>3. CASE c \in T
  <2>1. T = (S \ {c}) \cup {c} /\ c \notin S \ {c}
    BY <1>3
  <2> QED  BY <1>1, <1>2, <1>3, <2>1, FS_AddElement
<1>4. CASE c \notin T
  <2>1. T = S \ {c}
    BY <1>4
  <2> QED  BY <1>1, <1>2, <1>4, <2>1
<1> QED  BY <1>3, <1>4

\* A step moves one coroutine, and the counts follow it.
LEMMA CallerMoves ==
    ASSUME caller \in [Coroutines -> CallerState],
           NEW c \in Coroutines, NEW s \in CallerState, Goto(c, s)
    PROVE  /\ caller' \in [Coroutines -> CallerState]
           /\ caller'[c] = s
           /\ \A d \in Coroutines \ {c} : caller'[d] = caller[d]
           /\ Cardinality(Connecting) \in Nat /\ Cardinality(Acquiring) \in Nat
           /\ Cardinality(Connecting') <= Cardinality(Coroutines)
           /\ Cardinality(Acquiring') <= Cardinality(Coroutines)
           /\ Cardinality(Connecting') = Cardinality(Connecting)
                 - (IF caller[c].pc = "connect" THEN 1 ELSE 0)
                 + (IF s.pc = "connect" THEN 1 ELSE 0)
           /\ Cardinality(Acquiring') = Cardinality(Acquiring)
                 - (IF caller[c].pc \in {"connect", "open"} THEN 1 ELSE 0)
                 + (IF s.pc \in {"connect", "open"} THEN 1 ELSE 0)
<1>1. /\ caller' \in [Coroutines -> CallerState]
      /\ caller'[c] = s
      /\ \A d \in Coroutines \ {c} : caller'[d] = caller[d]
  BY DEF Goto
<1>2. /\ Connecting \in SUBSET Coroutines /\ Connecting' \in SUBSET Coroutines
      /\ Acquiring \in SUBSET Coroutines /\ Acquiring' \in SUBSET Coroutines
  BY DEF Connecting, Acquiring
<1>3. /\ IsFiniteSet(Connecting) /\ IsFiniteSet(Acquiring)
      /\ Cardinality(Connecting') <= Cardinality(Coroutines)
      /\ Cardinality(Acquiring') <= Cardinality(Coroutines)
  BY <1>2, FS_Subset, QueueClientAssumption
<1>4. Cardinality(Connecting) \in Nat /\ Cardinality(Acquiring) \in Nat
  BY <1>3, FS_CardinalityType
<1>5. /\ Connecting \ {c} = Connecting' \ {c}
      /\ c \in Connecting <=> caller[c].pc = "connect"
      /\ c \in Connecting' <=> s.pc = "connect"
  BY <1>1 DEF Connecting
<1>6. /\ Acquiring \ {c} = Acquiring' \ {c}
      /\ c \in Acquiring <=> caller[c].pc \in {"connect", "open"}
      /\ c \in Acquiring' <=> s.pc \in {"connect", "open"}
  BY <1>1 DEF Acquiring
<1>7. Cardinality(Connecting') = Cardinality(Connecting)
         - (IF c \in Connecting THEN 1 ELSE 0) + (IF c \in Connecting' THEN 1 ELSE 0)
  BY <1>3, <1>5, MoveOne
<1>8. Cardinality(Acquiring') = Cardinality(Acquiring)
         - (IF c \in Acquiring THEN 1 ELSE 0) + (IF c \in Acquiring' THEN 1 ELSE 0)
  BY <1>3, <1>6, MoveOne
<1> QED  BY <1>1, <1>3, <1>4, <1>5, <1>6, <1>7, <1>8

\* What an opened connection or channel adds to those that are open.
LEMMA OneMore ==
    ASSUME NEW S, NEW x, IsFiniteSet(S)
    PROVE  /\ IsFiniteSet(S \cup {x}) /\ Cardinality(S) \in Nat
           /\ Cardinality(S \cup {x}) \in Nat /\ Cardinality(S \cup {x}) <= Cardinality(S) + 1
BY FS_AddElement, FS_CardinalityType

LEMMA SomeCoroutines == Cardinality(Coroutines) \in Nat
BY QueueClientAssumption, FS_CardinalityType

-----------------------------------------------------------------------------
(* Each action keeps the invariant *)

LEMMA InitIInv == Init => IInv
<1> SUFFICES ASSUME Init PROVE IInv
  OBVIOUS
<1> USE DEF Init
<1>1. TypeInv
  <2>1. Idle \in CallerState
    BY CallerStates
  <2>2. faults \in 0..MaxFaults
    BY QueueClientAssumption
  <2>3. IsFiniteSet(open) /\ IsFiniteSet(channels)
    BY FS_EmptySet
  <2> QED  BY <2>1, <2>2, <2>3 DEF TypeInv
<1>2. GlobalsAreOpen /\ StoppedIsIdle
  BY CallerStates DEF GlobalsAreOpen, StoppedIsIdle
<1>3. \A c \in Coroutines : caller[c].pc = "idle"
  BY CallerStates
<1>4. DeclaredInOrder
  BY <1>3 DEF DeclaredInOrder
<1>5. Connecting = {} /\ Acquiring = {}
  BY <1>3 DEF Connecting, Acquiring
<1>6. RoomForCallers
  BY <1>5, FS_EmptySet, SomeCoroutines DEF RoomForCallers
<1> QED  BY <1>1, <1>2, <1>4, <1>6 DEF IInv

\* A call that finds neither a connection nor a channel finds none open, so the
\* coroutines on the way are all there is to count.
LEMMA EnsureStep ==
    ASSUME IInv, NEW c \in Coroutines, _ensure_rabbitmq_topology(c)
    PROVE  IInv'
<1> DEFINE state ==
        IF _rabbitmq_channel # NoChannel /\ _topology_ready
        THEN Have(_rabbitmq_channel)
        ELSE IF _rabbitmq_connection = None
             THEN [pc |-> "connect"]
             ELSE Opening(_rabbitmq_connection, _rabbitmq_channel)
<1>1. /\ running /\ caller[c].pc = "idle" /\ Goto(c, state)
      /\ UNCHANGED <<globals, broker, running, faults>>
  BY CallerStates DEF _ensure_rabbitmq_topology
<1>2. TypeInv /\ GlobalsAreOpen /\ StoppedIsIdle /\ DeclaredInOrder /\ RoomForCallers
  BY DEF IInv
<1>3. /\ state \in CallerState
      /\ state.pc \in {"connect", "open", "declare", "have"}
      /\ state.pc = "connect" => _rabbitmq_connection = None
      /\ state.pc \in {"connect", "open"} => _rabbitmq_channel = NoChannel
      /\ state.pc = "open" => _rabbitmq_connection # None
      /\ state.pc = "declare" => _rabbitmq_channel # NoChannel /\ state.next = 1
      /\ state.pc = "have" =>
            _rabbitmq_channel # NoChannel /\ state.channel = _rabbitmq_channel /\ _topology_ready
  <2>1. /\ _rabbitmq_channel # NoChannel => _rabbitmq_channel \in Channel /\ _rabbitmq_connection # None
        /\ _rabbitmq_connection # None => _rabbitmq_connection \in Connection
    BY <1>2 DEF TypeInv, GlobalsAreOpen
  <2> QED  BY <2>1, CallerStates DEF Opening
<1> HIDE DEF state
<1>4. /\ caller' \in [Coroutines -> CallerState]
      /\ caller'[c] = state
      /\ \A d \in Coroutines \ {c} : caller'[d] = caller[d]
      /\ Cardinality(Connecting') <= Cardinality(Coroutines)
      /\ Cardinality(Acquiring') <= Cardinality(Coroutines)
      /\ Cardinality(Connecting') = Cardinality(Connecting) + (IF state.pc = "connect" THEN 1 ELSE 0)
      /\ Cardinality(Acquiring') = Cardinality(Acquiring) + (IF state.pc \in {"connect", "open"} THEN 1 ELSE 0)
      /\ Cardinality(Connecting) \in Nat /\ Cardinality(Acquiring) \in Nat
  BY <1>1, <1>2, <1>3, CallerMoves DEF TypeInv
<1>5. TypeInv' /\ GlobalsAreOpen' /\ StoppedIsIdle'
  BY <1>1, <1>2, <1>3, <1>4 DEF TypeInv, GlobalsAreOpen, StoppedIsIdle, globals, broker
<1>6. DeclaredInOrder'
  BY <1>1, <1>2, <1>3, <1>4 DEF DeclaredInOrder, GlobalsAreOpen, globals, broker
<1>7. RoomForCallers'
  <2>1. /\ state.pc = "connect" => Cardinality(open) = 0
        /\ state.pc \in {"connect", "open"} => Cardinality(channels) = 0
    BY <1>1, <1>2, <1>3, FS_EmptySet DEF GlobalsAreOpen
  <2>2. Cardinality(open') = Cardinality(open) /\ Cardinality(channels') = Cardinality(channels)
    BY <1>1 DEF broker
  <2> QED  BY <1>2, <1>4, <2>1, <2>2, SomeCoroutines DEF RoomForCallers
<1> QED  BY <1>5, <1>6, <1>7 DEF IInv

\* One caller fewer waits for a connection, and at most one more is open.
LEMMA ConnectStep ==
    ASSUME IInv, NEW c \in Coroutines, connect_robust(c)
    PROVE  IInv'
<1> DEFINE new == Cardinality(open) + 1
           state == Opening(new, _rabbitmq_channel)
<1>1. /\ caller[c].pc = "connect" /\ Goto(c, state)
      /\ open' = open \cup {new} /\ _rabbitmq_connection' = new
      /\ UNCHANGED <<_rabbitmq_channel, _topology_ready, channels, bound, running, faults>>
  BY DEF connect_robust
<1>2. TypeInv /\ GlobalsAreOpen /\ StoppedIsIdle /\ DeclaredInOrder /\ RoomForCallers
  BY DEF IInv
<1>3. new \in Connection /\ new # None
  BY <1>2, FS_CardinalityType DEF TypeInv, Connection, None
<1>4. /\ state \in CallerState
      /\ state.pc \in {"open", "declare"}
      /\ state.pc = "declare" => _rabbitmq_channel # NoChannel /\ state.next = 1
  BY <1>3, CallerStates DEF Opening
<1>5. /\ IsFiniteSet(open \cup {new}) /\ Cardinality(open) \in Nat
      /\ Cardinality(open \cup {new}) \in Nat /\ Cardinality(open \cup {new}) <= Cardinality(open) + 1
  BY <1>2, OneMore DEF TypeInv
<1> HIDE DEF state, new
<1>6. /\ caller' \in [Coroutines -> CallerState]
      /\ caller'[c] = state
      /\ \A d \in Coroutines \ {c} : caller'[d] = caller[d]
      /\ Cardinality(Connecting') = Cardinality(Connecting) - 1
      /\ Cardinality(Acquiring') <= Cardinality(Acquiring)
      /\ Cardinality(Connecting) \in Nat /\ Cardinality(Acquiring) \in Nat
      /\ Cardinality(Connecting') \in Int /\ Cardinality(Acquiring') \in Int
  BY <1>1, <1>2, <1>4, CallerMoves DEF TypeInv
<1>7. Idle.pc # "connect"
  BY CallerStates
<1>8. TypeInv' /\ GlobalsAreOpen' /\ StoppedIsIdle'
  BY <1>1, <1>2, <1>3, <1>5, <1>6, <1>7 DEF TypeInv, GlobalsAreOpen, StoppedIsIdle
<1>9. DeclaredInOrder'
  BY <1>1, <1>2, <1>4, <1>6 DEF DeclaredInOrder
<1>10. RoomForCallers'
  <2>1. Cardinality(channels) \in Nat /\ channels' = channels
    BY <1>1, <1>2, FS_CardinalityType DEF TypeInv
  <2> QED  BY <1>1, <1>2, <1>5, <1>6, <2>1, SomeCoroutines DEF RoomForCallers
<1> QED  BY <1>8, <1>9, <1>10 DEF IInv

\* A channel that was opened, whether the call then returned or raised.
LEMMA ChannelOpened ==
    ASSUME IInv, NEW c \in Coroutines, caller[c].pc = "open", OpenChannel(c),
           NEW state \in CallerState, Goto(c, state),
           state.pc = "idle" \/ (state.pc = "declare" /\ state.next = 1),
           faults' \in 0..MaxFaults,
           UNCHANGED <<_rabbitmq_connection, _topology_ready, open, bound, running>>
    PROVE  IInv'
<1> DEFINE new == [on |-> caller[c].on, by |-> c]
<1>1. TypeInv /\ GlobalsAreOpen /\ StoppedIsIdle /\ DeclaredInOrder /\ RoomForCallers
  BY DEF IInv
<1>2. channels' = channels \cup {new} /\ _rabbitmq_channel' = new
  BY DEF OpenChannel
<1>3. new \in Channel /\ new # NoChannel
  BY <1>1, CallerStates DEF TypeInv, Channel
<1>4. /\ IsFiniteSet(channels \cup {new}) /\ Cardinality(channels) \in Nat
      /\ Cardinality(channels \cup {new}) \in Nat
      /\ Cardinality(channels \cup {new}) <= Cardinality(channels) + 1
  BY <1>1, OneMore DEF TypeInv
<1> HIDE DEF new
<1>5. /\ caller' \in [Coroutines -> CallerState]
      /\ caller'[c] = state
      /\ \A d \in Coroutines \ {c} : caller'[d] = caller[d]
      /\ Cardinality(Connecting') = Cardinality(Connecting)
      /\ Cardinality(Acquiring') = Cardinality(Acquiring) - 1
      /\ Cardinality(Connecting) \in Nat /\ Cardinality(Acquiring) \in Nat
  BY <1>1, CallerMoves DEF TypeInv
<1>6. running /\ _rabbitmq_connection # None
  BY <1>1, CallerStates DEF StoppedIsIdle, GlobalsAreOpen
<1>7. TypeInv' /\ GlobalsAreOpen' /\ StoppedIsIdle'
  BY <1>1, <1>2, <1>3, <1>4, <1>5, <1>6 DEF TypeInv, GlobalsAreOpen, StoppedIsIdle
<1>8. DeclaredInOrder'
  BY <1>1, <1>2, <1>3, <1>5 DEF DeclaredInOrder
<1>9. RoomForCallers'
  <2>1. Cardinality(open) \in Nat /\ open' = open
    BY <1>1, FS_CardinalityType DEF TypeInv
  <2> QED  BY <1>1, <1>2, <1>4, <1>5, <2>1, SomeCoroutines DEF RoomForCallers
<1> QED  BY <1>7, <1>8, <1>9 DEF IInv

LEMMA ChannelStep ==
    ASSUME IInv, NEW c \in Coroutines, channel(c)
    PROVE  IInv'
<1>1. /\ caller[c].pc = "open" /\ OpenChannel(c) /\ Goto(c, Declare(1))
      /\ UNCHANGED <<_rabbitmq_connection, _topology_ready, open, bound, running, faults>>
  BY DEF channel
<1>2. Declare(1) \in CallerState /\ Declare(1).pc = "declare" /\ Declare(1).next = 1
  BY CallerStates
<1>3. faults' \in 0..MaxFaults
  BY <1>1 DEF IInv, TypeInv
<1> QED  BY <1>1, <1>2, <1>3, ChannelOpened

\* The last declaration finds the others made, by whichever coroutine.
LEMMA DeclareStep ==
    ASSUME IInv, NEW c \in Coroutines, declare(c)
    PROVE  IInv'
<1> DEFINE last == caller[c].next = 4
           state == IF last THEN Have(_rabbitmq_channel) ELSE Declare(caller[c].next + 1)
<1>1. /\ caller[c].pc = "declare" /\ Goto(c, state)
      /\ bound' = bound \cup {Topology[caller[c].next]}
      /\ IF last THEN _topology_ready' = TRUE ELSE _topology_ready' = _topology_ready
      /\ UNCHANGED <<_rabbitmq_connection, _rabbitmq_channel, open, channels, running, faults>>
  BY TopologyLength DEF declare
<1>2. TypeInv /\ GlobalsAreOpen /\ StoppedIsIdle /\ DeclaredInOrder /\ RoomForCallers
  BY DEF IInv
<1>3. /\ caller[c].next \in 1..4
      /\ _rabbitmq_channel # NoChannel /\ _rabbitmq_channel \in Channel /\ _rabbitmq_channel \in channels
      /\ \A i \in 1..4 : i < caller[c].next => Topology[i] \in bound
  BY <1>1, <1>2, CallerStates DEF TypeInv, DeclaredInOrder, GlobalsAreOpen
<1>4. /\ state \in CallerState
      /\ last => state.pc = "have" /\ state.channel = _rabbitmq_channel
      /\ ~last => state.pc = "declare" /\ state.next = caller[c].next + 1
  BY <1>3, CallerStates
<1>5. /\ \A i \in 1..4 : Topology[i] \in Declared
      /\ bound' \subseteq Declared
      /\ \A i \in 1..4 : i <= caller[c].next => Topology[i] \in bound'
      /\ bound = Declared => bound' = Declared
  BY <1>1, <1>2, <1>3, TopologyLength DEF Declared, TypeInv
<1>6. last => bound' = Declared
  BY <1>3, <1>5, TopologyLength DEF Declared
<1> HIDE DEF state
<1>7. /\ caller' \in [Coroutines -> CallerState]
      /\ caller'[c] = state
      /\ \A d \in Coroutines \ {c} : caller'[d] = caller[d]
      /\ Cardinality(Connecting') = Cardinality(Connecting)
      /\ Cardinality(Acquiring') = Cardinality(Acquiring)
  BY <1>1, <1>2, <1>4, CallerMoves DEF TypeInv
<1>8. TypeInv' /\ GlobalsAreOpen' /\ StoppedIsIdle'
  <2>1. running
    BY <1>1, <1>2, CallerStates DEF StoppedIsIdle
  <2> QED  BY <1>1, <1>2, <1>4, <1>5, <1>7, <2>1 DEF TypeInv, GlobalsAreOpen, StoppedIsIdle
<1>9. DeclaredInOrder'
  <2>1. _topology_ready' => bound' = Declared
    BY <1>1, <1>2, <1>5, <1>6 DEF DeclaredInOrder
  <2>2. ASSUME NEW d \in Coroutines
        PROVE  /\ caller'[d].pc = "declare" =>
                     /\ _rabbitmq_channel' # NoChannel
                     /\ \A i \in 1..4 : i < caller'[d].next => Topology[i] \in bound'
               /\ caller'[d].pc = "have" => caller'[d].channel \in channels' /\ bound' = Declared
    <3>1. CASE d = c
      BY <1>1, <1>3, <1>4, <1>5, <1>6, <1>7, <3>1
    <3>2. CASE d # c
      BY <1>1, <1>2, <1>5, <1>7, <3>2 DEF DeclaredInOrder
    <3> QED  BY <3>1, <3>2
  <2> QED  BY <2>1, <2>2 DEF DeclaredInOrder
<1>10. RoomForCallers'
  BY <1>1, <1>2, <1>7 DEF RoomForCallers
<1> QED  BY <1>8, <1>9, <1>10 DEF IInv

\* A coroutine that is done, or whose call failed, leaves only its place.
LEMMA BackToIdle ==
    ASSUME IInv, NEW c \in Coroutines, Goto(c, Idle),
           faults' \in 0..MaxFaults, UNCHANGED <<globals, broker, running>>
    PROVE  IInv'
<1>1. TypeInv /\ GlobalsAreOpen /\ StoppedIsIdle /\ DeclaredInOrder /\ RoomForCallers
  BY DEF IInv
<1>2. Idle \in CallerState /\ Idle.pc = "idle"
  BY CallerStates
<1>3. /\ caller' \in [Coroutines -> CallerState]
      /\ caller'[c] = Idle
      /\ \A d \in Coroutines \ {c} : caller'[d] = caller[d]
      /\ Cardinality(Connecting') <= Cardinality(Connecting)
      /\ Cardinality(Acquiring') <= Cardinality(Acquiring)
      /\ Cardinality(Connecting) \in Nat /\ Cardinality(Acquiring) \in Nat
      /\ Cardinality(Connecting') \in Int /\ Cardinality(Acquiring') \in Int
  BY <1>1, <1>2, CallerMoves DEF TypeInv
<1>4. TypeInv' /\ GlobalsAreOpen' /\ StoppedIsIdle'
  BY <1>1, <1>2, <1>3 DEF TypeInv, GlobalsAreOpen, StoppedIsIdle, globals, broker
<1>5. DeclaredInOrder'
  BY <1>1, <1>2, <1>3 DEF DeclaredInOrder, globals, broker
<1>6. RoomForCallers'
  <2>1. Cardinality(open) \in Nat /\ Cardinality(channels) \in Nat
    BY <1>1, FS_CardinalityType DEF TypeInv
  <2>2. open' = open /\ channels' = channels
    BY DEF broker
  <2> QED  BY <1>1, <1>3, <2>1, <2>2, SomeCoroutines DEF RoomForCallers
<1> QED  BY <1>4, <1>5, <1>6 DEF IInv

LEMMA UseStep ==
    ASSUME IInv, NEW c \in Coroutines, Use(c)
    PROVE  IInv'
<1>1. Goto(c, Idle) /\ UNCHANGED <<globals, broker, running>> /\ faults' \in 0..MaxFaults
  BY DEF Use, IInv, TypeInv
<1> QED  BY <1>1, BackToIdle

LEMMA FailStep ==
    ASSUME IInv, NEW c \in Coroutines, Fail(c)
    PROVE  IInv'
<1>1. faults' \in 0..MaxFaults
  BY QueueClientAssumption DEF Fail, IInv, TypeInv
<1>2. CASE UNCHANGED <<_rabbitmq_channel, channels>>
  <2>1. Goto(c, Idle) /\ UNCHANGED <<globals, broker, running>>
    BY <1>2 DEF Fail, globals, broker
  <2> QED  BY <1>1, <2>1, BackToIdle
<1>3. CASE caller[c].pc = "open" /\ OpenChannel(c)
  <2>1. Goto(c, Idle) /\ UNCHANGED <<_rabbitmq_connection, _topology_ready, open, bound, running>>
    BY DEF Fail
  <2>2. Idle \in CallerState /\ Idle.pc = "idle"
    BY CallerStates
  <2> QED  BY <1>1, <1>3, <2>1, <2>2, ChannelOpened
<1> QED  BY <1>2, <1>3 DEF Fail

\* A process that ends has no coroutine left; what it knew of is closed or is
\* left to the operating system.
LEMMA Stopped ==
    ASSUME IInv, ~running', caller' = [c \in Coroutines |-> Idle],
           _rabbitmq_connection' = None, _rabbitmq_channel' = NoChannel, _topology_ready' = FALSE,
           open' \in SUBSET open, channels' \in SUBSET channels, bound' = bound,
           running' \in BOOLEAN, faults' \in 0..MaxFaults
    PROVE  IInv'
<1>1. TypeInv /\ RoomForCallers
  BY DEF IInv
<1>2. Idle \in CallerState /\ Idle.pc = "idle"
  BY CallerStates
<1>3. \A c \in Coroutines : caller'[c].pc = "idle"
  BY <1>2
<1>4. /\ IsFiniteSet(open') /\ IsFiniteSet(channels')
      /\ Cardinality(open') <= Cardinality(open) /\ Cardinality(channels') <= Cardinality(channels)
  BY <1>1, FS_Subset DEF TypeInv
<1>5. /\ Cardinality(open) \in Nat /\ Cardinality(channels) \in Nat
      /\ Cardinality(open') \in Nat /\ Cardinality(channels') \in Nat
  BY <1>1, <1>4, FS_CardinalityType DEF TypeInv
<1>6. TypeInv'
  BY <1>1, <1>2, <1>4 DEF TypeInv
<1>7. GlobalsAreOpen' /\ StoppedIsIdle' /\ DeclaredInOrder'
  BY <1>3 DEF GlobalsAreOpen, StoppedIsIdle, DeclaredInOrder
<1>8. /\ Connecting' = {} /\ Acquiring' = {}
      /\ IsFiniteSet(Connecting) /\ IsFiniteSet(Acquiring)
  <2>1. Connecting \in SUBSET Coroutines /\ Acquiring \in SUBSET Coroutines
    BY DEF Connecting, Acquiring
  <2>2. IsFiniteSet(Connecting) /\ IsFiniteSet(Acquiring)
    BY <2>1, FS_Subset, QueueClientAssumption
  <2> QED  BY <1>3, <2>2 DEF Connecting, Acquiring
<1>9. RoomForCallers'
  <2>1. Cardinality(Connecting) \in Nat /\ Cardinality(Acquiring) \in Nat
    BY <1>8, FS_CardinalityType
  <2>2. Cardinality(Connecting') = 0 /\ Cardinality(Acquiring') = 0
    BY <1>8, FS_EmptySet
  <2> QED  BY <1>1, <1>4, <1>5, <2>1, <2>2, SomeCoroutines DEF RoomForCallers
<1> QED  BY <1>6, <1>7, <1>9 DEF IInv

LEMMA DisposeStep ==
    ASSUME IInv, NEW c \in Coroutines, dispose_queue(c)
    PROVE  IInv'
<1>1. caller' = [d \in Coroutines |-> Idle]
  BY DEF dispose_queue, Goto, IInv, TypeInv
<1>2. open' \in SUBSET open /\ channels' \in SUBSET channels /\ faults' \in 0..MaxFaults
  BY DEF dispose_queue, IInv, TypeInv
<1>3. /\ ~running' /\ running' \in BOOLEAN /\ bound' = bound
      /\ _rabbitmq_connection' = None /\ _rabbitmq_channel' = NoChannel /\ _topology_ready' = FALSE
  BY DEF dispose_queue
<1> QED  BY <1>1, <1>2, <1>3, Stopped

LEMMA CrashStep ==
    ASSUME IInv, Crash
    PROVE  IInv'
<1>1. faults' \in 0..MaxFaults
  BY QueueClientAssumption DEF Crash, IInv, TypeInv
<1>2. open' \in SUBSET open /\ channels' \in SUBSET channels /\ bound' = bound
  BY DEF Crash, broker
<1>3. /\ ~running' /\ running' \in BOOLEAN /\ caller' = [c \in Coroutines |-> Idle]
      /\ _rabbitmq_connection' = None /\ _rabbitmq_channel' = NoChannel /\ _topology_ready' = FALSE
  BY DEF Crash
<1> QED  BY <1>1, <1>2, <1>3, Stopped

LEMMA RestartStep ==
    ASSUME IInv, Restart
    PROVE  IInv'
<1>1. TypeInv /\ StoppedIsIdle /\ DeclaredInOrder /\ RoomForCallers
  BY DEF IInv
<1>2. /\ ~running /\ running' = TRUE /\ open' = {} /\ channels' = {}
      /\ UNCHANGED <<globals, caller, bound, faults>>
  BY DEF Restart
<1>3. /\ \A c \in Coroutines : caller'[c].pc = "idle"
      /\ _rabbitmq_channel' = NoChannel
  BY <1>1, <1>2, CallerStates DEF StoppedIsIdle, globals
<1>4. TypeInv' /\ GlobalsAreOpen' /\ StoppedIsIdle'
  BY <1>1, <1>2, <1>3, FS_EmptySet DEF TypeInv, GlobalsAreOpen, StoppedIsIdle, globals
<1>5. DeclaredInOrder'
  BY <1>1, <1>2, <1>3 DEF DeclaredInOrder, globals
<1>6. Connecting' = {} /\ Acquiring' = {}
  BY <1>3 DEF Connecting, Acquiring
<1>7. RoomForCallers'
  BY <1>2, <1>6, FS_EmptySet, SomeCoroutines DEF RoomForCallers
<1> QED  BY <1>4, <1>5, <1>7 DEF IInv

LEMMA NextIInv == IInv /\ [Next]_vars => IInv'
<1> SUFFICES ASSUME IInv, [Next]_vars PROVE IInv'
  OBVIOUS
<1>1. ASSUME NEW c \in Coroutines, Step(c) PROVE IInv'
  BY <1>1, EnsureStep, ConnectStep, ChannelStep, DeclareStep, UseStep DEF Step
<1>2. ASSUME NEW c \in Coroutines, Fail(c) PROVE IInv'
  BY <1>2, FailStep
<1>3. ASSUME NEW c \in Coroutines, dispose_queue(c) PROVE IInv'
  BY <1>3, DisposeStep
<1>4. CASE Crash
  BY <1>4, CrashStep
<1>5. CASE Restart
  BY <1>5, RestartStep
<1>6. CASE UNCHANGED vars
  BY <1>6 DEF vars, globals, broker, IInv, TypeInv, GlobalsAreOpen, StoppedIsIdle, DeclaredInOrder,
              RoomForCallers, Connecting, Acquiring
<1> QED  BY <1>1, <1>2, <1>3, <1>4, <1>5, <1>6 DEF Next

THEOREM ClientInvariant == Spec => []IInv
BY InitIInv, NextIInv, PTL DEF Spec

\* Nobody is handed a channel of _ensure_rabbitmq_topology that is closed, or before
\* every exchange and queue is declared and bound, however many coroutines
\* initialise at once and whichever of their calls fail.
THEOREM ChannelIsReady == Spec => []TopologyBeforeUse
<1>1. IInv => TopologyBeforeUse
  BY DEF IInv, DeclaredInOrder, Declared, TopologyBeforeUse
<1> QED  BY <1>1, ClientInvariant, PTL

\* The initialisation without a lock leaks at most one connection and one channel
\* per coroutine, for any number of coroutines, calls and failures.
THEOREM LeakBound == Spec => []LeakIsBounded
<1>1. ASSUME IInv PROVE LeakIsBounded
  <2>1. Connecting \in SUBSET Coroutines /\ Acquiring \in SUBSET Coroutines
    BY DEF Connecting, Acquiring
  <2>2. IsFiniteSet(Connecting) /\ IsFiniteSet(Acquiring) /\ IsFiniteSet(open) /\ IsFiniteSet(channels)
    BY <1>1, <2>1, FS_Subset, QueueClientAssumption DEF IInv, TypeInv
  <2>3. /\ Cardinality(Connecting) \in Nat /\ Cardinality(Acquiring) \in Nat
        /\ Cardinality(open) \in Nat /\ Cardinality(channels) \in Nat
    BY <2>2, FS_CardinalityType
  <2> QED  BY <1>1, <2>3, SomeCoroutines DEF IInv, RoomForCallers, LeakIsBounded
<1> QED  BY <1>1, ClientInvariant, PTL

=============================================================================
