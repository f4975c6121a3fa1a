---------------------------- MODULE QueueClient ----------------------------
(***************************************************************************)
(* How one process comes by its RabbitMQ channel.  The connection, the     *)
(* channel and the "topology is declared" flag are globals of app/queue.py *)
(* that every coroutine initialises on demand: no lock is held over the    *)
(* awaits, so concurrent first calls interleave.  A worker is an instance  *)
(* with one coroutine; the API has its poller and its requests.            *)
(*                                                                         *)
(* The broker is external: declarations are durable and idempotent, and    *)
(* connect_robust restores an established connection by itself, which the  *)
(* globals do not show.  Prefetch has no effect on basic.get: set_qos only *)
(* matters as a call that can fail.                                        *)
(***************************************************************************)
EXTENDS Integers, FiniteSets, Sequences

CONSTANTS
    Coroutines,  \* callers of _ensure_rabbitmq_topology that can run at once
    MaxFaults    \* bound: broker calls that fail

ASSUME QueueClientAssumption == IsFiniteSet(Coroutines) /\ MaxFaults \in Nat

VARIABLES
    _rabbitmq_connection,
    _rabbitmq_channel,
    _topology_ready,
    caller,      \* control state of each coroutine
    open,        \* connections the process has with the broker
    channels,    \* channels on them
    bound,       \* broker: what is declared and bound
    running,     \* the process serves calls
    faults

globals == <<_rabbitmq_connection, _rabbitmq_channel, _topology_ready>>
broker  == <<open, channels, bound>>
vars    == <<globals, caller, broker, running, faults>>

None == 0

NoChannel == [on |-> None]

Idle == [pc |-> "idle"]

\* The declarations in program order, the bindings included.
Topology == <<"exchange", "main", "retry", "dead letter">>

Declare(i) == [pc |-> "declare", next |-> i]

Have(channel) == [pc |-> "have", channel |-> channel]

Init ==
    /\ _rabbitmq_connection = None /\ _rabbitmq_channel = NoChannel /\ _topology_ready = FALSE
    /\ caller = [c \in Coroutines |-> Idle]
    /\ open = {} /\ channels = {} /\ bound = {}
    /\ running = TRUE
    /\ faults = 0

Goto(c, state) == caller' = [caller EXCEPT ![c] = state]

-----------------------------------------------------------------------------

\* From a global connection on: the next await of a coroutine that has got one.
Opening(connection, channel) ==
    IF channel = NoChannel THEN [pc |-> "open", on |-> connection] ELSE Declare(1)

\* Mutant: a channel that is not None counts as ready.
EnsureByChannel(c) ==
    /\ running
    /\ caller[c] = Idle
    /\ Goto(c, IF _rabbitmq_channel # NoChannel
               THEN Have(_rabbitmq_channel)
               ELSE IF _rabbitmq_connection = None
                    THEN [pc |-> "connect"]
                    ELSE Opening(_rabbitmq_connection, _rabbitmq_channel))
    /\ UNCHANGED <<globals, broker, running, faults>>

\* Mutant: only the caller that opens the channel declares the topology.
EnsureByOpener(c) ==
    /\ running
    /\ caller[c] = Idle
    /\ _rabbitmq_channel # NoChannel => _topology_ready
    /\ Goto(c, IF _rabbitmq_channel # NoChannel
               THEN Have(_rabbitmq_channel)
               ELSE IF _rabbitmq_connection = None
                    THEN [pc |-> "connect"]
                    ELSE Opening(_rabbitmq_connection, _rabbitmq_channel))
    /\ UNCHANGED <<globals, broker, running, faults>>

_ensure_rabbitmq_topology(c) ==
    /\ running
    /\ caller[c] = Idle
    /\ Goto(c, IF _rabbitmq_channel # NoChannel /\ _topology_ready
               THEN Have(_rabbitmq_channel)
               ELSE IF _rabbitmq_connection = None
                    THEN [pc |-> "connect"]
                    ELSE Opening(_rabbitmq_connection, _rabbitmq_channel))
    /\ UNCHANGED <<globals, broker, running, faults>>

\* Overwrites the connection of a coroutine that was faster.
connect_robust(c) ==
    LET connection == Cardinality(open) + 1 IN
    /\ caller[c].pc = "connect"
    /\ open' = open \cup {connection}
    /\ _rabbitmq_connection' = connection
    /\ Goto(c, Opening(connection, _rabbitmq_channel))
    /\ UNCHANGED <<_rabbitmq_channel, _topology_ready, channels, bound, running, faults>>

OpenChannel(c) ==
    /\ channels' = channels \cup {[on |-> caller[c].on, by |-> c]}
    /\ _rabbitmq_channel' = [on |-> caller[c].on, by |-> c]

channel(c) ==
    /\ caller[c].pc = "open"
    /\ OpenChannel(c)
    /\ Goto(c, Declare(1))
    /\ UNCHANGED <<_rabbitmq_connection, _topology_ready, open, bound, running, faults>>

\* Each declaration goes to the global channel of the moment, and so does the
\* value that is returned.
declare(c) ==
    /\ caller[c].pc = "declare"
    /\ bound' = bound \cup {Topology[caller[c].next]}
    /\ IF caller[c].next = Len(Topology)
       THEN _topology_ready' = TRUE /\ Goto(c, Have(_rabbitmq_channel))
       ELSE UNCHANGED _topology_ready /\ Goto(c, Declare(caller[c].next + 1))
    /\ UNCHANGED <<_rabbitmq_connection, _rabbitmq_channel, open, channels, running, faults>>

\* The caller publishes, gets or reads a depth with what it was given.
Use(c) ==
    /\ caller[c].pc = "have"
    /\ Goto(c, Idle)
    /\ UNCHANGED <<globals, broker, running, faults>>

Step(c) ==
    \/ _ensure_rabbitmq_topology(c)
    \/ connect_robust(c)
    \/ channel(c)
    \/ declare(c)
    \/ Use(c)

\* Mutant: a connection on which no channel could be opened is forgotten.
FailForgets(c) ==
    /\ caller[c].pc \in {"connect", "open", "declare"}
    /\ faults < MaxFaults /\ faults' = faults + 1
    /\ Goto(c, Idle)
    /\ _rabbitmq_connection' = IF caller[c].pc = "open" THEN None ELSE _rabbitmq_connection
    /\ UNCHANGED <<_rabbitmq_channel, _topology_ready, broker, running>>

\* A broker call raises.  The globals keep what was assigned before, also a
\* channel whose set_qos failed.
Fail(c) ==
    /\ caller[c].pc \in {"connect", "open", "declare"}
    /\ faults < MaxFaults /\ faults' = faults + 1
    /\ Goto(c, Idle)
    /\ \/ UNCHANGED <<_rabbitmq_channel, channels>>
       \/ caller[c].pc = "open" /\ OpenChannel(c)
    /\ UNCHANGED <<_rabbitmq_connection, _topology_ready, open, bound, running>>

-----------------------------------------------------------------------------
(* The process ends: requests have been answered, the poller is cancelled
   wherever it is, and the channel and connection that are known are closed. *)

dispose_queue(poller) ==
    /\ running
    /\ \A c \in Coroutines \ {poller} : caller[c] = Idle
    /\ Goto(poller, Idle)
    /\ running' = FALSE
    /\ channels' = {ch \in channels \ {_rabbitmq_channel} : ch.on # _rabbitmq_connection}
    /\ open' = open \ {_rabbitmq_connection}
    /\ _rabbitmq_channel' = NoChannel
    /\ _rabbitmq_connection' = None
    /\ _topology_ready' = FALSE
    /\ UNCHANGED <<bound, faults>>

Crash ==
    /\ running
    /\ faults < MaxFaults /\ faults' = faults + 1
    /\ running' = FALSE
    /\ caller' = [c \in Coroutines |-> Idle]
    /\ _rabbitmq_connection' = None /\ _rabbitmq_channel' = NoChannel /\ _topology_ready' = FALSE
    /\ UNCHANGED broker

\* The operating system closes what dispose_queue did not.
Restart ==
    /\ ~running
    /\ running' = TRUE
    /\ open' = {} /\ channels' = {}
    /\ UNCHANGED <<globals, caller, bound, faults>>

Next ==
    \/ \E c \in Coroutines : Step(c) \/ Fail(c) \/ dispose_queue(c)
    \/ Crash
    \/ Restart

Spec == Init /\ [][Next]_vars

\* Every coroutine goes on and calls again; a stopped process is started.
FairSpec == Spec /\ WF_vars(Restart) /\ \A c \in Coroutines : WF_vars(Step(c))

-----------------------------------------------------------------------------
(* Properties *)

\* Whoever is handed a channel can publish to and read from every queue: all of
\* them are declared and bound, and the channel is open, although the flag, the
\* channel and the connection may come from three coroutines and a declaration
\* may have failed before.
TopologyBeforeUse ==
    \A c \in Coroutines : caller[c].pc = "have"
        => caller[c].channel \in channels /\ bound = {Topology[i] : i \in DOMAIN Topology}

\* Concurrent first calls leak connections and channels, which nothing closes
\* before the process ends, but never more than there were concurrent callers:
\* failures and later calls add none.
LeakIsBounded ==
    /\ Cardinality(open) <= Cardinality(Coroutines)
    /\ Cardinality(channels) <= Cardinality(Coroutines)

\* An initialisation that failed half-way does not wedge the process: as long as
\* it runs on, every coroutine gets a channel again and again.
ChannelIsRegained ==
    (<>[]running) => \A c \in Coroutines : []<>(caller[c].pc = "have")

=============================================================================
