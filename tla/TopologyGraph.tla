--------------------------- MODULE TopologyGraph ---------------------------
(***************************************************************************)
(* The tagged call graph every analysis shares (topology_graph.py): the    *)
(* component instances of a topology, the dispatch kind of their input     *)
(* ports, the handlers behind those ports, the connections, and what the   *)
(* C++ flow map says each handler calls (port_flow.py).                    *)
(*                                                                         *)
(* A topology, with its flow map, is a record t.  A handler is named as    *)
(* the flow map names it: by its input port, or, behind a command receive  *)
(* port, by its command.                                                   *)
(* Port names are made unique (the code qualifies them by instance), and   *)
(* the order of hops is left out: no analysis result depends on it.        *)
(***************************************************************************)
EXTENDS Naturals, FiniteSets

CONSTANTS
  Instance,     \* component instances
  InPort,       \* input ports, of all instances
  OutPort,      \* output ports, of all instances
  Command,      \* commands, of all instances
  Topologies    \* the topologies considered

ASSUME NamesAssumption ==
  /\ IsFiniteSet(Instance) /\ IsFiniteSet(InPort) /\ IsFiniteSet(OutPort) /\ IsFiniteSet(Command)
  /\ InPort \cap Command = {}

SyncKind == {"sync", "guarded", "async"}
ComponentKind == {"active", "queued", "passive"}
Handler == InPort \cup Command

Topology ==
  [ component   : [Instance -> ComponentKind],
    owner       : [Handler \cup OutPort -> Instance],
    portKind    : [InPort -> SyncKind],       \* the kind the port declares
    cmdPort     : SUBSET InPort,              \* the command receive ports
    commandKind : [Command -> SyncKind],
    params      : SUBSET Command,             \* generated set/save commands
    calls       : [Handler -> SUBSET OutPort],\* flow map: "ports" of a record
    opaque      : SUBSET Handler,             \* record absent or opaque
    strict      : BOOLEAN,                    \* flow map: refuse those
    wires       : [OutPort -> SUBSET InPort] ]\* connections

ASSUME TopologiesAssumption == Topologies \subseteq Topology

VARIABLE topo   \* the loaded topology, which is also the one deployed; never written

IsOwnThread(t, i) == t.component[i] \in {"active", "queued"}

CommandsOf(t, i) == {c \in Command : t.owner[c] = i}

\* A parameter command has no handler of its own and takes no guarded mutex.
CommandSyncKind(t, c) == IF c \in t.params THEN "sync" ELSE t.commandKind[c]

CommandSyncKinds(t, i) == {CommandSyncKind(t, c) : c \in CommandsOf(t, i)}

\* A command port runs under every kind one of its commands has; without
\* commands it has the kind it declares.
InputSyncKinds(t, p) ==
  IF p \in t.cmdPort /\ CommandsOf(t, t.owner[p]) # {}
  THEN CommandSyncKinds(t, t.owner[p])
  ELSE {t.portKind[p]}

FlowEntries(t, p, kind) ==
  IF p \notin t.cmdPort THEN {p}
  ELSE {c \in CommandsOf(t, t.owner[p]) \ t.params : t.commandKind[c] = kind}

GuardedEntries(t) == {p \in InPort : "guarded" \in InputSyncKinds(t, p)}

OutputPorts(t, i) == {o \in OutPort : t.owner[o] = i}

\* FlowMap.outputs_for raises on these instead of answering.
Unresolved(t, h) == t.strict /\ h \in t.opaque

OutputsFor(t, h) ==
  IF h \in t.opaque
  THEN OutputPorts(t, t.owner[h])
  ELSE t.calls[h] \cap OutputPorts(t, t.owner[h])

Destinations(t, h) == UNION {t.wires[o] : o \in OutputsFor(t, h)}

\* The calls out of a handler: one hop per kind the far end can run under.
OutwardHops(t, h) ==
  UNION { {[port |-> p, kind |-> k] : k \in InputSyncKinds(t, p)} :
          p \in Destinations(t, h) }

\* The hops that stay on the caller's thread.
ThreadHops(t, h) == {hop \in OutwardHops(t, h) : hop.kind # "async"}

\* The handlers those hops enter.
NextHandlers(t, h) ==
  UNION {FlowEntries(t, hop.port, hop.kind) : hop \in ThreadHops(t, h)}

ConnectedInputs(t) == UNION {t.wires[o] : o \in OutPort}

(***************************************************************************)
(* Thread origins, declaratively.                                          *)
(***************************************************************************)
Origin == ({"thread"} \X Instance) \cup ({"external"} \X InPort)
UnknownThread == {<<"unknown">>}

RealThreads(labels) == {l \in labels : l[1] = "thread"}

Seed == [label : Origin, port : InPort, kind : SyncKind]

\* Mutant: a queued instance is no thread.
ActiveThreadSeeds(t) ==
  { [label |-> <<"thread", t.owner[p]>>, port |-> p, kind |-> "async"] :
    p \in {x \in InPort : t.component[t.owner[x]] = "active"
                           /\ "async" \in InputSyncKinds(t, x)} }

\* The ports of an instance with a thread of its own that run on that thread.
ThreadSeeds(t) ==
  { [label |-> <<"thread", t.owner[p]>>, port |-> p, kind |-> "async"] :
    p \in {x \in InPort : IsOwnThread(t, t.owner[x]) /\ "async" \in InputSyncKinds(t, x)} }

\* An input nothing drives may have a caller the topology does not show, under
\* each kind that does not run on its owner's thread.
ExternalSeeds(t) ==
  UNION { {[label |-> <<"external", p>>, port |-> p, kind |-> k] :
             k \in InputSyncKinds(t, p) \ {"async"}} :
          p \in InPort \ ConnectedInputs(t) }

OriginSeeds(t) == ThreadSeeds(t) \cup ExternalSeeds(t)

SeedHandlers(t, s) == FlowEntries(t, s.port, s.kind)

\* The handlers a set of handlers reaches on one thread: the least set that
\* contains them and is closed under calls.
ReachableFrom(t, H) ==
  LET next   == [h \in Handler |-> NextHandlers(t, h)]
      closed == {C \in SUBSET Handler : H \subseteq C /\ \A h \in C : next[h] \subseteq C}
  IN  {h \in Handler : \A C \in closed : h \in C}

\* What a set comes to when the successors of its members are added until none
\* is new; next gives every element its successors.
Closure(next, S) ==
  LET closing[T \in SUBSET DOMAIN next] ==
        LET more == UNION {next[x] : x \in T}
        IN  IF more \subseteq T THEN T ELSE closing[T \cup more]
  IN  closing[S]

\* The same set, call by call.
ReachedByCalls(t, H) == Closure([h \in Handler |-> NextHandlers(t, h)], H)

PortsReached(t, s) ==
  LET handlers == ReachableFrom(t, SeedHandlers(t, s))
  IN  {s.port} \cup {hop.port : hop \in UNION {ThreadHops(t, h) : h \in handlers}}

\* The origins that can run each input port's handlers.
ThreadsReaching(t) ==
  LET ports == [s \in OriginSeeds(t) |-> PortsReached(t, s)]
  IN  [p \in InPort |-> {s.label : s \in {x \in DOMAIN ports : p \in ports[x]}}]

\* What threads_reaching returns: <unknown> for a port no origin reaches.
ThreadsAt(t) ==
  LET threads == ThreadsReaching(t)
  IN  [p \in InPort |-> IF threads[p] = {} THEN UnknownThread ELSE threads[p]]
=============================================================================
