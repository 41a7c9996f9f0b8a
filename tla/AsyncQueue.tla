----------------------------- MODULE AsyncQueue -----------------------------
(***************************************************************************)
(* The async queue analyzer (async_queue_analyzer.py): the rates first     *)
(* (RateGroups); for each connection to an async port, the thread that     *)
(* drains the queue and the one that feeds it                              *)
(* (infer_instance_thread_info, a recursion with a cache over queued       *)
(* instances that drain each other), the handlers that emit, the rates;    *)
(* then how long a queue takes to fill, with and without the ports that    *)
(* drop, and the messages a handler puts back on its own queue at a lower  *)
(* priority (find_requeue_drops, whose chain walk is LockGraph's).         *)
(***************************************************************************)
EXTENDS RateGroups

CONSTANTS
  DefaultPriority,  \* DEFAULT_PORT_PRIORITY
  RecursionLimit    \* bound: instances asked for within each other, beyond which Python raises

Fact ==
  [ priority     : [Instance -> Optional(Nat)],   \* task_priority
    portPriority : [InPort -> Optional(Nat)],     \* of a port, not of its commands
    onFull       : [Handler -> {"assert", "drop"}],
    size         : [Instance -> Optional(Nat)],   \* queue_size
    rates        : RateFact ]

Connection == OutPort \X InPort
ThreadInfo == [kind : ComponentKind, priority : Optional(Nat)]

ASSUME AsyncQueueAssumption ==
  /\ \A f \in Facts : f \in Fact
  /\ {DefaultPriority, RecursionLimit} \subseteq Nat
  /\ None \notin ThreadInfo \cup Connection

VARIABLES
  todo, current,  \* the connections to look at, and the one looked at
  asking,         \* the instances whose thread it still asks for
  visiting,       \* the instances of the recursion, innermost last
  cache,          \* thread_cache
  producers,      \* the connections done, with what is known of their source
  received,       \* production_hz of each queue
  entered,        \* production_hz of each message kind of a queue
  drops           \* what find_requeue_drops returns

inputVars == <<topo, facts, rateVars>>
threadVars == <<asking, visiting, cache>>
queueVars == <<producers, received, entered>>
vars == <<inputVars, todo, current, threadVars, queueVars, drops, status>>

-----------------------------------------------------------------------------
QueueConnections(t) ==
  {c \in Connection : c[2] \in t.wires[c[1]] /\ "async" \in InputSyncKinds(t, c[2])}

\* The message kinds of an input that are queued apart.
QueueEntries(p) ==
  LET commands == {c \in CommandsOf(topo, topo.owner[p]) : CommandSyncKind(topo, c) = "async"}
  IN  IF p \in topo.cmdPort /\ commands # {} THEN commands ELSE {p}

\* The outputs wired to a scheduling port of an instance.
DrainOutputs(i) ==
  {o \in OutPort : \E p \in topo.wires[o] \cap facts.rates.drains : topo.owner[p] = i}

\* Mutant: any call drains.
FirstCaller(i) ==
  LET outputs == {o \in OutPort : \E p \in topo.wires[o] : topo.owner[p] = i}
  IN  IF outputs = {} THEN None ELSE CHOOSE o \in outputs : TRUE

\* drains[0]: one of them, the first by name.
FirstDrain(i) ==
  IF DrainOutputs(i) = {} THEN None ELSE CHOOSE o \in DrainOutputs(i) : TRUE

\* emit_context_for_port: the kinds of the handlers that invoke an output.
Emitters(o) ==
  {k \in SyncKind : \E p \in InPort :
     /\ topo.owner[p] = topo.owner[o] /\ k \in InputSyncKinds(topo, p)
     /\ \E h \in FlowEntries(topo, p, k) : o \in OutputsFor(topo, h)}

\* Mutant: one sync handler among others is no reason to warn.
UnsafeIfAllSync(kinds) == kinds \subseteq {"sync"}

\* has_sync_or_unknown_context.  The markers are searched as substrings, so that
\* an "async input handler", as one of several, has a "sync input handler" in it.
UnsafeContext(kinds) == kinds = {} \/ "sync" \in kinds \/ kinds = {"async", "guarded"}

\* classify_priority_relation: 3 is red, 2 a warning, 1 green, 0 nothing.
Severity(producer, sink) ==
  LET known == producer.priority # None /\ sink # None
      above == known /\ producer.priority > sink
      below == known /\ producer.priority < sink
  IN  CASE producer.kind = "passive" -> IF UnsafeContext(producer.context) THEN 2 ELSE 1
        [] producer.kind = "active" /\ above -> 3
        [] producer.kind # "passive" /\ ~(producer.kind = "active" /\ above) ->
             IF UnsafeContext(producer.context) \/ above THEN 2 ELSE IF below THEN 1 ELSE 0

-----------------------------------------------------------------------------
(* Rates: a sum, and whether some rate in it is not known. *)

Rate == [hz : Nat, unknown : BOOLEAN]
NoRate == [hz |-> 0, unknown |-> FALSE]

\* Mutant: an unknown rate counts as none.
AddKnown(total, hz) == IF hz = None THEN total ELSE [total EXCEPT !.hz = @ + hz]

AddRate(total, hz) ==
  IF hz = None THEN [total EXCEPT !.unknown = TRUE] ELSE [total EXCEPT !.hz = @ + hz]

Total(rate) == IF rate.unknown THEN None ELSE rate.hz

\* estimate_fill_time, as the net rate that fills the queue: 0 for "stable".
FillRate(size, hz, drain) ==
  IF None \in {size, hz, drain} THEN None ELSE IF hz <= drain THEN 0 ELSE hz - drain

\* A row as analyze makes it, and what filter_drop_ports leaves of it.
Groups(i) == UNION {QueueEntries(c[2]) : c \in {x \in QueueConnections(topo) : topo.owner[x[2]] = i}}
Kept(i) == {h \in Groups(i) : facts.onFull[h] # "drop"}
FilteredTotal(i) ==
  IF \E h \in Kept(i) : entered[h].unknown THEN None
  ELSE SumFunction([h \in Kept(i) |-> entered[h].hz])
RowFill(i) == FillRate(facts.size[i], Total(received[i]), consumed[i])
FilteredFill(i) == FillRate(facts.size[i], FilteredTotal(i), consumed[i])

-----------------------------------------------------------------------------
(* find_requeue_drops *)

PortPriority(p) == IF facts.portPriority[p] = None THEN DefaultPriority ELSE facts.portPriority[p]
AsyncEntries == {p \in InPort : "async" \in InputSyncKinds(topo, p)}
OnThread(p) == ReachedByCalls(topo, FlowEntries(topo, p, "async"))

\* Mutant: only what the entry's own handlers post.
DirectDrops ==
  UNION { LET posted == UNION {Destinations(topo, h) : h \in FlowEntries(topo, p, "async")}
          IN  {<<p, q>> : q \in {x \in AsyncEntries \cap posted :
                 topo.owner[p] = topo.owner[x] /\ PortPriority(x) < PortPriority(p)}} :
          p \in AsyncEntries }

RequeueDrops ==
  UNION { LET posted == UNION {Destinations(topo, h) : h \in OnThread(p)}
          IN  {<<p, q>> : q \in {x \in AsyncEntries \cap posted :
                 topo.owner[p] = topo.owner[x] /\ PortPriority(x) < PortPriority(p)}} :
          p \in AsyncEntries }

-----------------------------------------------------------------------------
Init ==
  /\ RateInit
  /\ todo = QueueConnections(topo)
  /\ current = None
  /\ asking = <<>> /\ visiting = <<>>
  /\ cache = [i \in Instance |-> None]
  /\ producers = {}
  /\ received = [i \in Instance |-> NoRate]
  /\ entered = [h \in Handler |-> NoRate]
  /\ drops = {}

\* infer_rate_groups, before the queues.
InferRates == RatesNext /\ UNCHANGED <<todo, current, threadVars, queueVars, drops>>

\* The thread of the queue is asked for first, then the producer's.
Take ==
  /\ status = "analyzing" /\ current = None
  /\ \E c \in todo :
       /\ current' = c
       /\ todo' = todo \ {c}
       /\ asking' = <<topo.owner[c[2]], topo.owner[c[1]]>>
  /\ UNCHANGED <<inputVars, visiting, cache, queueVars, drops, status>>

Recall ==
  /\ asking # <<>> /\ visiting = <<>> /\ cache[Head(asking)] # None
  /\ asking' = Tail(asking)
  /\ UNCHANGED <<inputVars, todo, current, visiting, cache, queueVars, drops, status>>

Ask ==
  /\ asking # <<>> /\ visiting = <<>> /\ cache[Head(asking)] = None
  /\ visiting' = <<Head(asking)>>
  /\ UNCHANGED <<inputVars, todo, current, asking, cache, queueVars, drops, status>>

Innermost == visiting[Len(visiting)]
Drained(i) == topo.component[i] = "queued" /\ FirstDrain(i) # None
DrainCaller(i) == topo.owner[FirstDrain(i)]

\* Mutant: an instance of the recursion is asked for again.
Forgotten(i) == FALSE

Visited(i) == \E k \in DOMAIN visiting : visiting[k] = i

MustAsk(i) == Drained(i) /\ cache[DrainCaller(i)] = None /\ ~Visited(DrainCaller(i))

\* _queued_drain_info: the thread is that of whoever drains the queue.  Beyond the
\* recursion limit the analysis stops with an exception.
AskCaller ==
  /\ visiting # <<>> /\ MustAsk(Innermost) /\ Len(visiting) < RecursionLimit
  /\ visiting' = Append(visiting, DrainCaller(Innermost))
  /\ UNCHANGED <<inputVars, todo, current, asking, cache, queueVars, drops, status>>

\* The caller's priority; a caller in the recursion is a cycle, and has none.
PriorityOf(i) ==
  CASE topo.component[i] = "active" -> facts.priority[i]
    [] Drained(i) /\ cache[DrainCaller(i)] # None -> cache[DrainCaller(i)].priority
    [] OTHER -> None

Return(i) ==
  /\ cache' = [cache EXCEPT ![i] = [kind |-> topo.component[i], priority |-> PriorityOf(i)]]
  /\ visiting' = SubSeq(visiting, 1, Len(visiting) - 1)
  /\ UNCHANGED <<inputVars, todo, current, asking, queueVars, drops, status>>

\* Mutant: a caller not yet looked at has no priority.
ResolveEarly == visiting # <<>> /\ Return(Innermost)

Resolve == visiting # <<>> /\ ~MustAsk(Innermost) /\ Return(Innermost)

\* emit_context_for_port asks every handler of the producer.
EmitContextRaises ==
  \E p \in InPort, k \in SyncKind :
    /\ topo.owner[p] = topo.owner[current[1]] /\ k \in InputSyncKinds(topo, p)
    /\ \E h \in FlowEntries(topo, p, k) : Unresolved(topo, h)

Asked == status = "analyzing" /\ current # None /\ asking = <<>>

Count ==
  /\ Asked /\ ~EmitContextRaises
  /\ LET o == current[1] p == current[2] i == topo.owner[p]
         hz == produced[o]
         source == cache[topo.owner[o]]
     IN  /\ producers' = producers \cup
              { [source |-> o, dest |-> p, kind |-> source.kind,
                 priority |-> source.priority, context |-> Emitters(o)] }
         /\ received' = [received EXCEPT ![i] = AddRate(@, hz)]
         /\ entered' = [h \in Handler |-> IF h \in QueueEntries(p) THEN AddRate(entered[h], hz)
                                          ELSE entered[h]]
  /\ current' = None
  /\ UNCHANGED <<inputVars, todo, threadVars, drops, status>>

RequeueRaises == \E p \in AsyncEntries : \E h \in OnThread(p) : Unresolved(topo, h)

Analyzed == status = "analyzing" /\ current = None /\ todo = {}

FindDrops ==
  /\ Analyzed /\ ~RequeueRaises
  /\ drops' = RequeueDrops
  /\ status' = "done"
  /\ UNCHANGED <<inputVars, todo, current, threadVars, queueVars>>

\* UnresolvedFlowError ends the program: no row is shown.
Refuse ==
  /\ (Asked /\ EmitContextRaises) \/ (Analyzed /\ RequeueRaises)
  /\ status' = "refused"
  /\ UNCHANGED <<inputVars, todo, current, threadVars, queueVars, drops>>

Next == InferRates \/ Take \/ Recall \/ Ask \/ AskCaller \/ Resolve \/ Count \/ FindDrops \/ Refuse

Spec == Init /\ [][Next]_vars /\ WF_vars(Next)

-----------------------------------------------------------------------------
\* The instance at the end of the drains of an instance.
DrainEnd(i) ==
  LET end[n \in 0..Cardinality(Instance)] ==
        IF n = 0 THEN i
        ELSE LET last == end[n - 1] IN IF Drained(last) THEN DrainCaller(last) ELSE last
  IN  end[Cardinality(Instance)]

\* What the cache keeps does not depend on the order of the queries or on where a
\* cycle of drains was entered: the priority of the active instance the drains
\* lead to, or none.
ThreadInfoExact ==
  \A i \in Instance : cache[i] # None =>
    cache[i].priority = IF topo.component[DrainEnd(i)] = "active"
                        THEN facts.priority[DrainEnd(i)] ELSE None

\* A fill time of a row is that of all its producers, each invoked once per tick of
\* every member connection that reaches it, and one of a row without its
\* dropping ports is never longer than what the producers left would take: the
\* commands of one port may count twice, never less than once.
Sources(i, entries) ==
  {c \in QueueConnections(topo) : topo.owner[c[2]] = i /\ QueueEntries(c[2]) \cap entries # {}}
Fills(C) == IF \E c \in C : TickRate(c[1]) = None THEN None
            ELSE SumFunction([c \in C |-> TickRate(c[1])])
FillTimesHonest ==
  Analyzed => \A i \in Instance :
    /\ RowFill(i) = FillRate(facts.size[i], Fills(Sources(i, Groups(i))), consumed[i])
    /\ Kept(i) # {} /\ FilteredFill(i) # None =>
         LET left == FillRate(facts.size[i], Fills(Sources(i, Kept(i))), consumed[i])
         IN  left # None /\ FilteredFill(i) >= left

\* The analysis returns or refuses, also where queued instances drain each other:
\* the recursion over them is never deeper than there are instances.
AnalysisEnds == <>(status \in {"done", "refused"})
=============================================================================
