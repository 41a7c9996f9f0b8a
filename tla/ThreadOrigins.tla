--------------------------- MODULE ThreadOrigins ---------------------------
(***************************************************************************)
(* The lazy computation of the thread-origin labels of a topology          *)
(* (TopologyGraph.threads_reaching, ensure_thread_origins,                 *)
(* _compute_thread_origins, _propagate_origin) as the checks drive it: any *)
(* port may be queried at any time, the first query computes every label,  *)
(* and an unresolved handler under a strict flow map raises out of the     *)
(* query, which the caller may survive (run_checks catches the exception   *)
(* and goes on to the next check).                                         *)
(***************************************************************************)
EXTENDS TopologyGraph

CONSTANTS NoPort, NoSeed, NoAnswer   \* sentinels

\* What a query that returns gives its caller.
Returned == [port : InPort, labels : SUBSET (Origin \cup UnknownThread)]

ASSUME ThreadOriginsAssumption ==
  /\ NoPort \notin InPort
  /\ NoSeed \notin Seed
  /\ NoAnswer \notin Returned

VARIABLES
  computed,     \* _origins_computed
  portThreads,  \* port_threads: the labels of each input port
  pending,      \* origins of _compute_thread_origins not yet propagated
  seed,         \* the origin _propagate_origin is flooding, or NoSeed
  queue, seen,  \* its worklist and visited set
  asking,       \* the port whose query is running, or NoPort
  answer,       \* what the last query returned, or NoAnswer if it raised
  raised        \* history: some query ended in UnresolvedFlowError

originVars == <<computed, portThreads, pending, seed, queue, seen>>
vars == <<topo, originVars, asking, answer, raised>>

Idle == seed = NoSeed /\ pending = {}

Init ==
  /\ topo \in Topologies
  /\ computed = FALSE
  /\ portThreads = [p \in InPort |-> {}]
  /\ pending = {}
  /\ seed = NoSeed
  /\ queue = {}
  /\ seen = {}
  /\ asking = NoPort
  /\ answer = NoAnswer
  /\ raised = FALSE

\* threads_reaching(p) is called.  ensure_thread_origins sets the flag before
\* it computes anything, and computes only when the flag was clear.
Query(p) ==
  /\ asking = NoPort
  /\ asking' = p
  /\ computed' = TRUE
  /\ pending' = IF computed THEN pending ELSE OriginSeeds(topo)
  /\ UNCHANGED <<topo, portThreads, seed, queue, seen, answer, raised>>

\* Mutant: the seeding port is not labelled.
StartOriginUnlabelled(s) ==
  /\ seed = NoSeed
  /\ s \in pending
  /\ pending' = pending \ {s}
  /\ seed' = s
  /\ queue' = SeedHandlers(topo, s)
  /\ seen' = {}
  /\ UNCHANGED <<topo, computed, portThreads, asking, answer, raised>>

\* _propagate_origin begins: the seeding port itself gets the label.
StartOrigin(s) ==
  /\ seed = NoSeed
  /\ s \in pending
  /\ pending' = pending \ {s}
  /\ seed' = s
  /\ portThreads' = [portThreads EXCEPT ![s.port] = @ \cup {s.label}]
  /\ queue' = SeedHandlers(topo, s)
  /\ seen' = {}
  /\ UNCHANGED <<topo, computed, asking, answer, raised>>

\* A worklist entry that was already expanded.
SkipSeen(h) ==
  /\ h \in queue \cap seen
  /\ queue' = queue \ {h}
  /\ UNCHANGED <<topo, computed, portThreads, pending, seed, seen, asking, answer, raised>>

\* What expanding a handler does: the ports of these hops get labels, and the
\* handler is seen and these handlers are queued.
Label(hops, labels) ==
  portThreads' = [p \in InPort |-> IF \E hop \in hops : hop.port = p
                                   THEN portThreads[p] \cup labels ELSE portThreads[p]]
Follow(h, handlers) ==
  /\ seen' = seen \cup {h}
  /\ queue' = (queue \ {h}) \cup handlers
MayExpand(h) ==
  /\ h \in queue \ seen
  /\ ~Unresolved(topo, h)
  /\ UNCHANGED <<topo, computed, pending, seed, asking, answer, raised>>

\* Mutant: a port without labels is stored with the unknown label first.
ExpandStoringUnknown(h) ==
  /\ MayExpand(h)
  /\ Label(ThreadHops(topo, h), {seed.label} \cup UnknownThread)
  /\ Follow(h, NextHandlers(topo, h))

\* Mutant: an async call is taken to stay on the caller's thread.
ExpandThroughQueues(h) ==
  /\ MayExpand(h)
  /\ Label(OutwardHops(topo, h), {seed.label})
  /\ Follow(h, NextHandlers(topo, h))

\* Mutant: the handler is not marked as seen.
ExpandUnmarked(h) ==
  /\ MayExpand(h)
  /\ Label(ThreadHops(topo, h), {seed.label})
  /\ queue' = (queue \ {h}) \cup NextHandlers(topo, h)
  /\ UNCHANGED seen

\* Expand a handler: label every input port it calls on this thread and queue
\* the handlers behind them.
Expand(h) ==
  /\ MayExpand(h)
  /\ Label(ThreadHops(topo, h), {seed.label})
  /\ Follow(h, NextHandlers(topo, h))

\* Mutant: the exception of one handler is swallowed and the flood goes on.
SwallowRaise(h) ==
  /\ h \in queue \ seen
  /\ Unresolved(topo, h)
  /\ Follow(h, {})
  /\ UNCHANGED <<topo, computed, portThreads, pending, seed, asking, answer, raised>>

\* outputs_for raises: the computation unwinds through the query to its
\* caller.  The labels written so far stay, and so does the flag.
Raise(h) ==
  /\ h \in queue \ seen
  /\ Unresolved(topo, h)
  /\ seed' = NoSeed
  /\ queue' = {}
  /\ seen' = {}
  /\ pending' = {}
  /\ answer' = NoAnswer
  /\ asking' = NoPort
  /\ raised' = TRUE
  /\ UNCHANGED <<topo, computed, portThreads>>

EndOrigin ==
  /\ seed # NoSeed
  /\ queue = {}
  /\ seed' = NoSeed
  /\ seen' = {}
  /\ UNCHANGED <<topo, computed, portThreads, pending, queue, asking, answer, raised>>

LabelsOf(p) == IF portThreads[p] = {} THEN UnknownThread ELSE portThreads[p]

Answer ==
  /\ asking # NoPort
  /\ Idle
  /\ answer' = [port |-> asking, labels |-> LabelsOf(asking)]
  /\ asking' = NoPort
  /\ UNCHANGED <<topo, originVars, raised>>

Compute ==
  \/ \E s \in pending : StartOrigin(s)
  \/ \E h \in queue : SkipSeen(h) \/ Expand(h) \/ Raise(h)
  \/ EndOrigin
  \/ Answer

Next == (\E p \in InPort : Query(p)) \/ Compute

\* A query runs to its end: it is one synchronous call.
Spec == Init /\ [][Next]_vars /\ WF_vars(Compute)

-----------------------------------------------------------------------------
TypeOK ==
  /\ topo \in Topologies
  /\ computed \in BOOLEAN
  /\ portThreads \in [InPort -> SUBSET Origin]
  /\ pending \subseteq OriginSeeds(topo)
  /\ seed \in OriginSeeds(topo) \cup {NoSeed}
  /\ queue \subseteq Handler
  /\ seed = NoSeed => queue = {}
  /\ seen \subseteq Handler
  /\ asking \in InPort \cup {NoPort}
  /\ answer \in Returned \cup {NoAnswer}
  /\ raised \in BOOLEAN

\* No label is ever invented: every origin written on a port reaches it over
\* non-async calls, at every moment of the flood and after an exception that
\* cut it short.
LabelsSound ==
  LET threads == ThreadsReaching(topo)
  IN  \A p \in InPort : portThreads[p] \subseteq threads[p]

AnswerExact ==
  answer # NoAnswer => answer.labels = ThreadsAt(topo)[answer.port]

\* What a query returns is the set of all origins that can invoke the port,
\* whatever the order the origins and the handlers were taken in, as long as
\* no query raised before it.
AnswersExact == ~raised => AnswerExact

\* The same without the proviso: "Thread origins that can invoke one input
\* port" (topology_graph.py:884).  A query after a failed one is not held to it.
EveryAnswerExact == AnswerExact

\* The loop invariant of the flood, and what it leaves behind: the handlers of
\* the seed are queued or expanded, an expanded handler has labelled its ports
\* and queued what it calls, and an origin that was flooded to its end labels
\* every port it reaches.  AnswersExact and LabelsSound follow from it.
CallState ==
  /\ asking = NoPort => Idle
  /\ ~computed => Idle /\ asking = NoPort /\ answer = NoAnswer

FloodExplored(H) ==
  /\ H \subseteq seen \cup queue
  /\ seen \cup queue \subseteq ReachableFrom(topo, H)
  /\ \A h \in seen : NextHandlers(topo, h) \subseteq seen \cup queue

FloodLabelled ==
  /\ seed.label \in portThreads[seed.port]
  /\ \A h \in seen : \A hop \in ThreadHops(topo, h) : seed.label \in portThreads[hop.port]

Flooded(s) == \A p \in PortsReached(topo, s) : s.label \in portThreads[p]

FloodInvariant ==
  /\ CallState
  /\ seed # NoSeed => FloodExplored(SeedHandlers(topo, seed)) /\ FloodLabelled
  /\ computed /\ ~raised =>
       \A s \in OriginSeeds(topo) \ (pending \cup {seed}) : Flooded(s)

\* Every query returns or raises: the flood ends on cyclic call graphs too.
QueryEnds == \A p \in InPort : asking = p ~> asking = NoPort
=============================================================================
