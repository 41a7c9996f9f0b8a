----------------------------- MODULE LockGraph -----------------------------
(***************************************************************************)
(* The lock-order graph (guarded_port_analyzer.py, build_lock_graph and    *)
(* _on_hop) as built by the one traversal of the package                   *)
(* (topology_graph.py, walk_chains and _descend): a depth-first walk from  *)
(* every guarded entry that carries the set of mutexes held, marks         *)
(* (handler, held) as visited, and spends a budget shared by all entries.  *)
(***************************************************************************)
EXTENDS TopologyGraph, Sequences, FiniteSetsExt

CONSTANTS
  Options,        \* the command lines considered
  NoEntry         \* sentinel: no walk is running

\* max_states is the traversal budget all entries share.
Option == [maxStates : Nat, maxLockDepth : Nat \ {0}, suppressions : SUBSET (Instance \X Instance)]

ASSUME LockGraphAssumption ==
  /\ Options \subseteq Option
  /\ NoEntry \notin InPort

VARIABLES
  options,    \* the options given, never written
  labels,     \* port_threads of the graph, once computed
  real,       \* history: the nestings and re-entries there are, with their threads
  todo,       \* (guarded entry, handler behind it) pairs still to walk
  entry,      \* the guarded entry being walked, or NoEntry
  frames,     \* the call stack of _descend
  visited,    \* (handler, held) markers of this walk
  budget,     \* what is left of MaxStates
  lockEdges,  \* lock_edges: threads of (holder, acquired), {} for no edge
  selfLocks,  \* SELF_DEADLOCK findings: threads of an instance, {} for none
  truncated,
  refused     \* UnresolvedFlowError reached main: no report

walkVars == <<entry, frames, visited, budget>>
input == <<topo, options, labels, real>>
vars == <<input, todo, walkVars, lockEdges, selfLocks, truncated, refused>>

-----------------------------------------------------------------------------
(* What the walk is for, stated without its order, markers and bounds. *)

\* One call further from a handler running under a set of locks.
CallsUnder(t, c) ==
  UNION { { <<h, c[2] \cup (IF hop.kind = "guarded" THEN {t.owner[hop.port]} ELSE {})>> :
              h \in FlowEntries(t, hop.port, hop.kind) } :
          hop \in {x \in ThreadHops(t, c[1]) :
                    x.kind = "guarded" => t.owner[x.port] \notin c[2]} }

\* The (handler, locks held) pairs a set of them leads to, call by call.
LockState == Handler \X SUBSET Instance
LeadsTo(t, S) == Closure([c \in LockState |-> CallsUnder(t, c)], S)

\* Those a guarded entry leads to.
EntryState(t, p, h) == <<h, {t.owner[p]}>>
LockStates(t, p) == LeadsTo(t, {EntryState(t, p, h) : h \in FlowEntries(t, p, "guarded")})

GuardedCalls(t, c) == {hop.port : hop \in {x \in ThreadHops(t, c[1]) : x.kind = "guarded"}}

\* The threads of each nested acquisition and of each re-entry, over all
\* guarded entries.
Nested(t) ==
  LET threads == ThreadsAt(t)
      states  == [p \in GuardedEntries(t) |-> LockStates(t, p)]
      nests(p, a, b) == \E c \in states[p] : a \in c[2] /\ b \notin c[2]
                          /\ \E q \in GuardedCalls(t, c) : t.owner[q] = b
  IN  [e \in Instance \X Instance |->
         UNION {threads[p] : p \in {x \in DOMAIN states : nests(x, e[1], e[2])}}]

Reentered(t) ==
  LET threads == ThreadsAt(t)
      states  == [p \in GuardedEntries(t) |-> LockStates(t, p)]
      reenters(p, i) == \E c \in states[p] : i \in c[2]
                          /\ \E q \in GuardedCalls(t, c) : t.owner[q] = i
  IN  [i \in Instance |->
         UNION {threads[p] : p \in {x \in DOMAIN states : reenters(x, i)}}]

-----------------------------------------------------------------------------
\* A frame of _descend: the hops left to take, the locks held in its handler,
\* and the handlers the last hop enters, with the locks held there.
Frame(hops, held, entries, inner) ==
  [hops |-> hops, held |-> held, entries |-> entries, inner |-> inner]

\* _entry_threads: the finished labels.
EntryThreads(p) == labels[p]

\* The label computation itself raises on an unresolved handler it floods.
OriginsRaise(t) ==
  \E h \in Handler :
    /\ Unresolved(t, h)
    /\ \E s \in OriginSeeds(t) : h \in ReachableFrom(t, SeedHandlers(t, s))

\* Mutant: guarded commands are not walked.
WalksOfPorts(t) ==
  {w \in InPort \X InPort : w[1] \in GuardedEntries(t) /\ w[2] \in FlowEntries(t, w[1], "guarded")}

Walks(t) ==
  {w \in InPort \X Handler : w[1] \in GuardedEntries(t) /\ w[2] \in FlowEntries(t, w[1], "guarded")}

Init ==
  /\ topo \in Topologies
  /\ options \in Options
  /\ labels = ThreadsAt(topo)
  /\ real = [nested |-> Nested(topo), reentered |-> Reentered(topo)]
  /\ todo = Walks(topo)
  /\ entry = NoEntry
  /\ frames = <<>>
  /\ visited = {}
  /\ budget = options.maxStates
  /\ lockEdges = [e \in Instance \X Instance |-> {}]
  /\ selfLocks = [i \in Instance |-> {}]
  /\ truncated = FALSE
  /\ refused = FALSE

Top == frames[Len(frames)]
Below == SubSeq(frames, 1, Len(frames) - 1)

\* walk_chains starts on one handler of a guarded entry, holding its mutex.  The code
\* asks for the labels of entries without a handler too, and has no use for them.
StartWalk(w) ==
  /\ entry = NoEntry /\ ~refused
  /\ w \in todo
  /\ IF OriginsRaise(topo)
     THEN /\ refused' = TRUE
          /\ UNCHANGED <<todo, entry, frames, visited>>
     ELSE /\ todo' = todo \ {w}
          /\ entry' = w[1]
          /\ frames' = <<Frame({}, {}, {w[2]}, {topo.owner[w[1]]})>>
          /\ visited' = {}
          /\ UNCHANGED refused
  /\ UNCHANGED <<input, budget, lockEdges, selfLocks, truncated>>

\* Mutants: a marker without the locks held; no test of the markers.
HandlerMarker(h) == <<h, {}>>
NeverMet(h) == FALSE

\* What _descend remembers of a visit, and when it stops short.
Marker(h) == <<h, Top.inner>>
Met(h) == Marker(h) \in visited
OutOfBudget == budget = 0

\* Mutant: an unresolved handler is taken at its word.
NeverRefuses(h) == FALSE

Refuses(h) == Unresolved(topo, h)

\* _descend(h, held): out of budget, seen already, or spend and open a frame.
Descend(h) ==
  /\ frames # <<>> /\ ~refused
  /\ h \in Top.entries
  /\ LET rest == Append(Below, [Top EXCEPT !.entries = @ \ {h}])
     IN  IF OutOfBudget
         THEN /\ truncated' = TRUE
              /\ frames' = rest
              /\ UNCHANGED <<visited, budget, refused>>
         ELSE IF Met(h)
         THEN /\ frames' = rest
              /\ UNCHANGED <<visited, budget, truncated, refused>>
         ELSE /\ visited' = visited \cup {Marker(h)}
              /\ budget' = budget - 1
              /\ refused' = Refuses(h)
              /\ frames' = Append(rest, Frame(OutwardHops(topo, h), Top.inner, {}, {}))
              /\ UNCHANGED truncated
  /\ UNCHANGED <<input, todo, entry, lockEdges, selfLocks>>

\* One hop taken: the handlers it enters, with the locks held there.
Take(hop, entries, inner) ==
  frames' = Append(Below, Frame(Top.hops \ {hop}, Top.held, entries, inner))

Enter(hop) == FlowEntries(topo, hop.port, hop.kind)

HopReady(hop) ==
  /\ frames # <<>> /\ ~refused
  /\ Top.entries = {}
  /\ hop \in Top.hops

\* The threads of each key, with these added at the keys K.
AddThreads(record, K, threads) ==
  [k \in DOMAIN record |-> IF k \in K THEN record[k] \cup threads ELSE record[k]]

\* Mutant: a queued message is followed under the sender's locks.
AsyncHopFollowed(hop) ==
  /\ HopReady(hop) /\ hop.kind = "async"
  /\ Take(hop, Enter(hop), Top.held)
  /\ UNCHANGED <<lockEdges, selfLocks, truncated>>

\* A queued message ends the chain.
AsyncHop(hop) ==
  /\ HopReady(hop) /\ hop.kind = "async"
  /\ Take(hop, {}, {})
  /\ UNCHANGED <<lockEdges, selfLocks, truncated>>

\* Mutant: a sync call is not followed.
SyncHopEnds(hop) ==
  /\ HopReady(hop) /\ hop.kind = "sync"
  /\ Take(hop, {}, {})
  /\ UNCHANGED <<lockEdges, selfLocks, truncated>>

\* A sync call runs under the same locks.
SyncHop(hop) ==
  /\ HopReady(hop) /\ hop.kind = "sync"
  /\ Take(hop, Enter(hop), Top.held)
  /\ UNCHANGED <<lockEdges, selfLocks, truncated>>

\* The mutex a re-entry is recorded for, and the edges an acquisition records.
Reentry(i) == {j \in {i} : <<j, j>> \notin options.suppressions}
NewEdges(i) == (Top.held \X {i}) \ options.suppressions

\* A guarded call into a mutex of the chain: the chain hangs there.
SelfDeadlock(hop) ==
  LET i == topo.owner[hop.port]
  IN  /\ HopReady(hop) /\ hop.kind = "guarded" /\ i \in Top.held
      /\ Take(hop, {}, {})
      /\ selfLocks' = AddThreads(selfLocks, Reentry(i), EntryThreads(entry))
      /\ UNCHANGED <<lockEdges, truncated>>

\* A guarded call that takes one more mutex: an edge from every one held.
GuardedHop(hop) ==
  LET i == topo.owner[hop.port]
  IN  /\ HopReady(hop) /\ hop.kind = "guarded" /\ i \notin Top.held
      /\ lockEdges' = AddThreads(lockEdges, NewEdges(i), EntryThreads(entry))
      /\ IF Cardinality(Top.held) >= options.maxLockDepth
         THEN /\ truncated' = TRUE
              /\ Take(hop, {}, {})
         ELSE /\ Take(hop, Enter(hop), Top.held \cup {i})
              /\ UNCHANGED truncated
      /\ UNCHANGED selfLocks

TakeHop ==
  /\ \E hop \in [port : InPort, kind : SyncKind] :
       AsyncHop(hop) \/ SyncHop(hop) \/ SelfDeadlock(hop) \/ GuardedHop(hop)
  /\ UNCHANGED <<input, todo, entry, visited, budget, refused>>

\* _descend returns; with its outermost frame the walk is over.
Return ==
  /\ frames # <<>> /\ ~refused
  /\ Top.entries = {} /\ Top.hops = {}
  /\ frames' = Below
  /\ entry' = IF Len(frames) = 1 THEN NoEntry ELSE entry
  /\ visited' = IF Len(frames) = 1 THEN {} ELSE visited
  /\ UNCHANGED <<input, todo, budget, lockEdges, selfLocks, truncated, refused>>

Next ==
  \/ \E w \in todo : StartWalk(w)
  \/ \E h \in Handler : Descend(h)
  \/ TakeHop
  \/ Return

Spec == Init /\ [][Next]_vars

Built == todo = {} /\ entry = NoEntry

-----------------------------------------------------------------------------
\* What is to be reported of them.
ToReport(e) == e \notin options.suppressions
NestedNow ==
  [e \in Instance \X Instance |-> IF ToReport(e) THEN real.nested[e] ELSE {}]
ReenteredNow ==
  [i \in Instance |-> IF ToReport(<<i, i>>) THEN real.reentered[i] ELSE {}]

-----------------------------------------------------------------------------
Labels == SUBSET (Origin \cup UnknownThread)
FrameType == [ hops : SUBSET [port : InPort, kind : SyncKind], held : SUBSET Instance,
               entries : SUBSET Handler, inner : SUBSET Instance ]

TypeOK ==
  /\ topo \in Topology
  /\ todo \subseteq Walks(topo)
  /\ entry \in InPort \cup {NoEntry}
  /\ frames \in Seq(FrameType)
  /\ visited \subseteq Handler \X SUBSET Instance
  /\ options \in Options
  /\ labels \in [InPort -> Labels]
  /\ budget \in 0..options.maxStates
  /\ lockEdges \in [Instance \X Instance -> Labels]
  /\ selfLocks \in [Instance -> Labels]
  /\ truncated \in BOOLEAN
  /\ refused \in BOOLEAN

\* A reported nesting, and every thread on it, is one that some chain of calls
\* from a guarded entry makes, whatever the traversal order; a lock never
\* nests in itself as an edge.
EdgesSound ==
  LET nested == NestedNow
      again  == ReenteredNow
  IN  /\ \A e \in DOMAIN lockEdges : lockEdges[e] \subseteq nested[e]
      /\ \A i \in Instance : selfLocks[i] \subseteq again[i] /\ lockEdges[<<i, i>>] = {}

\* The walk keeps its types, and what it records is real.
GraphInvariant == TypeOK /\ EdgesSound

\* A walk that ended without being truncated found every nesting and every
\* re-entry with all their threads: neither the visited markers, which forget
\* the order locks were taken in, nor the budget and depth bounds ever lose one
\* silently.
CompleteUnlessTruncated ==
  Built /\ ~refused /\ ~truncated => lockEdges = NestedNow /\ selfLocks = ReenteredNow

\* Under a strict flow map a finished graph rests on no unresolved handler:
\* "refuse to run" (README), also for handlers no thread origin reaches.
StrictNeverGuesses ==
  topo.strict /\ topo.opaque # {} /\ Built /\ ~refused /\ ~truncated =>
    \A p \in GuardedEntries(topo) : \A c \in LockStates(topo, p) : c[1] \notin topo.opaque

\* The lock states of all walks, which are what the budget is spent on.
WalkStates(w) == LeadsTo(topo, {EntryState(topo, w[1], w[2])})
StatesToWalk == SumFunction([w \in Walks(topo) |-> Cardinality(WalkStates(w))])

\* A nesting that max_lock_depth cuts: so many locks held, and one more taken.
Deeper ==
  \E w \in Walks(topo) : \E c \in WalkStates(w) :
    /\ Cardinality(c[2]) >= options.maxLockDepth
    /\ \E p \in GuardedCalls(topo, c) : topo.owner[p] \notin c[2]

\* The result is called truncated only when a limit is too small for the topology.
\* Handlers are shared and call each other in circles, so there are far more
\* chains of calls than states; the markers see to it that a state is paid for
\* once in each walk, however many chains lead there.  A budget that is spent to the
\* end is too small as well: it is looked at before the markers are
\* (topology_graph.py:1039 and 1042).
TruncatedOnlyWhenTooLarge ==
  truncated => options.maxStates <= StatesToWalk \/ Deeper
=============================================================================
