--------------------------- MODULE TopologyChecks ---------------------------
(***************************************************************************)
(* The check suite (checks.py, run_checks): the twelve checks, in their    *)
(* order, over one graph whose thread labels the first check that wants    *)
(* them computes for all.  A check that raises is recorded as skipped and  *)
(* the next one runs on the same graph.                                    *)
(***************************************************************************)
EXTENDS TopologyGraph, Sequences, FiniteSetsExt

CONSTANTS
  Module,         \* the first parts of qualified instance names
  Member, Lock,   \* members of component classes, and mutexes among them
  Facts,          \* what is known of handlers and instances (see Fact)
  Selections,     \* the sets of checks the user may select
  MaxChain,       \* the length at which a chain of calls is cut (24; fan-out: 13)
  MinDepth,       \* MIN_DEPTH (4)
  None            \* no priority or CPU declared

PortType == {"ping", "bufferGet", "bufferSend", "log", "time", "tlm", "sched", "cycle", "other"}

\* Facets of the flow map, and attributes of the model.
Fact ==
  [ reads    : [Handler -> SUBSET Member],
    writes   : [Handler -> SUBSET Member],
    locks    : [Handler -> SUBSET Lock],       \* held across its accesses
    tested   : [Handler -> SUBSET OutPort],    \* guarded_ports: isConnected
    priority : [Instance -> Nat \cup {None}],
    cpu      : [Instance -> Nat \cup {None}],
    module   : [Instance -> Module],
    type     : [InPort \cup OutPort -> PortType],
    fatal    : SUBSET Handler,                 \* event_severities has FATAL
    dropping : SUBSET InPort,                  \* port_queue_full is "drop"
    size     : [Instance -> Nat \cup {None}], \* queue_size
    wide     : SUBSET OutPort,                 \* port arrays of more than one
    noFlow   : BOOLEAN ]                       \* no flow map was supplied

CHECKS ==
  << "priority-inversion-window", "unconnected-port-invoked", "sync-cycle",
     "ping-coverage", "data-race", "buffer-ownership", "stack-depth", "rate-group",
     "fatal-path", "queue-overflow", "cmd-tlm-paths", "cpu-affinity" >>
CheckId == {CHECKS[k] : k \in DOMAIN CHECKS}
RequiresFlow == CheckId \ {"ping-coverage", "buffer-ownership", "cmd-tlm-paths"}

ASSUME TopologyChecksAssumption ==
  /\ \A f \in Facts : f \in Fact
  /\ Selections \subseteq SUBSET CheckId
  /\ MaxChain \in Nat \ {0} /\ MinDepth \in Nat
  /\ None \notin Nat

VARIABLES
  facts, selected,         \* the input besides topo, never written
  full, raising,           \* history: the labels of topo, and whether they raise
  computed, labels,        \* _origins_computed and port_threads of the graph
  next,                    \* the position reached in CHECKS
  findings,                \* what each check reported
  skipped                  \* the checks that did not run to their end

inputVars == <<topo, facts, selected, full, raising>>
suiteVars == <<computed, labels, next, findings, skipped>>
vars == <<inputVars, suiteVars>>

-----------------------------------------------------------------------------
(* What the checks share. *)

\* Check.handlers, of all instances.
Entry == [port : InPort, kind : SyncKind, handler : Handler]
Entries == {e \in Entry : e.kind \in InputSyncKinds(topo, e.port)
                          /\ e.handler \in FlowEntries(topo, e.port, e.kind)}

Owner(e) == topo.owner[e.port]
GuardedPorts(i) == {p \in GuardedEntries(topo) : topo.owner[p] = i}

Inputs(i) == {p \in InPort : topo.owner[p] = i}
OfType(ports, t) == {x \in ports : facts.type[x] = t}
ReachedByType(i, t) ==
  {topo.owner[p] : p \in UNION {topo.wires[o] : o \in OfType(OutputPorts(topo, i), t)}}

\* threads_reaching, once the labels were computed.
LabelsOf(L, p) == IF L[p] = {} THEN UnknownThread ELSE L[p]

\* Mutant: through any of its ports, guarded or not.
ContendersOfAllPorts(L, i) ==
  {l[2] : l \in RealThreads(UNION {LabelsOf(L, p) : p \in {x \in InPort : topo.owner[x] = i}})}

\* The instances whose threads may take the mutex of an instance.
Contenders(L, i) ==
  {l[2] : l \in RealThreads(UNION {LabelsOf(L, p) : p \in GuardedPorts(i)})}

Known(attribute, I) == {attribute[i] : i \in I} \ {None}

\* The chains of handlers that start with S and go from a handler to one of
\* its callees, each handler at most once, or twice to end the chain there;
\* out[n] are those of n handlers.
Simple(c) == \A j, k \in DOMAIN c : j # k => c[j] # c[k]
Chains(S, callees) ==
  LET out[n \in 1..(MaxChain + 1)] ==
        IF n = 1 THEN {<<h>> : h \in S}
        ELSE UNION { {Append(c, h) : h \in callees[c[n - 1]]} :
                     c \in {x \in out[n - 1] : Simple(x)} }
  IN  out

-----------------------------------------------------------------------------
(* The checks: what each reports under the labels L. *)

\* Mutant: two threads are not yet a window.
WindowOfThree(L) ==
  LET known == [i \in Instance |-> Known(facts.priority, Contenders(L, i))]
  IN  {<<i, Max(known[i]) - Min(known[i])>> : i \in {j \in Instance : Cardinality(known[j]) > 2}}

\* The priorities of the threads that contend for a mutex span a window.
PriorityInversionWindow(L) ==
  LET known == [i \in Instance |-> Known(facts.priority, Contenders(L, i))]
  IN  {<<i, Max(known[i]) - Min(known[i])>> : i \in {j \in Instance : Cardinality(known[j]) > 1}}

\* A handler invokes an output that nothing is wired to.
Unwired(i) == {o \in OutputPorts(topo, i) : topo.wires[o] = {}}
UnconnectedPortInvoked ==
  {e \in Entries : (OutputsFor(topo, e.handler) \cap Unwired(Owner(e))) \ facts.tested[e.handler] # {}}

\* The hops of the sync-cycle check.
PurelySync(p) == InputSyncKinds(topo, p) = {"sync"}
SyncSuccessors(h) ==
  UNION {FlowEntries(topo, p, "sync") : p \in {x \in Destinations(topo, h) : PurelySync(x)}}

\* Mutant: the first handler of the path is left out.
SyncPathsTail ==
  LET chains == Chains({e.handler : e \in {x \in Entries : x.kind = "sync"}}, [h \in Handler |-> SyncSuccessors(h)])
  IN  { {topo.owner[c[k]] : k \in 2..(Len(c) - 1)} :
          c \in {x \in UNION {chains[n] : n \in DOMAIN chains} : ~Simple(x)} }

\* Sync handlers that call each other: the instances on the way into the cycle
\* and around it.
SyncPaths ==
  LET chains == Chains({e.handler : e \in {x \in Entries : x.kind = "sync"}}, [h \in Handler |-> SyncSuccessors(h)])
  IN  { {topo.owner[c[k]] : k \in DOMAIN c} :
          c \in {x \in UNION {chains[n] : n \in DOMAIN chains} : ~Simple(x)} }

\* One path is reported, the first, of those with the same "cycle", which is the
\* set of what stands before the first dot of the names along the path.
ModulesOf(I) == {facts.module[i] : i \in I}
SyncCycle ==
  LET paths == SyncPaths
  IN  {r \in SUBSET paths :
         /\ \A c \in paths : \E d \in r : ModulesOf(c) = ModulesOf(d)
         /\ \A c, d \in r : ModulesOf(c) = ModulesOf(d) => c = d}

\* A thread whose health nobody asks for, or that does not answer itself.
PingCoverage ==
  LET pings(i) == OfType(Inputs(i), "ping") \cap ConnectedInputs(topo)
      threads == {i \in Instance : IsOwnThread(topo, i)}
  IN  {<<"warning", i>> : i \in {j \in threads : pings(j) = {}}} \cup
      {<<"error", p>> : p \in {x \in UNION {pings(i) : i \in threads} :
                                  "async" \notin InputSyncKinds(topo, x)}}

\* _access_map: an async handler runs on the instance's own thread.
Access(L, e, writes) ==
  [ port |-> e.port, handler |-> e.handler, kind |-> e.kind, writes |-> writes,
    threads |-> IF e.kind = "async" THEN {<<"thread", Owner(e)>>} ELSE LabelsOf(L, e.port) ]
Accesses(L, i, m) ==
  LET touching(members) == {e \in Entries : Owner(e) = i /\ m \in members[e.handler]}
  IN  {Access(L, e, TRUE) : e \in touching(facts.writes)} \cup
      {Access(L, e, FALSE) : e \in touching(facts.reads)}

ThreadsOf(accesses) == UNION {a.threads : a \in accesses}
Guarded(a) == a.kind = "guarded"
Locked(a) == facts.locks[a.handler] # {}

\* Mutant: one async access is enough.
IsSynchronizedByQueue(accesses) ==
  \/ \E l \in Lock : \A a \in accesses : l \in facts.locks[a.handler]
  \/ \A a \in accesses : Guarded(a) \/ Locked(a)
  \/ \E a \in accesses : a.kind = "async"

\* _is_synchronized: a common lock, guarded or some lock throughout, or one queue.
IsSynchronized(accesses) ==
  \/ \E l \in Lock : \A a \in accesses : l \in facts.locks[a.handler]
  \/ \A a \in accesses : Guarded(a) \/ Locked(a)
  \/ \A a \in accesses : a.kind = "async"

\* _summarize
RaceSeverity(accesses) ==
  LET writing == {a \in accesses : a.writes /\ ~Guarded(a) /\ ~Locked(a)}
  IN  IF Cardinality(writing) > 1 /\ Cardinality(ThreadsOf(writing)) > 1 THEN "warning" ELSE "info"

\* classify: some thread writes what another reads or writes.
IsRace(accesses) ==
  /\ Cardinality(ThreadsOf(accesses)) > 1 \/ UnknownThread \subseteq ThreadsOf(accesses)
  /\ \E a \in accesses : a.writes
  /\ ~IsSynchronized(accesses)

DataRace(L) ==
  {<<s[1], s[2], RaceSeverity(Accesses(L, s[1], s[2]))>> :
     s \in {x \in Instance \X Member : IsRace(Accesses(L, x[1], x[2]))}}

\* Buffers go to a manager other than the one they are from, or nowhere.
BufferOwnership ==
  LET returns(i) == {j \in ReachedByType(i, "bufferSend") :
                       OfType(Inputs(j) \cup OutputPorts(topo, j), "bufferGet") # {}}
      crossed(i) == returns(i) \ ReachedByType(i, "bufferGet")
      keeps(i) == /\ OfType(Inputs(i), "bufferSend") \cap ConnectedInputs(topo) # {}
                  /\ OfType(OutputPorts(topo, i), "bufferSend") = {}
  IN  {<<"error", i>> :
         i \in {j \in Instance : ReachedByType(j, "bufferGet") # {} /\ crossed(j) # {}}} \cup
      {<<"warning", i>> : i \in {j \in Instance : keeps(j)}}

\* The deepest chain of calls on the stack of an instance's own thread.
ThreadSuccessors(h) == NextHandlers(topo, h)
ThreadEntries(i) == {e.handler : e \in {x \in Entries : Owner(x) = i /\ x.kind = "async"}}
StackDepth ==
  LET deepest(i) ==
        LET chains == Chains(ThreadEntries(i), [h \in Handler |-> ThreadSuccessors(h)])
        IN  Max({0} \cup {n \in DOMAIN chains : chains[n] # {}})
  IN  {<<i, deepest(i)>> :
         i \in {j \in Instance : IsOwnThread(topo, j) /\ deepest(j) >= MinDepth}}

\* A member of a rate group whose mutex another thread takes through the same port.
SchedOutputs(i) == OfType(OutputPorts(topo, i), "sched")
RateGroup(i) == SchedOutputs(i) # {} /\ OfType(Inputs(i), "cycle") # {}
Members(i) == {p \in UNION {topo.wires[o] : o \in SchedOutputs(i)} :
                 "async" \notin InputSyncKinds(topo, p) /\ GuardedPorts(topo.owner[p]) # {}}
RateGroupBudget(L) ==
  UNION { {i} \X {p \in Members(i) : LabelsOf(L, p) \ {<<"thread", i>>} # {}} :
          i \in {j \in Instance : RateGroup(j)} }

\* The report of a FATAL event may be queued or dropped.
FatalPath ==
  {i \in Instance :
     /\ \E e \in Entries : Owner(e) = i /\ e.handler \in facts.fatal
     /\ \E o \in OfType(OutputPorts(topo, i), "log") : \E p \in topo.wires[o] :
          "async" \in InputSyncKinds(topo, p) \/ p \in facts.dropping}

\* The connections a handler calls, and those of them that queue a message.
Wires(h) == UNION {{o} \X topo.wires[o] : o \in OutputsFor(topo, h)}
Posts(h) == {w \in Wires(h) : "async" \in InputSyncKinds(topo, w[2])}

\* The chains of calls on the thread of an entry, each link with the output it was
\* called through, no handler twice: two connections count apart.
Links(h) ==
  LET entered(p) == UNION {FlowEntries(topo, p, k) : k \in InputSyncKinds(topo, p) \ {"async"}}
  IN  UNION {[via : {w[1]}, handler : entered(w[2])] : w \in Wires(h)}

\* Mutant: a handler is counted once, on whatever way it is reached first.
CallChainsOnce(h) == {<<[via |-> None, handler |-> x]>> : x \in ReachableFrom(topo, {h})}

CallChains(h) ==
  LET once(c) == Cardinality({c[k].handler : k \in DOMAIN c}) = Len(c)
      out[n \in 1..MaxChain] ==
        IF n = 1 THEN {<<[via |-> None, handler |-> h]>>}
        ELSE {x \in UNION {{Append(c, l) : l \in Links(c[n - 1].handler)} : c \in out[n - 1]} :
                once(x)}
  IN  UNION {out[n] : n \in DOMAIN out}

\* The messages to an instance that the last handler of a chain queues, and their
\* number over chains.
Queued(c, i) == {w \in Posts(c[Len(c)].handler) : topo.owner[w[2]] = i}
QueuedCount(C, i) == MapThenSumSet(LAMBDA c : Cardinality(Queued(c, i)), C)

\* One message makes a thread queue more messages than the queue holds: an error
\* when they are for its own queue, through no port array.
QueueOverflow ==
  LET chains == [h \in {e.handler : e \in {x \in Entries : x.kind = "async"}} |-> CallChains(h)]
      viaArray(h, i) == \E c \in chains[h] : \E w \in Wires(c[Len(c)].handler) :
                          topo.owner[w[2]] = i /\ w[1] \in facts.wide
  IN  { <<IF Owner(x[1]) = x[2] /\ ~viaArray(x[1].handler, x[2]) THEN "error" ELSE "info",
          x[2], x[1].port, x[1].handler>> :
        x \in {y \in {e \in Entries : e.kind = "async"} \X Instance :
                 facts.size[y[2]] # None /\ QueuedCount(chains[y[1].handler], y[2]) > facts.size[y[2]]} }

\* No command can be sent, or a report goes nowhere.
CommandTelemetryPaths ==
  LET lost(t) == {o \in OfType(OutPort, t) : topo.wires[o] = {}}
  IN  {<<"error", p>> : p \in {x \in topo.cmdPort \ ConnectedInputs(topo) :
                                  CommandsOf(topo, topo.owner[x]) # {}}} \cup
      ({"warning"} \X lost("time")) \cup ({"info"} \X (lost("log") \cup lost("tlm")))

\* Threads pinned to different CPUs contend for a mutex.
CpuAffinity(L) == {i \in Instance : Cardinality(Known(facts.cpu, Contenders(L, i))) > 1}

\* What a check may report.
Run(c, L) ==
  CASE c = "priority-inversion-window" -> {PriorityInversionWindow(L)}
    [] c = "unconnected-port-invoked" -> {UnconnectedPortInvoked}
    [] c = "sync-cycle" -> SyncCycle
    [] c = "ping-coverage" -> {PingCoverage}
    [] c = "data-race" -> {DataRace(L)}
    [] c = "buffer-ownership" -> {BufferOwnership}
    [] c = "stack-depth" -> {StackDepth}
    [] c = "rate-group" -> {RateGroupBudget(L)}
    [] c = "fatal-path" -> {FatalPath}
    [] c = "queue-overflow" -> {QueueOverflow}
    [] c = "cmd-tlm-paths" -> {CommandTelemetryPaths}
    [] c = "cpu-affinity" -> {CpuAffinity(L)}

-----------------------------------------------------------------------------
(* How a check may raise: it asks for the outputs of an unresolved handler, *)
(* or it is the one that makes the labels be computed and they raise.       *)

AskedOutputs(c) ==
  CASE c = "unconnected-port-invoked" -> {e.handler : e \in {x \in Entries : Unwired(Owner(x)) # {}}}
    [] c = "sync-cycle" -> {e.handler : e \in {x \in Entries : x.kind = "sync"}}
    [] c = "stack-depth" ->
         UNION { LET chains == Chains(ThreadEntries(i), [h \in Handler |-> ThreadSuccessors(h)])
                 IN  UNION {{x[n] : x \in chains[n]} : n \in 1..MaxChain} :
                 i \in {j \in Instance : IsOwnThread(topo, j)} }
    [] c = "queue-overflow" ->
         {l.handler : l \in UNION {{x[k] : k \in DOMAIN x} : x \in
            UNION {CallChains(e.handler) : e \in {y \in Entries : y.kind = "async"}}}}
    [] OTHER -> {}

AsksLabels(c) ==
  CASE c \in {"priority-inversion-window", "cpu-affinity"} -> GuardedEntries(topo) # {}
    [] c = "unconnected-port-invoked" -> UnconnectedPortInvoked # {}
    [] c = "data-race" -> \E e \in Entries : e.kind # "async"
                            /\ facts.reads[e.handler] \cup facts.writes[e.handler] # {}
    [] c = "rate-group" -> \E i \in Instance : RateGroup(i) /\ Members(i) # {}
    [] OTHER -> FALSE

OutputsRaise(c) == \E h \in AskedOutputs(c) : Unresolved(topo, h)

\* Whether computing the labels of a topology raises.
LabelsRaise(t) ==
  \E s \in OriginSeeds(t) : \E h \in ReachableFrom(t, SeedHandlers(t, s)) : Unresolved(t, h)

\* What an exception may leave of the labels: see LabelsAreSound.
PartialLabels ==
  LET pairs == {x \in InPort \X Origin : x[2] \in full[x[1]]}
  IN  {[p \in InPort |-> {x[2] : x \in {y \in some : y[1] = p}}] : some \in SUBSET pairs}

-----------------------------------------------------------------------------
(* run_checks *)

Init ==
  /\ topo \in Topologies
  /\ facts \in Facts
  /\ facts.noFlow => topo.opaque = Handler
  /\ selected \in Selections
  /\ full = ThreadsReaching(topo)
  /\ raising = LabelsRaise(topo)
  /\ computed = FALSE
  /\ labels = [p \in InPort |-> {}]
  /\ next = 1
  /\ findings = [c \in CheckId |-> {}]
  /\ skipped = {}

Finished == next > Len(CHECKS)
Check == CHECKS[next]

\* "selected" is empty when the user selects none: then every check runs.
Selected(c) == selected = {} \/ c \in selected

Unsupported == Check \in RequiresFlow /\ facts.noFlow /\ topo.strict

Deselected ==
  /\ ~Finished /\ ~Selected(Check)
  /\ next' = next + 1
  /\ UNCHANGED <<inputVars, computed, labels, findings, skipped>>

NoFlowMap ==
  /\ ~Finished /\ Selected(Check) /\ Unsupported
  /\ next' = next + 1
  /\ skipped' = skipped \cup {Check}
  /\ UNCHANGED <<inputVars, computed, labels, findings>>

\* The check runs to its end.
Report ==
  /\ ~Finished /\ Selected(Check) /\ ~Unsupported
  /\ ~OutputsRaise(Check)
  /\ IF AsksLabels(Check) /\ ~computed
     THEN /\ ~raising
          /\ computed' = TRUE
          /\ labels' = full
     ELSE UNCHANGED <<computed, labels>>
  /\ \E r \in Run(Check, labels') : findings' = [findings EXCEPT ![Check] = r]
  /\ next' = next + 1
  /\ UNCHANGED <<inputVars, skipped>>

\* Mutant: a check that raised is not mentioned.
FailSilently ==
  /\ ~Finished /\ Selected(Check) /\ ~Unsupported
  /\ OutputsRaise(Check) \/ (AsksLabels(Check) /\ ~computed /\ raising)
  /\ next' = next + 1
  /\ UNCHANGED <<inputVars, computed, labels, findings, skipped>>

\* The check raises and what it found is lost.  Whether it asked for the labels
\* before it raised depends on the order it takes the instances in.
Fail ==
  /\ ~Finished /\ Selected(Check) /\ ~Unsupported
  /\ \/ OutputsRaise(Check) /\ UNCHANGED <<computed, labels>>
     \/ /\ AsksLabels(Check) /\ ~computed
        /\ computed' = TRUE
        /\ IF raising THEN labels' \in PartialLabels
           ELSE OutputsRaise(Check) /\ labels' = full
  /\ skipped' = skipped \cup {Check}
  /\ next' = next + 1
  /\ UNCHANGED <<inputVars, findings>>

Next == Deselected \/ NoFlowMap \/ Report \/ Fail

Spec == Init /\ [][Next]_vars

-----------------------------------------------------------------------------
\* A full run that mentions no skipped check rests on no unresolved handler that
\* a thread can reach, although no check looks at all handlers: what one check
\* does not ask for another does ("Refusing to guess", README.md).
NothingSkippedNothingGuessed ==
  Finished /\ topo.strict /\ selected = {} /\ skipped = {} => ~raising

\* Contention that is reported is real, also when it is read off labels that an
\* exception cut short: the window and the CPUs are those of two threads that
\* reach guarded ports of the instance.
Takes(i) == {o[2] : o \in RealThreads(UNION {full[p] : p \in GuardedPorts(i)})}
ContentionReal ==
  /\ \A w \in findings["priority-inversion-window"] :
       \E a, b \in Takes(w[1]) : {facts.priority[a], facts.priority[b]} \subseteq Nat
                                  /\ facts.priority[a] = facts.priority[b] + w[2]
  /\ \A i \in findings["cpu-affinity"] :
       \E a, b \in Takes(i) : {facts.cpu[a], facts.cpu[b]} \subseteq Nat /\ facts.cpu[a] # facts.cpu[b]
=============================================================================
