# fprime-topo-analysis: TLA+ models, checks and proofs

The repository analyses an F Prime topology statically: it joins the FPP model of
a deployment with a call graph extracted from its C++ and reports deadlocks,
queue trouble and other defects. This directory models the algorithms whose
results are the product, checks them with TLC against what they are supposed to
compute, and proves with TLAPS, for every topology, program, graph and number of
processes, every safety property that a passing run checks. Paths below are relative to
`src/src/fprime_topology_analysis/` unless they say otherwise.

## 1. Inventory

| component | state | operations | talks to |
|---|---|---|---|
| topology graph (`topology_graph.py`, `port_flow.py`) | instances, connections, dispatch kinds; written once by the loader | `outputs_for`, `destinations`, `outward_hops`, `flow_entries`, `guarded_entries` | every analysis calls it |
| thread-origin labels (`topology_graph.py`) | `port_threads`, `_origins_computed` | `threads_reaching` → `ensure_thread_origins` → `_compute_thread_origins` → `_propagate_origin` | deadlock analyzer, checks, queue analyzer |
| chain walk (`topology_graph.py`) | call stack, visited markers, one shared budget | `walk_chains`, `_descend`, and its caller's `on_hop` | deadlock analyzer |
| guarded-port analyzer (`guarded_port_analyzer.py`) | `lock_edges`, `findings`, `truncated` | `build_lock_graph`, `_record_edge`, `_record_self_deadlock`, `detect_cycles` | chain walk, labels |
| C++ flow extraction: caches, pool (`component_call_graph.py`) | unit caches and flow cache on disk, worker pool | `run`, `parse_unit`, `_read/_write_cached_unit`, `_read/_write_cached_flow` | libclang, file system, other runs through the caches |
| C++ flow extraction: resolution (`component_call_graph.py`) | methods and class bases merged over the units; the walk of a handler | `_scan_*`, `_merge_unit_result`, `_resolve`, `build_flow_map` | the syntax trees; the flow map it fills |
| flow-map lookup (`port_flow.py`) | the flow map; strict or permissive | `outputs_for`, `facet`, `UnresolvedFlowError` | topology graph |
| check suite (`checks.py`, `topology_checks.py`) | findings; the graph it shares | `run_checks` and twelve checks | labels, hops, flow facets |
| async queue analyzer (`async_queue_analyzer.py`) | caches of thread info, visiting sets | drain-thread inference, fill time, requeue drops | topology graph, rate groups |
| rate groups (`rate_groups.py`) | work list, rates contributed per root | `infer_rate_groups`, `_propagate_member_rates` | topology graph; the queue analyzer takes its rates |
| command lines and discovery (`cli.py`), model loading and selection (`topology_graph.py`), reports | none worth a state | searching, subprocesses, formatting | all |

What makes it correct, and where it is hard:

* **Labels.** They must be exactly the threads that reach a port; they are
  computed lazily, by the first query of any caller, over cyclic graphs, and an
  exception can leave the computation at any handler.
* **Lock graph.** The walk prunes by (handler, locks held), spends one budget over
  all entries and cuts at a depth: no nesting may get lost silently. The point of
  the analysis is a statement on *concurrent* executions of the deployment.
* **Cycles.** Two textbook algorithms were rewritten to be iterative and bounded by a quota.
* **Resolution.** Facts of a handler are those of all it calls, over recursion, shared helpers
  and units parsed in any order; C++ has virtual calls, pointers, overloads and base classes,
  of which the syntax tree of one unit says only part.
* **Extraction.** Processes that share caches, with deaths between writes, parse
  failures, and files that change, vanish and appear.
* **Checks.** They run one after the other on one graph whose labels the first of
  them computes; any may raise, and the next goes on. What they promise is about
  threads that meet in data and mutexes, nest calls, recurse and fill their own queues.
* **Queues.** The answer for one queue rests on a recursion over others, which may drain
  each other in a circle, behind a cache shared by all queries. What a row says is about
  threads of different priority meeting at a queue.
* **Rate groups.** One propagation per member connection through shared, cyclic handlers;
  a rate must not be lost, nor counted twice, where the ways of several roots meet.

The hazards behind each, at their lines, are listed in `PROJECT.json`.

## 2. Modules

| module | models | state ↔ code |
|---|---|---|
| `TopologyGraph` | a loaded topology with its flow map, as a record, and the queries made of it; the declarative definition `ThreadsAt` of the labels, by the least closed set `Closure` | fields ↔ `InstanceInfo`, `connections`, flow records |
| `ThreadOrigins` | the label computation | `portThreads` ↔ `port_threads`, `computed` ↔ `_origins_computed`, `queue`/`seen` ↔ locals of `_propagate_origin`, `asking`/`answer` ↔ a running query |
| `ThreadOriginsProofs` | proofs about it | |
| `LockGraph` | `walk_chains` driven by `build_lock_graph` | `labels` ↔ `port_threads`, finished; `frames` ↔ recursion of `_descend`, `visited`, `budget`; `lockEdges`, `selfLocks` ↔ `lock_edges`, self-deadlock findings |
| `LockOrder` | edges and classification of a cycle | |
| `LockCycles` | `detect_cycles` | `index`, `lowlink`, `stack`, `work` ↔ the locals of the component search; `path`, `choices`, `cycles` ↔ the recursion of `dfs` |
| `FprimeRuntime` | the deployment that runs (external) | call stacks of threads, the ports they block on |
| `LockCyclesProofs` | proofs about `LockCycles` | |
| `FprimeRuntimeProofs` | lemmas about topologies and closures, and what holds of every running deployment; the proofs of all three deployments use it | |
| `DeadlockAnalysis` | `LockGraph`, then `FprimeRuntime` on the same topology | |
| `DeadlockAnalysisProofs` | proofs about `LockGraph` and `DeadlockAnalysis` | |
| `TopologyChecks` | `run_checks` and its twelve checks | `next` ↔ the loop over `CHECKS`; `computed`, `labels` ↔ the graph's `_origins_computed`, `port_threads`; `findings`, `skipped` ↔ the results; `facts` ↔ flow facets and attributes of instances |
| `ChecksAtRuntime` | `TopologyChecks`, then `FprimeRuntime` on the same topology | |
| `ChecksAtRuntimeProofs` | proofs about both | |
| `RateGroups` | `infer_rate_groups`, from what the scan of the C++ finds | `groupHz` ↔ `rate_groups`; `work`, `seen`, `reached`, `offered` ↔ the locals of the propagation; `produced`, `consumed` ↔ `production_rate_hz`, `consumption_rate_hz` |
| `AsyncQueue` | the async queue analyzer, which begins with `RateGroups`: `analyze`, `filter_drop_ports`, `find_requeue_drops` | `cache` ↔ `thread_cache`, `visiting` ↔ `visiting`; `producers`, `received`, `entered` ↔ `_Queue`, `_PortQueue`; `drops` ↔ `drops` |
| `QueuesAtRuntime` | `AsyncQueue`, then `FprimeRuntime` on the same topology | |
| `QueuesAtRuntimeProofs` | proofs about `RateGroups`, `AsyncQueue` and `QueuesAtRuntime` | |
| `CppProgram` | the units of a program, what is scanned of a body, the merged methods, the closure of a handler | records ↔ `MethodInfo`; `Methods`, `ClassComponent` ↔ `methods`, `class_component` |
| `FlowResolution` | parsing by the pool, merging, `build_flow_map` and `_resolve` | `results` ↔ `unit_results`, `merged` ↔ position of the merge loop, `stack`/`seen`/`found` ↔ locals of `_resolve`, `flow` ↔ `components` |
| `ResolvedFlow` | what resolution promises: each handler in one step; `FlowResolution` implements it | |
| `CppExecution` | a C++ program that runs (external) | the object, the handler entered, the innermost body |
| `FlowAtRuntime` | `FlowResolution`, then `CppExecution` on the same program; the lookup of records | |
| `FlowResolutionProofs` | proofs about `FlowResolution` and `FlowAtRuntime` | |
| `SourceTree` | files, translation units, what a parse depends on | |
| `FlowCache` | `CallGraphExtractor.run` in several processes | `unitCache`, `flowCache` ↔ cache files; `results` ↔ `unit_results`; `staged` ↔ the temporary file |
| `ExtractedFlow` | what `run` promises; `FlowCache` implements it with the identity mapping | |
| `FlowCacheProofs` | proofs about `FlowCache` | |

Both refinements are `INSTANCE ... WITH` with the abstract `Spec` as a property
(`FlowCache!ReturnsFreshFlow`, `FlowResolution!ResolvesFlow`); in the second the handler whose walk is
under way is still to be done, so the step that stores its record is the abstract one and
all others stutter.

`DeadlockAnalysis`, `ChecksAtRuntime` and `QueuesAtRuntime` each extend an analysis and `FprimeRuntime`; analysis
and deployment share the variable `topo` of `TopologyGraph`, which no step changes. The deployment runs once
the analysis is done.

`MC*` modules give TLC its instances. A definition introduced by "Mutant" is a
plausible bug of the definition that follows it. None is used by the
specification: each stands for a change under which the property must fail.

Abstractions used everywhere: port names are unique model values; evidence (call
paths, witnesses, messages) is left out; work lists whose order the code fixes by
accident (dictionaries, sets) are sets, so TLC tries every order. In `SourceTree`
a file's content is a version number and (mtime, size) is taken to tell any two
versions apart. In `CppProgram` overloads share a key, as they do in the code.

## 3. Runs

| run | question | result |
|---|---|---|
| `ThreadOrigins` | Are answers exact and labels sound, under queries and origins in any order, permissive and strict? | holds |
| `ThreadOriginsAfterRaise` | Also after a query that raised? | **no** |
| `LockCycles` | Are components, cycles, quota and classification right on every small graph? | holds |
| `DeadlockAnalysis` | Does the walk record exactly the nestings and re-entries that exist, or refuse, or say it is truncated, and the latter only when a limit is too small? Does the analysis predict what the running deployment does? | holds; nestings, re-entries and circular waits without queued instances |
| `ChecksAtRuntime` | Do the checks, raising where they may, report the races, contention, stalls, recursion, depth and overflows the running deployment shows, and is what they report real? | holds, with the exceptions the properties state |
| `ChecksMissedRace` | Is every race reported? | **no** |
| `FlowCache` | Is a complete flow map returned always a fresh one, through two processes, deaths, failed writes, changing files? | holds |
| `FlowCacheReappearing` | Also a flow map that was incomplete when stored? | **no** |
| `QueuesAtRuntime` | Is the priority of a queue that of the thread seen draining it, are fill times honest, is every posting to a lower-priority queue and every requeue drop reported, does each output run at the rate inferred? | holds, but for guarded handlers |
| `QueuesMissedInversion` | Also for guarded handlers? | **no** |
| `FlowResolution` | Does resolution, units parsed in any order, give each handler the facts of all it calls, and does the record looked up cover what a handler of an object does? | holds, without pointers, overriding methods and overloads of several units |
| `FlowPointerMissed` | Is a handler with a call through a pointer opaque? | **no** |

Bounds, and why they suffice:

* `ThreadOrigins`: five input ports, three instances, 18 wirings with cycles, a port
  reached twice, undriven inputs, command ports with a parameter command, opaque
  handlers. The theorems lift the safety part to all topologies.
* `LockCycles`: every digraph on four nodes (components of every shape, a cycle of four);
  every graph on three with each edge driven by one of three
  threads, one of them next to an external caller. A quota of three is met on the dense graphs. `RecursionLimit`
  is the number of nodes, the depth a path can have: `dfs` never gets there, and a search
  that forgot what is on its path would.
* `DeadlockAnalysis`: five instances, in two families. Deployed: two or three threads take two or
  three mutexes in opposite orders, with an active or a queued third; stacks of four calls
  (`MaxStack`; the deepest circle needs three). Walked: nestings of three locks, re-entry,
  sync steps, cycles, unresolved handlers on and off a thread's path. Options: a budget and a
  depth no walk exhausts, and ones that many do, with two suppressions. In two wirings calls go around
  through sync ports alone: a walk without markers would use up any budget, so there `TruncatedOnlyWhenTooLarge` rests on them.
* `ChecksAtRuntime`: five instances, two threads of different priority and CPU that meet in
  two passive instances and in an active one; chains of up to five handlers (`MaxChain`;
  24 in the code) cut no cycle of these wirings, and stacks of four (`MaxStack`) reach
  `MinDepth`. One queue holds one message: a thread that posts to itself over two ways overflows it. Five topologies with unresolved handlers make the checks raise; what
  an exception leaves of the labels is then *any* part of the right ones, which the
  theorem `LabelsAreSound` justifies. Which of several recursions is met first depends
  on names; the model leaves it open.
* `QueuesAtRuntime`: seven instances: a timer and a driver that tick two active rate groups, a passive one with a guarded and a sync
  port, and two queued ones drained in a row, in a circle, twice or not at all. Stacks of five
  (`MaxStack`) let a thread drain one queued instance out of a message of the other; in four wirings a message of a queued
instance leads back to the port that drains it, so a thread is within two messages of one queue at once. A command port has two
  commands of which one drops. The scan finds the timer and which of two sets of divisors the
  driver uses, or one base rate and one set, or no certain base rate: one group has no rate, both have
  (6 Hz by 2 and 1), or none, so sums of both meet and fill and drain rates come out
  above, below, or not known. Eight
  topologies have an unresolved handler, on and off the ways the analysis asks for. `RecursionLimit` is the number
  of instances, as above. Connections are
  looked at in every order, which is more than the fixed order of the code.
* `FlowResolution`: six classes (a generated base and the framework's base it derives from, a direct or
  indirect implementation, a class derived from it, a helper class), three methods, three units in two orders: recursion, call-backs, a callee
  without a body, virtual and pointer calls, an overload in the same or in another
  unit, a handler in base, implementation and derived class. Execution follows one chain of calls;
  it needs no bound, because only the innermost body is kept.
* `FlowCache`: two units that share a header, one with a generated header, two databases;
  two changes of the tree (`MaxChanges`), two extractions (`MaxRuns`), one load failure
  (`MaxFailures`): store, change, read back, and a second writer in between.

Fairness: `WF(Compute)` and `WF(Next)`, in the runs that check a termination, say only that a synchronous call
goes on until it ends and that a pool of workers gets on;
where an analysis is followed by its deployment, `Next` is the analysis only.
Nothing is assumed of the environment. Each termination rests on one test in the code, and its mutant loses that
test: the mark of an expanded or seen handler (`QueryEnds`, `ResolutionEnds`), the nodes on the path (`SearchEnds`),
the instances being visited (`AnalysisEnds`). Python ends a runaway recursion with an exception; a model stops there
without an end. Deadlock is not checked
(`CHECK_DEADLOCK FALSE`) in runs whose program ends or whose deployment may
deadlock: that is what the properties are about. Termination is a property of its own there.

## 4. Proofs

All theorems are for every value of the constants that the named assumptions allow; a run
shows the same property on its instance. Liveness and what is listed at the end stay with TLC.

| module | theorems (each `Spec => []P` of the run's specification, unless said) |
|---|---|
| `ThreadOriginsProofs` | `TypeCorrect`, `FloodInvariantHolds`, `LabelsAreSound`, `AnswersAreExact`; `PermissiveAnswersExact`: without a strict topology *every* answer is exact |
| `DeadlockAnalysisProofs` | `GraphInvariantHolds`, `CompleteUnlessTruncatedHolds`, `StrictNeverGuessesHolds`, `TruncatedOnlyWhenTooLargeHolds`; of the deployment `OriginsCoverRuntimeHolds`, `NestingPredictedHolds`, `SelfDeadlockPredictedHolds`, `CircularWaitPredictedHolds` |
| `LockCyclesProofs` | `SearchInvariantHolds`, `ComponentsExactHolds`, `CyclesSoundHolds`, `CircularWaitsReportedHolds` |
| `ChecksAtRuntimeProofs` | `NothingSkippedNothingGuessedHolds`, `ContentionRealHolds`; of the deployment `RacesPredictedHolds`, `ContentionPredictedHolds`, `RecursionPredictedHolds`, `DepthPredictedHolds`, `OverflowPredictedHolds` |
| `QueuesAtRuntimeProofs` | `ThreadInfoExactHolds`, `FillTimesHonestHolds`; of the deployment `DrainPriorityRightHolds`, `InversionPredictedHolds`, `RequeuePredictedHolds`, `TicksPredictedHolds` |
| `FlowResolutionProofs` | `ResolutionInvariantHolds`; `ResolvesFlowHolds`: it implements `ResolvedFlow`; of the program that runs `ExecutionCoveredHolds` |
| `FlowCacheProofs` | `FlowCacheTypes`; under `QuietRuns` `CacheInvariantHolds`, `CompleteFlowExactHolds`, and `ReturnsFreshFlowHolds`: it implements `ExtractedFlow` |

Assumed are only the named `ASSUME`s, which TLC evaluates on every instance: names (instances, input and output ports, ...) are finite sets
(`NamesAssumption`, `CppProgramAssumption`, `LockCyclesAssumption`, `TopologyChecksAssumption`), topologies, programs
and databases have their types (`TopologiesAssumption`, `SourceTreeAssumption`), bounds are numbers and sentinels are
no values (`FprimeRuntimeAssumption`, `AsyncQueueAssumption` and the like). Three say more. `ChecksAtRuntimeAssumption`: stacks of threads are no deeper than the
chains the checks follow (24 in the code), beyond which a report is cut without a word.
`FlowAtRuntimeAssumption`: the first class name tried for a component is its own, as in `port_flow.py:51`.
`QuietRuns` in the theorems about the caches: files change only between extractions; §5 says why.

The arguments, and why the properties needed more than themselves:

* **Labels.** `AnswersExact` speaks of the end of a computation; it is not inductive.
  `FloodInvariant` says what holds in its middle: the handlers of the current seed are
  queued or expanded and reachable; an expanded handler has labelled its ports and
  queued its callees; every origin that is neither pending nor current has labelled
  all it reaches. The step that matters is `EndOrigin`: with the queue empty, `seen` is closed
  under calls and contains the seed's handlers, so it contains all that is reachable, reachability
  being the least closed set (no induction over paths). `LabelsSound` does not
  need the queries not to raise, so it holds for the leftovers of an exception too.
* **Lock graph.** Three invariants. `RealInv`: every frame on the stack stands on a chain of
  synchronous calls from the entry, with the locks that chain acquires, so what is recorded is real.
  `CompleteInv`: while the walk is neither truncated nor refused, each lock state visited rests on a resolved record,
  and each of its calls is ahead in a frame, or is recorded and what it enters visited or ahead; so
  a walk that ends is closed under calls, and every walk begun is finished or under way (`WalksKept`).
  `BudgetInv`: the budget that is gone is the number of a set of pairs of a walk that was begun and one of its lock states,
  those of the walk under way being marked (`Paid`); so what is new is no such pair yet, and a budget of nothing means as many
  pairs as the limit. The sum of the states of all walks counts the pairs (`SumOfPairs`).
* **Deadlocks.** The running deployment is related to the graph lock by lock: from the call that took a
  mutex, the calls above it on the thread's stack are a chain (`Chain`), whose part from a later
  guarded entry is a walk of its own; so a wait for a mutex is an edge labelled with the thread.
  In a circle every thread is blocked by the next, so the image of the blocking
  relation is the whole circle, and its mutexes lie on a cycle of edges that distinct threads drive.
* **Components.** The usual invariant of Tarjan's algorithm, for the iterative form: indexes number the nodes seen
  and grow along both stacks (`Numbered`), a node seen is on the stack or in a component (`Sorted`), finished nodes have explored all
  successors (`Explored`), components found are components and closed (`Closed`), a frame reaches what is above it and is
  reached by it (`Linked`), and lowlinks are values of nodes that are reached
  (`LowFound`) and as low as any explored (`LowLeast`).
* **Cycles.** `Passed` orders paths lexicographically: a path that comes before the current one
  has been tried and its cycle recorded unless the quota was met. The quota holds because at every
  node the way back to the start is tried before any longer path.
* **Running deployments** (`RtInv`): a mutex has one holder; a thread begins with a message of its own or a call from
  outside; every further call was made by the handler below it, for the same origin, under a kind its port has, or drains
  a queued instance; and its origin is one that reaches the port.
* **Checks.** Until a check is skipped, labels once computed are full, and each check *ran*: its
  findings are those the full labels give. A check that does not ask for labels reports the same whichever it
  finds. After an exception labels are still never invented (`Under`), which is all
  that `ContentionReal` needs. Depth and messages are defined over chains of calls: the calls on a thread's
  stack are one of those chains, and the messages waiting in a queue are mapped one to one into
  pairs of a counted chain and a connection, so there are at most as many as were counted (`PostedInv` says where
  each came from).
* **Drain threads.** `DrainEnd` follows the drains for as many steps as there are instances. The instances
  being visited are a chain of drains (`Recursing`); so an instance met again lies on a circle, whose end is no
  active instance, and what is cached is the priority at the end of the drains wherever the recursion
  entered (`CacheExact`). When the analysis is done every connection to a queue has its row and both its ends are
  cached (`RowsInv`); `InversionPredicted` puts that against the thread that runs.
* **Messages.** The calls of a thread above a message, as long as none of them is another message, entered
  handlers that the message leads to without a queue (`RunningReached`). That is where the search for
  requeue drops looks. A first attempt tied postings to messages by the origin of the calls; the
  proof did not go through where a message of a queued instance leads back to its own
  scheduling port, and on such a wiring (`MCReentered`) TLC refutes that form of `RequeuePredicted`. `Within` says what is meant: the
  innermost message, and the innermost tick.
* **Rates.** What the worklist of a root finds does run in a tick of it (`Ticked`), and what runs is found
  or ahead (`Followed`); with the worklist empty the handlers seen are closed under calls, so they are all
  (`TickHandlersFacts`), and an output was offered exactly the roots that reach it (`OfferedExactly`). A sum of
  numbers over a finite set counts pairs (`SumOfPairs`), which turns statements about sums into statements about sets:
  `FillTimesHonest` compares the sum over the commands kept, which may share producers, with the sum over those producers (`SumCovered`).
* **Resolution.** What was seen of a handler is reachable and closed under calls, but for what is on
  the stack; with the stack empty it is the closure. Units are merged in
  order, so the last definition wins whatever order the pool finished in. For the program that runs, every plain
  chain of calls stays among the last definitions of what the handler reaches (`ChainInv`), and each record in the
  map is that of some handler filed under its label (`RecordsInv`).
* **Caches.** What a cache file holds is right *for every state of the files its stamps match*
  (`UnitRight`, `FlowRight`), a statement in which the present files do not occur, so no change
  can break it. It is established when a result is staged: a parse is determined by the arguments and the files it
  read, and of the files it did not find only generated headers matter, whose presence is tested.
  Both refinements use it step by step.

Only model-checked:

* liveness (`QueryEnds`, `SearchEnds`, `ResolutionEnds`, `AnalysisEnds`): the prover has no
  rule for fairness and `ENABLED`;
* the runs that expect a violation, which show that a property fails.

`GraphInvariant`, `SearchInvariant`, `ResolutionInvariant` and `CacheInvariant` are each a type invariant with the
conjunct that says what holds in the middle of a computation.

## 5. Where code and documentation part

1. **Labels after an exception** (`topology_graph.py:880`). The flag is set before the
   labels are computed. A strict flow map raises `UnresolvedFlowError` out of the first
   query; `run_checks` swallows it (`checks.py:1044`), and all later checks read the
   half-finished labels, or `<unknown>`, as final.
2. **Incomplete flow maps** (`component_call_graph.py:513`). A flow map cached while a
   file was missing is returned after it appears; the unit cache handles that case, the flow cache does not.
3. **Races under different locks** (`checks.py:451`). A member whose accesses are guarded
   *or* under some lock counts as synchronized, although a guarded handler and one
   under a lock of the class share no mutex.
4. **Calls through pointers** (`component_call_graph.py:952`). The repository's README says (`README.md:240`) that a
   handler with a call through a function pointer or a delegate is opaque. Such a call has a
   declaration, the variable; it is passed over, and the record is precise without what the pointer reaches. So are calls of free functions
   and destructors (`:952`), of which the README says nothing; in the models they are calls through "pointer", which
   `ExecutionCovered` exempts.
5. **Guarded emitters** (`async_queue_analyzer.py:138`). The repository's README says that a guarded handler is treated
   like a synchronous one, because it runs on its caller's thread; the markers that make a row a warning name
   sync handlers only. A passive instance that emits from guarded handlers alone is green.
   (With an async one beside them it is a warning: "async input handler" contains
   "sync input handler".)

Assumptions of the properties mark places where the analyses are weaker than
one may think; without the assumption the property fails.

* *Queued instances* (`topology_graph.py:812`). Their handlers get the label of
  a thread that does not exist, and the thread that drains them is missing; hence `NoQueued`. What the labels do
  guarantee is `OriginsCoverRuntime`: they name the instance whose message is served.
* *Edits during extraction* (`component_call_graph.py:485`). Stamps are taken when a result is
  stored, so an edit since the parse is never noticed; hence `QuietRuns = TRUE` (with FALSE, `UnitCacheExact` fails).
* *Several scheduling connections* (`async_queue_analyzer.py:560`). Only the first by name
  counts; hence the `Cardinality` in `DrainPriorityRight`.
* *Recursions in one module* (`checks.py:272`). Cycles are told apart by what stands before
  the first dot of the names along the path: the module, not the instance. Of all recursions among
  the instances of one module only the first is reported; hence `ModulesOf` in `RecursionPredicted`.
* *Bodies in several units* (`component_call_graph.py:328`). Each unit's record of a method replaces the
  one before, and overloads share a record: those of an earlier unit are lost. *Overriding methods*
  (`component_call_graph.py:1042`): a virtual call is taken for a call of the method it names. *Indirect bases*
  (`component_call_graph.py:811`): a class whose base is not generated itself is filed under its own
  name, though the comment at 1068 calls inheritance authoritative; the lookup finds it only when that name is
  one that is tried. Hence `through`, `Direct` and `OnlyByName` in `ExecutionCovered`.

Short of a disagreement, leniencies a reader should know.

* A cycle of three locks is an error as soon as two distinct threads drive two of its edges
  (`guarded_port_analyzer.py:408`), although it takes three to close it. The quota cuts the search in
  depth-first order and cycles are sorted by length only then (`:351`): short ones may be cut.
* The other threads that may stall a rate group are those that reach the member's own port
  (`checks.py:701`), not those that take the same mutex through another; hence the
  condition `Stalled` in `ContentionPredicted`.
* A handler that writes a member from two threads is INFO when it is the only writer (`checks.py:479`).
  Recursions longer than 24 hops (`checks.py:290`) and messages beyond 13 (`checks.py:882`) are cut without a word.
* An async member of a rate group is propagated like a sync one (`rate_groups.py:207`), although an async input
  reached later is not because its rate depends on the service of its queue (`:230`). A rate counts as known when some
  tick reaches the output, though other threads may invoke it too: `TicksPredicted` says "or more".

## 6. Not modelled

* The walk of the C++ syntax trees, libclang's, and how an invoked port, an accessed field or a lock is
  recognized in them: `CppProgram` begins with what a scan says of a body. Locks, null tests and
  messages of the flow facets are taken as facts by `TopologyChecks`. That the scan reads them right
  is a matter of example code, which the repository's tests have.
* The regular expressions that find base rates and divisors in the deployment's C++ (`rate_groups.py:107-146`):
  what they find is given as `facts.rates`.
* The tables and the diagram of the queue report and its options that hide rows; the limits of
  the walk beneath the requeue drops, which `find_requeue_drops` takes from the defaults.
* Model loading, topology selection, command lines, discovery, preparation and reports: one pass over
  files, subprocesses and text, with no state that a second step could meet. The parity check compares two outputs.
* Call paths kept as evidence, and wording.

## 7. Plan

Every analysis is modelled, and every safety property that a passing run checks is a theorem. What remains:

1. Termination (`QueryEnds`, `SearchEnds`, `ResolutionEnds`, `AnalysisEnds`) is checked on the
   instances only. What a proof could add is a bound on the steps, a safety property from which termination follows by
   fairness, as `TruncatedOnlyWhenTooLarge` bounds those of the chain walk by the lock states there are.
2. The scan of the C++ (§6) begins the flow: a model of what it recognizes would say which bodies `CppProgram`
   must be given.
