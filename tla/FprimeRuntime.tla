--------------------------- MODULE FprimeRuntime ---------------------------
(***************************************************************************)
(* What a deployment does at run time, as the analyses describe it         *)
(* (guarded_port_analyzer.py:8-16, topology_graph.py:800-804,              *)
(* async_queue_analyzer.py:574-580): an active instance dispatches one     *)
(* message at a time on its own thread, code outside the topology calls    *)
(* the undriven inputs, a sync call runs on its caller's thread, a guarded *)
(* call holds the instance's mutex, which is not recursive, until its      *)
(* handler returns, and a queued instance is drained by whoever calls its  *)
(* scheduling port.                                                        *)
(***************************************************************************)
EXTENDS TopologyGraph, Sequences

CONSTANT MaxStack   \* bound on the calls in progress on one thread

ASSUME FprimeRuntimeAssumption == MaxStack \in Nat

VARIABLES
  stack,   \* per thread, the calls in progress (see Call)
  wants    \* per thread, the guarded port it is blocked on or about to enter

rtVars == <<stack, wants>>

\* A call in progress: its port, its handler, the mutex it holds, and whose
\* message or call from outside it serves.
Call(p, h, locks, origin) ==
  [port |-> p, handler |-> h, locks |-> locks, origin |-> origin]

ActiveThreads == {<<"thread", i>> : i \in {x \in Instance : topo.component[x] = "active"}}
OutsideThreads ==
  {<<"external", p>> : p \in {x \in InPort \ ConnectedInputs(topo) :
                                InputSyncKinds(topo, x) # {"async"}}}
Threads == ActiveThreads \cup OutsideThreads

\* Every instance with a queue has a thread of its own.
NoQueued == \A i \in Instance : topo.component[i] # "queued"

Held(th) == UNION {stack[th][k].locks : k \in 1..Len(stack[th])}
Depth(th) == Len(stack[th])
Running(th) == stack[th][Depth(th)]
Serving(th) == IF Depth(th) = 0 THEN th ELSE Running(th).origin
Ready(th) == wants[th] = {} /\ Depth(th) < MaxStack

RtInit ==
  /\ stack = [th \in Origin |-> <<>>]
  /\ wants = [th \in Origin |-> {}]

Push(th, call) == stack' = [stack EXCEPT ![th] = Append(@, call)]

\* An active instance takes a message off its queue.
Dispatch(i, p) ==
  LET th == <<"thread", i>>
  IN  /\ topo.component[i] = "active" /\ Ready(th) /\ Depth(th) = 0
      /\ topo.owner[p] = i /\ "async" \in InputSyncKinds(topo, p)
      /\ \E h \in FlowEntries(topo, p, "async") : Push(th, Call(p, h, {}, th))
      /\ UNCHANGED wants

\* A thread calls a port under a kind: a sync handler runs at once, a guarded
\* one asks for the mutex first.
CallPort(th, p, kind) ==
  IF kind = "guarded"
  THEN /\ wants' = [wants EXCEPT ![th] = {p}]
       /\ UNCHANGED stack
  ELSE /\ \E h \in FlowEntries(topo, p, kind) : Push(th, Call(p, h, {}, Serving(th)))
       /\ UNCHANGED wants

CallFromOutside(p, kind) ==
  LET th == <<"external", p>>
  IN  /\ th \in OutsideThreads /\ Ready(th) /\ Depth(th) = 0
      /\ kind \in InputSyncKinds(topo, p) \ {"async"}
      /\ CallPort(th, p, kind)

CallFromHandler(th) ==
  /\ Ready(th) /\ Depth(th) > 0
  /\ \E hop \in ThreadHops(topo, Running(th).handler) : CallPort(th, hop.port, hop.kind)

\* A handler of a queued instance drains its queue on the caller's thread.
Drain(th, p) ==
  /\ Ready(th) /\ Depth(th) > 0
  /\ topo.owner[p] = topo.owner[Running(th).port]
  /\ topo.component[topo.owner[p]] = "queued"
  /\ "async" \notin InputSyncKinds(topo, Running(th).port)
  /\ "async" \in InputSyncKinds(topo, p)
  /\ \E h \in FlowEntries(topo, p, "async") :
       Push(th, Call(p, h, {}, <<"thread", topo.owner[p]>>))
  /\ UNCHANGED wants

\* The mutex is free: the guarded handler runs.
Acquire(th) ==
  \E p \in wants[th] :
    LET i == topo.owner[p]
    IN  /\ \A u \in Threads : i \notin Held(u)
        /\ \E h \in FlowEntries(topo, p, "guarded") : Push(th, Call(p, h, {i}, Serving(th)))
        /\ wants' = [wants EXCEPT ![th] = {}]

Leave(th) ==
  /\ wants[th] = {} /\ Depth(th) > 0
  /\ stack' = [stack EXCEPT ![th] = SubSeq(@, 1, Depth(th) - 1)]
  /\ UNCHANGED wants

RtNext ==
  \/ \E i \in Instance, p \in InPort : Dispatch(i, p)
  \/ \E p \in InPort, kind \in SyncKind : CallFromOutside(p, kind)
  \/ \E th \in Threads : CallFromHandler(th) \/ Acquire(th) \/ Leave(th)
  \/ \E th \in Threads, p \in InPort : Drain(th, p)

-----------------------------------------------------------------------------
Wanted(th) == {topo.owner[p] : p \in wants[th]}

\* The thread that holds the mutex a thread asks for.
Blockers(th) == {u \in Threads : Wanted(th) \cap Held(u) # {}}

\* A circle of threads, each blocked by the next one.
CircularWait(C) ==
  /\ C # {}
  /\ \A th \in C : Blockers(th) # {} /\ Blockers(th) \subseteq C
  /\ \A D \in (SUBSET C) \ {{}, C} : \E th \in D : Blockers(th) \cap D = {}

\* The mutexes of the circle, as lock-order edges: what a thread holds that the
\* one before it asks for, and what it asks for itself.
WaitEdges(C) ==
  UNION {{<<a, b>> : a \in Held(th) \cap UNION {Wanted(u) : u \in C}, b \in Wanted(th)} : th \in C}
=============================================================================
