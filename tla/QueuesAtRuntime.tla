-------------------------- MODULE QueuesAtRuntime ---------------------------
(***************************************************************************)
(* The async queue analyzer and the deployment it speaks about: the        *)
(* analysis returns (AsyncQueue), then the topology runs (FprimeRuntime),  *)
(* and the priorities of the threads that drain and feed queues are held   *)
(* against the rows.                                                       *)
(***************************************************************************)
EXTENDS AsyncQueue, FprimeRuntime

AnalyzeThenRun ==
  \/ Next /\ UNCHANGED <<stack, wants>>
  \/ status = "done" /\ RtNext /\ UNCHANGED vars

DeploymentInit == Init /\ RtInit

DeploymentSpec == DeploymentInit /\ [][AnalyzeThenRun]_<<vars, stack, wants>> /\ WF_vars(Next)

-----------------------------------------------------------------------------
\* Call k of a thread is a message off a queue: an active instance's first call,
\* or one that a queued instance drains.
Message(th, k) ==
  /\ stack[th][k].origin = <<"thread", topo.owner[stack[th][k].port]>>
  /\ "async" \in InputSyncKinds(topo, stack[th][k].port)
  /\ stack[th][k].handler \in FlowEntries(topo, stack[th][k].port, "async")

\* A thread that drains a queued instance, called on its only scheduling
\* connection out of a message of the instance before, has the priority the rows
\* name: that of an active instance, or what they say of the queued one before.
DrainPriorityRight ==
  status = "done" => \A th \in ActiveThreads : \A k \in 3..Depth(th) :
    LET i == topo.owner[stack[th][k].port]
        s == topo.owner[stack[th][k - 2].port]
    IN  /\ topo.component[i] = "queued" /\ Message(th, k) /\ Message(th, k - 2)
        /\ Cardinality(DrainOutputs(i)) = 1 /\ stack[th][k - 1].port \in facts.rates.drains
        /\ cache[i] # None
        => IF topo.component[s] = "active"
           THEN cache[i].priority = facts.priority[th[2]]
           ELSE cache[i].priority = cache[s].priority

\* The running handler of a thread may put a message on a queue.
Posts(th, o, p) ==
  /\ Depth(th) > 0 /\ wants[th] = {}
  /\ o \in OutputsFor(topo, Running(th).handler)
  /\ <<o, p>> \in QueueConnections(topo)

\* A thread feeds a queue that a thread of lower priority drains.  A queued
\* instance counts when the thread that drains it is the one the rows name.
Inversion(th, o, p) ==
  LET feeds == facts.priority[th[2]] sink == cache[topo.owner[p]].priority
      source == cache[topo.owner[o]]
  IN  /\ Posts(th, o, p)
      /\ feeds # None /\ sink # None /\ feeds > sink
      /\ source.kind = "queued" => source.priority = feeds

Warned(o, p) ==
  \E r \in producers : /\ r.source = o /\ r.dest = p
                       /\ Severity(r, cache[topo.owner[p]].priority) >= 2

\* No row of such a connection is green or blank, unless only guarded handlers
\* emit there.
InversionPredicted ==
  status = "done" => \A th \in ActiveThreads : \A o \in OutPort : \A p \in topo.wires[o] :
    Inversion(th, o, p) /\ Emitters(o) # {"guarded"} => Warned(o, p)

\* The same for those: "A guarded handler is treated like a synchronous handler
\* for priority purposes because it runs on the caller's thread" (README.md:172).
EveryInversionReported ==
  status = "done" => \A th \in ActiveThreads : \A o \in OutPort : \A p \in topo.wires[o] :
    Inversion(th, o, p) => Warned(o, p)

\* The calls a thread makes above call k are part of it: none of them is another
\* message, of the same queue or of one drained meanwhile.
Within(th, k) == \A j \in (k + 1)..Depth(th) : ~Message(th, j)

\* A message at one port that makes its thread post to a port of lower priority
\* on the queue it came from was found.
RequeuePredicted ==
  status = "done" => \A th \in ActiveThreads : \A o \in OutPort : \A q \in topo.wires[o] :
    \A k \in 1..Depth(th) :
      LET p == stack[th][k].port
      IN  /\ Posts(th, o, q) /\ Message(th, k) /\ Within(th, k)
          /\ topo.owner[p] = topo.owner[q] /\ PortPriority(q) < PortPriority(p)
          => <<p, q>> \in drops

\* A tick of a rate group: its handler at k invoked the member connection root, and
\* everything above k runs in that call.
InTick(th, k, root) ==
  /\ root \in facts.rates.member /\ groupHz[topo.owner[root]] # None
  /\ root \in OutputsFor(topo, stack[th][k].handler)
  /\ stack[th][k + 1].port \in topo.wires[root]
  /\ Within(th, k)

\* What a handler invokes during a tick is offered at the rate of the group, or
\* more often when other members lead there too.
TicksPredicted ==
  status = "done" => \A th \in ActiveThreads : \A k \in 1..(Depth(th) - 1) :
    \A root \in OutPort : InTick(th, k, root) =>
      \A o \in OutputsFor(topo, Running(th).handler) \ (facts.rates.member \cup GroupTicks) :
        produced[o] # None /\ produced[o] >= RootHz(root)
=============================================================================
