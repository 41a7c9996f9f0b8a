-------------------------- MODULE ChecksAtRuntime ---------------------------
(***************************************************************************)
(* The check suite and the deployment it speaks about: the checks run      *)
(* (TopologyChecks), then the topology does (FprimeRuntime).  What two     *)
(* threads do to each other there is held against the findings.            *)
(***************************************************************************)
EXTENDS TopologyChecks, FprimeRuntime

ASSUME ChecksAtRuntimeAssumption == MaxStack <= MaxChain

VARIABLE
  posted   \* history: the messages each thread has put on its own queue since
           \* it took the last one, with the handlers then in progress

\* Every check ran to its end, and every instance with a queue has a thread.
Trusted == /\ Finished /\ selected = {} /\ skipped = {}
           /\ NoQueued

\* A running handler queues a message for its own thread, once on each connection.
PostToItself(th) ==
  /\ Depth(th) > 0 /\ wants[th] = {}
  /\ \E w \in Posts(Running(th).handler) :
       /\ topo.owner[w[2]] = th[2]
       /\ posted' = [posted EXCEPT
            ![th] = @ \cup {<<[k \in DOMAIN stack[th] |-> stack[th][k].handler], w>>}]
  /\ UNCHANGED <<stack, wants>>

RunStep ==
  /\ RtNext
  /\ posted' = [th \in DOMAIN posted |-> IF stack'[th] = <<>> THEN {} ELSE posted[th]]

CheckThenRun ==
  \/ Next /\ UNCHANGED <<stack, wants, posted>>
  \/ Trusted /\ (RunStep \/ \E th \in ActiveThreads : PostToItself(th)) /\ UNCHANGED vars

DeploymentInit == Init /\ RtInit /\ posted = [th \in Origin |-> {}]

DeploymentSpec == DeploymentInit /\ [][CheckThenRun]_<<vars, stack, wants, posted>>

-----------------------------------------------------------------------------
Touches(h) == facts.reads[h] \cup facts.writes[h]

\* Two threads run handlers of one instance that touch the same member, one of
\* them writing, and no lock of the class keeps them apart.
Racing(th, u, m) ==
  /\ th # u /\ Depth(th) > 0 /\ Depth(u) > 0
  /\ wants[th] = {} /\ wants[u] = {}
  /\ LET a == Running(th) b == Running(u)
     IN  /\ topo.owner[a.port] = topo.owner[b.port]
         /\ m \in Touches(a.handler) \cap Touches(b.handler)
         /\ m \in facts.writes[a.handler] \cup facts.writes[b.handler]
         /\ facts.locks[a.handler] \cap facts.locks[b.handler] = {}

RaceReported(th, m) ==
  \E severity \in {"warning", "info"} :
    <<topo.owner[Running(th).port], m, severity>> \in findings["data-race"]

\* Some accesses to a member rely on the mutex of guarded ports or on a lock of
\* the class, each on its own.
SynchronizedApart(i, m) ==
  \A e \in Entries : topo.owner[e.port] = i /\ m \in Touches(e.handler) =>
    e.kind = "guarded" \/ facts.locks[e.handler] # {}

\* Two threads that meet in the data of an instance were reported, at least when
\* some access is under no synchronization; and as a warning when two handlers
\* write with none.
RacesPredicted ==
  Trusted => \A th, u \in Threads, m \in Member : Racing(th, u, m) =>
    LET a == Running(th) b == Running(u) i == topo.owner[a.port]
    IN  /\ ~SynchronizedApart(i, m) => RaceReported(th, m)
        /\ m \in facts.writes[a.handler] \cap facts.writes[b.handler]
             /\ a.handler # b.handler /\ a.locks \cup b.locks = {}
             /\ facts.locks[a.handler] \cup facts.locks[b.handler] = {}
             => <<i, m, "warning">> \in findings["data-race"]

\* The same with no exception: _is_synchronized tells "Whether something already
\* serializes every access to this member" (checks.py:440).
EveryRaceReported ==
  Trusted => \A th, u \in Threads, m \in Member : Racing(th, u, m) => RaceReported(th, m)

\* The thread of a rate group waits for a member whose mutex another thread took
\* through the same port; the check asks for no other.
Stalled(th, p, u) ==
  /\ th[1] = "thread" /\ RateGroup(th[2]) /\ Depth(th) = 1
  /\ p \in wants[th] /\ p \in Members(th[2])
  /\ u # th /\ \E k \in 1..Depth(u) : stack[u][k].port = p /\ stack[u][k].locks # {}

\* A thread that blocks on a mutex another thread holds, at another priority or
\* pinned to another CPU, was reported, with a window at least as wide; and so was
\* a member on which a rate group's cycle stalls.
ContentionPredicted ==
  /\ Trusted => \A th \in ActiveThreads : \A u \in (Blockers(th) \cap ActiveThreads) \ {th} :
       LET i == CHOOSE x \in Wanted(th) : TRUE
           differ(attribute) == {attribute[th[2]], attribute[u[2]]} \subseteq Nat
                                  /\ attribute[th[2]] # attribute[u[2]]
       IN  /\ differ(facts.priority) =>
                \E w \in findings["priority-inversion-window"] :
                  /\ w[1] = i
                  /\ facts.priority[th[2]] - facts.priority[u[2]] \in (-w[2])..w[2]
           /\ differ(facts.cpu) => i \in findings["cpu-affinity"]
  /\ Trusted => \A th, u \in Threads : \A p \in wants[th] :
       Stalled(th, p, u) => <<th[2], p>> \in findings["rate-group"]

\* The handlers from call j to call k of a thread close a cycle of purely sync
\* calls.
Recurses(th, j, k) ==
  LET call(n) == stack[th][n]
  IN  /\ j < k /\ call(j).handler = call(k).handler
      /\ \A n \in (j + 1)..k : PurelySync(call(n).port)
      /\ \A n, o \in j..(k - 1) : n # o => call(n).handler # call(o).handler
Around(th, j, k) == {topo.owner[stack[th][n].port] : n \in j..k}

\* A thread recurses only if a cycle through the same modules was reported.
RecursionPredicted ==
  Trusted => \A th \in Threads : \A j, k \in 1..Depth(th) :
    Recurses(th, j, k) =>
      \E c \in findings["sync-cycle"] : ModulesOf(c) = ModulesOf(Around(th, j, k))

\* A thread without recursion is never deeper in calls than reported.
DepthPredicted ==
  Trusted => \A i \in Instance :
    LET th == <<"thread", i>>
    IN  /\ th \in ActiveThreads /\ Depth(th) >= MinDepth
        /\ \A j, k \in 1..Depth(th) : j # k => stack[th][j].handler # stack[th][k].handler
        => \E d \in findings["stack-depth"] : d[1] = i /\ d[2] >= Depth(th)

\* A message after which a thread has more on its own queue than that holds, at one
\* message per connection and chain of calls, was reported, as an error when no port
\* array leads to the queue.
OverflowPredicted ==
  Trusted => \A th \in ActiveThreads :
    LET i == th[2]
        plain == {m \in posted[th] : Simple(m[1])}
        arrays == {o \in facts.wide : \E p \in topo.wires[o] : topo.owner[p] = i}
    IN  facts.size[i] # None /\ Cardinality(plain) > facts.size[i] =>
          \E f \in findings["queue-overflow"] :
            /\ f[2] = i /\ f[3] = stack[th][1].port /\ f[4] = stack[th][1].handler
            /\ arrays = {} => f[1] = "error"
=============================================================================
