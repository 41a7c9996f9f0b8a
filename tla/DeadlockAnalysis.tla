-------------------------- MODULE DeadlockAnalysis --------------------------
(***************************************************************************)
(* The guarded-port analyzer and the deployment it speaks about: the       *)
(* lock-order graph of a topology is built (LockGraph), then the same      *)
(* topology runs (FprimeRuntime).  What the threads do is held against     *)
(* what the analyzer recorded.                                             *)
(***************************************************************************)
EXTENDS LockGraph, LockOrder, FprimeRuntime

\* The analyzer gave a report that does not say it is truncated.
Trusted == Built /\ ~refused /\ ~truncated

AnalyzeThenRun ==
  \/ Next /\ UNCHANGED <<stack, wants>>
  \/ Trusted /\ RtNext /\ UNCHANGED vars

DeploymentInit == Init /\ RtInit

DeploymentSpec ==
  DeploymentInit /\ [][AnalyzeThenRun]_<<vars, stack, wants>>

-----------------------------------------------------------------------------

\* Whatever thread runs a handler, or blocks on a guarded port: the origin of the
\* message or outside call it serves is among the labels of that port ("Thread
\* origins that can invoke one input port", topology_graph.py:884).  Without queued
\* instances that is the thread itself; a thread that drains a queued instance is
\* not among the labels of what it runs there.
OriginsCoverRuntime ==
  Trusted =>
    \A th \in Threads :
      /\ \A k \in 1..Len(stack[th]) : stack[th][k].origin \in labels[stack[th][k].port]
      /\ \A p \in wants[th] : Serving(th) \in labels[p]

\* No mutex is asked for while another is held unless the lock-order graph has
\* that edge with that thread on it.
NestingPredicted ==
  Trusted /\ NoQueued => \A th \in Threads : \A a \in Held(th), b \in Wanted(th) :
    a # b => th \in lockEdges[<<a, b>>] \/ <<a, b>> \in options.suppressions

\* A thread that asks for a mutex it holds was reported as a self-deadlock.
SelfDeadlockPredicted ==
  Trusted /\ NoQueued => \A th \in Threads : \A i \in Held(th) \cap Wanted(th) :
    th \in selfLocks[i] \/ <<i, i>> \in options.suppressions

\* Active threads that block each other in a circle do so along a lock-order
\* cycle that is classified as an ABBA error.
CircularWaitPredicted ==
  Trusted /\ NoQueued => \A C \in SUBSET ActiveThreads :
    Cardinality(C) > 1 /\ CircularWait(C) =>
      LET edges == WaitEdges(C)
      IN  \/ edges \cap options.suppressions # {}
          \/ /\ \A e \in edges : lockEdges[e] # {}
             /\ DistinctPossible(lockEdges, edges, {"thread"} \X Instance)
=============================================================================
