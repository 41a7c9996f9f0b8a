----------------------------- MODULE LockOrder -----------------------------
(***************************************************************************)
(* Cycles of a lock-order graph and their classification                   *)
(* (guarded_port_analyzer.py, _cycle_edges and _classify_cycle).  A cycle  *)
(* is a sequence of instances; threads maps an edge to the origins that    *)
(* drive it.                                                               *)
(***************************************************************************)
EXTENDS Naturals, Sequences

CycleEdges(c) ==
  {<<c[k], IF k = Len(c) THEN c[1] ELSE c[k + 1]>> : k \in 1..Len(c)}

\* Mutant: the thread sets of the edges are compared, not their members.
DistinctSets(threads, edges, real) ==
  \E e, f \in edges :
    /\ e # f /\ threads[e] \cap real # {} /\ threads[f] \cap real # {}
    /\ threads[e] \cap real # threads[f] \cap real

\* Two edges that two distinct real threads can drive: an ABBA error.  A cycle
\* without them is latent and not reported.
DistinctPossible(threads, edges, real) ==
  \E e, f \in edges :
    /\ e # f
    /\ \E s \in threads[e] \cap real, u \in threads[f] \cap real : s # u
=============================================================================
