---------------------------- MODULE MCLockCycles ----------------------------
(***************************************************************************)
(* Every lock-order graph on four instances with one thread (for the graph *)
(* algorithms), and every graph on three of them with each edge driven by  *)
(* one of three threads, the second with an external caller beside it (for *)
(* the classification).                                                    *)
(***************************************************************************)
EXTENDS LockCycles, TLC

CONSTANTS t1, t2, t3, x

MCThreads == {t1, t2, t3}
MCOther == {x}

MCGraphs == [Edge -> {{}, {t1}}]
MCDriven ==
  { [e \in Edge |-> IF 4 \in {e[1], e[2]} THEN {} ELSE driven[e]] :
      driven \in [{e \in Edge : 4 \notin {e[1], e[2]}} -> {{}, {t1}, {t2, x}, {t3}}] }
MCOrders == MCGraphs \cup MCDriven
=============================================================================
