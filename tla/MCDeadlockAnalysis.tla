------------------------- MODULE MCDeadlockAnalysis -------------------------
(***************************************************************************)
(* Two active drivers d and e, passive a and b with guarded ports (b also  *)
(* a sync one), and c with a sync scheduling port and a command port that  *)
(* runs one command guarded and one async.  Two families of wirings:       *)
(* Deployed - c is active, or queued and drained by whoever calls its      *)
(* scheduling port; two or three threads nest two or three mutexes in      *)
(* equal or opposite orders, re-enter a mutex, and leave inputs undriven.  *)
(* Walked - one driver; calls pass through a sync port and close cycles,   *)
(* one through sync ports alone, messages end chains, and the guarded      *)
(* command of c or the sync port of b may be unresolved, under a strict    *)
(* and under a permissive flow map.                                        *)
(***************************************************************************)
EXTENDS DeadlockAnalysis, TLC

MCInstance == {"a", "b", "c", "d", "e"}
MCInPort == {"d.run", "e.run", "a.g", "b.g", "b.s", "c.sched", "c.cmd"}
MCOutPort == {"d.out", "e.out", "a.out", "b.out", "c.out", "c.msg"}
MCCommand == {"c.G", "c.A"}

MCOwner ==
  [x \in {"d.run", "d.out"} |-> "d"] @@
  [x \in {"e.run", "e.out"} |-> "e"] @@
  [x \in {"a.g", "a.out"} |-> "a"] @@
  [x \in {"b.g", "b.s", "b.out"} |-> "b"] @@
  [x \in {"c.sched", "c.cmd", "c.G", "c.A", "c.out", "c.msg"} |-> "c"]

MCCalls(relay) ==
  [h \in MCInPort \cup MCCommand |->
     CASE h = "d.run" -> {"d.out"}
       [] h = "e.run" -> {"e.out"}
       [] h = "a.g" -> {"a.out"}
       [] h \in {"b.g", "b.s"} -> {"b.out"}
       [] h = "c.G" -> {"c.out"}
       [] h \in {"c.sched", "c.A"} -> {relay}
       [] OTHER -> {}]

MCTopology(kindOfC, relay, w, opaques, strict) ==
  [ component |-> [i \in MCInstance |->
                     CASE i = "c" -> kindOfC [] i \in {"d", "e"} -> "active"
                       [] OTHER -> "passive"],
    owner |-> MCOwner,
    portKind |-> [p \in MCInPort |-> CASE p \in {"d.run", "e.run"} -> "async"
                                       [] p \in {"a.g", "b.g"} -> "guarded"
                                       [] OTHER -> "sync"],
    cmdPort |-> {"c.cmd"},
    commandKind |-> [c \in MCCommand |-> IF c = "c.G" THEN "guarded" ELSE "async"],
    params |-> {}, calls |-> MCCalls(relay), opaque |-> opaques, strict |-> strict, wires |-> w ]

MCDeployedWires(d, e, a, b, c) ==
  [o \in MCOutPort |-> CASE o = "d.out" -> d [] o = "e.out" -> e [] o = "a.out" -> a
                         [] o = "b.out" -> b [] o = "c.out" -> c [] OTHER -> {}]

MCActive ==
  { MCTopology("active", "c.out", MCDeployedWires(d, e, {"b.g"}, bc[1], bc[2]), {}, TRUE) :
      d \in {{"a.g"}, {"c.cmd"}}, e \in {{"b.g"}, {"c.cmd"}},
      bc \in {<<{"a.g"}, {}>>, <<{"c.cmd"}, {"a.g"}>>, <<{"c.cmd"}, {"b.g"}>>} }
MCQueued ==
  { MCTopology("queued", "c.out", MCDeployedWires(d, e, a, {"c.cmd"}, c), {}, TRUE) :
      d \in {{"a.g"}, {"c.sched"}}, e \in {{"b.g"}, {"c.cmd"}},
      a \in {{"b.g"}, {"c.sched"}}, c \in {{}, {"a.g"}} }

MCWalkedWires(drive, chain, last) ==
  { [o \in MCOutPort |-> CASE o = "d.out" -> d [] o = "a.out" -> a [] o = "b.out" -> b
                          [] o = "c.out" -> c[1] [] o = "c.msg" -> c[2] [] OTHER -> {}] :
      d \in drive, a \in chain, b \in {{"a.g"}, {"c.cmd"}},
      c \in last }

MCPrecise ==
  { MCTopology("active", "c.msg", w, {}, TRUE) :
      w \in MCWalkedWires({{"a.g"}, {"b.s"}}, {{"b.g"}, {"b.s"}, {"b.g", "c.cmd"}},
                            {<<{}, {"a.g"}>>, <<{"a.g"}, {}>>, <<{"b.s"}, {}>>}) }
\* Under the mutexes of a and b calls go around between b and c, taking no other.
MCRecursive ==
  { MCTopology("active", "c.out", w, {}, TRUE) :
      w \in {MCDeployedWires({"a.g"}, {}, a, {"c.sched"}, {"b.s"}) : a \in {{"b.g"}, {"b.s"}}} }
\* Unresolved handlers reached from a thread, from guarded entries that no origin
\* reaches (d drives nothing and a, b and c only drive each other), or not at all.
MCOpaque ==
  { MCTopology("active", "c.msg", w, o, strict) :
      w \in MCWalkedWires({{}, {"a.g"}}, {{"b.s"}, {"b.g", "c.cmd"}},
                            {<<{}, {}>>, <<{"b.s"}, {}>>}),
      o \in {{"c.G"}, {"b.s"}}, strict \in BOOLEAN }

MCTopologies == MCActive \cup MCQueued \cup MCPrecise \cup MCRecursive \cup MCOpaque

\* A budget and a depth that no walk exhausts; and ones that many do.
MCOptions ==
  { [maxStates |-> 30, maxLockDepth |-> 8, suppressions |-> {}],
    [maxStates |-> 5, maxLockDepth |-> 2, suppressions |-> {<<"a", "b">>, <<"b", "b">>}] }
=============================================================================
