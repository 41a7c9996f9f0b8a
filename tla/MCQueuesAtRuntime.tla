------------------------- MODULE MCQueuesAtRuntime --------------------------
(***************************************************************************)
(* Rate groups d, active at priority 10 with two ports of different        *)
(* priority, and e at 30, ticked by driver v, which timer t ticks; passive *)
(* p with a guarded and a sync port; queued q and r, drained by d, by e,   *)
(* by each other, by themselves or by no one; q has a command port one of  *)
(* whose two commands drops.                                               *)
(***************************************************************************)
EXTENDS QueuesAtRuntime, TLC

MCInstance == {"d", "e", "p", "q", "r", "t", "v"}
MCInPort == {"d.run", "d.low", "e.run", "e.s", "p.g", "p.s",
             "q.sched", "q.msg", "q.cmd", "r.sched", "r.msg", "v.cycle"}
MCOutPort == {"d.out", "e.out", "p.out", "p.gout", "q.out", "q.alt", "r.out", "t.out", "v.0", "v.1"}
MCCommand == {"q.C", "q.D"}
MCHandler == MCInPort \cup MCCommand

MCOwner ==
  [x \in {"d.run", "d.low", "d.out"} |-> "d"] @@
  [x \in {"e.run", "e.s", "e.out"} |-> "e"] @@
  [x \in {"p.g", "p.s", "p.out", "p.gout"} |-> "p"] @@
  [x \in {"q.sched", "q.msg", "q.cmd", "q.C", "q.D", "q.out", "q.alt"} |-> "q"] @@
  [x \in {"r.sched", "r.msg", "r.out"} |-> "r"] @@
  [x \in {"t.out"} |-> "t"] @@
  [x \in {"v.cycle", "v.0", "v.1"} |-> "v"]

MCCalls == [h \in MCHandler |->
              CASE h = "d.run" -> {"d.out"}
                [] h \in {"e.run", "e.s"} -> {"e.out"}
                [] h = "p.g" -> {"p.gout"}
                [] h = "p.s" -> {"p.out"}
                [] h = "q.msg" -> {"q.out"}
                [] h = "q.C" -> {"q.alt"}
                [] h = "r.msg" -> {"r.out"}
                [] h = "v.cycle" -> {"v.0", "v.1"}
                [] OTHER -> {}]

MCTopology(w, opaques, strict) ==
  [ component |-> [i \in MCInstance |-> CASE i \in {"d", "e"} -> "active"
                                          [] i \in {"p", "t", "v"} -> "passive"
                                          [] OTHER -> "queued"],
    owner |-> MCOwner,
    portKind |-> [x \in MCInPort |-> CASE x = "p.g" -> "guarded"
                                       [] x \in {"e.s", "p.s", "q.sched", "r.sched", "v.cycle"} -> "sync"
                                       [] OTHER -> "async"],
    cmdPort |-> {"q.cmd"},
    commandKind |-> [c \in MCCommand |-> "async"],
    params |-> {}, calls |-> MCCalls, opaque |-> opaques, strict |-> strict, wires |-> w ]

MCWiring(d, e, p, g, q, r) ==
  "d.out" :> d @@ "e.out" :> e @@ "p.out" :> p @@ "p.gout" :> g @@ "q.out" :> q @@ "r.out" :> r @@
  "q.alt" :> {} @@ "t.out" :> {"v.cycle"} @@ "v.0" :> {"d.run"} @@ "v.1" :> {"e.run"}

\* The queued instances are drained in a row, in a circle, or twice.
MCDrained ==
  { MCWiring(d, e, {"q.msg"}, {"r.msg"}, q, r) :
      d \in {{"q.sched"}, {"p.s", "p.g"}}, e \in {{"r.sched"}, {"p.s", "d.run"}},
      q \in {{"r.sched", "d.low"}, {"e.s"}}, r \in {{"q.sched"}, {"d.run"}} }
\* Handlers of d, e and p feed d's queue.
MCFed ==
  { MCWiring({"p.s", "q.sched"}, e, p, g, {}, {}) :
      e \in {{"p.g", "q.cmd"}, {"p.s", "q.cmd", "d.low"}},
      p \in {{"d.low"}, {"e.s", "r.msg"}}, g \in {{}, {"d.run"}, {"d.low", "q.cmd"}} }

\* A message of q makes the thread that drains q drain it again; the second
\* message puts a command on q, which the first does not.
MCReentered ==
  { ("q.alt" :> {"q.cmd"}) @@
    MCWiring({"p.s", "q.sched"}, e, {"q.msg"}, {"d.low"}, q, {}) :
      e \in {{"p.g"}, {"d.low", "q.msg"}}, q \in {{"q.sched"}, {"q.sched", "q.cmd"}} }

MCPrecise == {MCTopology(w, {}, TRUE) : w \in MCDrained \cup MCFed \cup MCReentered}
MCUnresolved ==
  {MCTopology(MCWiring({"q.sched"}, {"p.s"}, {"d.low"}, {}, {}, {}), {h}, strict) :
     h \in {"p.g", "q.msg", "e.s", "q.C"}, strict \in BOOLEAN}
MCTopologies == MCPrecise \cup MCUnresolved

\* Set "a" leaves one group without a rate; the scan knows the timer or a base
\* frequency, and one set or which of two.
MCRates(timer, bases, sets, used) ==
  [ drivers |-> {"v"}, groups |-> {"d", "e"},
    timerHz |-> [i \in MCInstance |-> IF i = "t" THEN timer ELSE None],
    baseHz |-> bases,
    dividers |-> [s \in {"a", "b"} |-> IF s \notin sets THEN None
                                      ELSE IF s = "a" THEN <<0, 2>> ELSE <<2, 1>>],
    uses |-> [i \in MCInstance |-> IF i = "v" THEN used ELSE None],
    cycleIn |-> {"v.cycle"},
    index |-> [o \in MCOutPort |-> CASE o = "v.0" -> 0 [] o = "v.1" -> 1 [] OTHER -> None],
    member |-> {"d.out", "e.out"},
    drains |-> {"q.sched", "r.sched"} ]

MCFact(rates) ==
  [ priority |-> [i \in MCInstance |-> CASE i = "d" -> 10 [] i = "e" -> 30 [] OTHER -> None],
    portPriority |-> [x \in MCInPort |-> CASE x \in {"d.run", "q.msg"} -> 5 [] x = "d.low" -> 1 [] OTHER -> None],
    onFull |-> [h \in MCHandler |-> IF h \in {"q.D", "d.low"} THEN "drop" ELSE "assert"],
    size |-> [i \in MCInstance |-> IF i \in {"d", "q"} THEN 10 ELSE None],
    rates |-> rates ]

MCFacts ==
  { MCFact(MCRates(6, {3, 5}, {"a", "b"}, "a")),
    MCFact(MCRates(None, {6}, {"b"}, None)),
    MCFact(MCRates(None, {3, 6}, {"b"}, "b")) }
=============================================================================
