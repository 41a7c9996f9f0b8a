------------------------- MODULE MCChecksAtRuntime --------------------------
(***************************************************************************)
(* Active d (a rate group) and e, active c with a sync port and a command  *)
(* port that runs one command guarded and one async, passive a with two    *)
(* guarded ports and passive b with a sync one.  Threads meet in a, b and  *)
(* c, nest calls four deep, recurse through b and c, and leave outputs     *)
(* unwired.                                                                *)
(***************************************************************************)
EXTENDS ChecksAtRuntime, TLC

MCInstance == {"a", "b", "c", "d", "e"}
MCInPort == {"d.run", "e.run", "a.g", "a.h", "b.s", "c.sched", "c.cmd"}
MCOutPort == {"d.out", "e.out", "a.out", "b.out", "c.out"}
MCCommand == {"c.G", "c.A"}
MCHandler == MCInPort \cup MCCommand

MCOwner ==
  [x \in {"d.run", "d.out"} |-> "d"] @@
  [x \in {"e.run", "e.out"} |-> "e"] @@
  [x \in {"a.g", "a.h", "a.out"} |-> "a"] @@
  [x \in {"b.s", "b.out"} |-> "b"] @@
  [x \in {"c.sched", "c.cmd", "c.G", "c.A", "c.out"} |-> "c"]

MCCalls == [h \in MCHandler |->
              CASE h = "d.run" -> {"d.out"}
                [] h = "e.run" -> {"e.out"}
                [] h = "a.g" -> {"a.out"}
                [] h = "b.s" -> {"b.out"}
                [] h = "c.sched" -> {"c.out"}
                [] OTHER -> {}]

MCTopology(w, opaques, strict) ==
  [ component |-> [i \in MCInstance |-> IF i \in {"a", "b"} THEN "passive" ELSE "active"],
    owner |-> MCOwner,
    portKind |-> [p \in MCInPort |-> CASE p \in {"d.run", "e.run"} -> "async"
                                       [] p \in {"a.g", "a.h"} -> "guarded"
                                       [] OTHER -> "sync"],
    cmdPort |-> {"c.cmd"},
    commandKind |-> [c \in MCCommand |-> IF c = "c.G" THEN "guarded" ELSE "async"],
    params |-> {}, calls |-> MCCalls, opaque |-> opaques, strict |-> strict, wires |-> w ]

MCWiring(d, e, b, c) ==
  "d.out" :> d @@ "e.out" :> e @@ "a.out" :> {"b.s"} @@ "b.out" :> b @@ "c.out" :> c

MCWires ==
  { MCWiring(d, e, b, c) :
      d \in {{"a.g"}, {"c.sched"}}, e \in {{"a.h"}, {"a.g"}, {"c.cmd", "b.s"}},
      b \in {{}, {"c.sched"}}, c \in {{}, {"b.s"}} }
  \cup {MCWiring({"c.sched"}, {"b.s"}, {"b.s"}, {"c.sched"})}  \* two recursions
  \cup {MCWiring({"a.g", "b.s"}, {"b.s"}, {"d.run"}, {})}      \* posts to d twice

MCPrecise == {MCTopology(w, {}, TRUE) : w \in MCWires}
\* A handler that a thread reaches, that code outside reaches, or that c runs.
MCUnresolved ==
  { MCTopology(MCWiring({"a.g"}, {}, {}, {}), o, TRUE) : o \in {{"b.s"}, {"a.h"}, {"c.G"}, {"c.A"}} }
MCNoFlow ==
  {MCTopology(MCWiring({"a.g"}, {}, {}, {}), MCHandler, strict) : strict \in BOOLEAN}
MCTopologies == MCPrecise \cup MCUnresolved \cup MCNoFlow

MCNothing == [h \in MCHandler |-> {}]
MCFact(reads, writes, locks, apart, noFlow) ==
  [ reads |-> reads @@ MCNothing, writes |-> writes @@ MCNothing, locks |-> locks @@ MCNothing,
    tested |-> MCNothing,
    priority |-> [i \in MCInstance |-> CASE i = "d" -> 10 [] i = "e" -> 30 [] OTHER -> None],
    cpu |-> [i \in MCInstance |-> CASE i = "d" -> 0 [] i = "e" -> 1 [] OTHER -> None],
    module |-> [i \in MCInstance |-> IF i \in apart THEN "N" ELSE "M"],
    type |-> [x \in MCInPort \cup MCOutPort |->
                CASE x = "d.out" -> "sched" [] x = "d.run" -> "cycle"
                  [] x \in {"e.run", "c.sched"} -> "ping" [] x = "e.out" -> "log"
                  [] x \in {"a.g", "a.out", "b.s"} -> "bufferSend" [] x = "b.out" -> "bufferGet"
                  [] x = "c.out" -> "time" [] OTHER -> "other"],
    fatal |-> {"e.run"}, dropping |-> {"a.h"}, wide |-> {"e.out"},
    size |-> [i \in MCInstance |-> IF i = "d" THEN 1 ELSE None], noFlow |-> noFlow ]

\* b's handler writes a member from every thread that calls it, and reads one of
\* a's; the handlers of c, and of a, share a member under different guards.
MCFacts ==
  { MCFact("a.h" :> {"m"}, "b.s" :> {"m"} @@ "c.A" :> {"m"} @@ "c.sched" :> {"m"} @@ "a.g" :> {"m"},
           MCNothing, {}, FALSE),
    MCFact("c.G" :> {"m"} @@ "a.h" :> {"m"}, "c.sched" :> {"m"} @@ "b.s" :> {"m"},
           "c.sched" :> {"l"} @@ "b.s" :> {"l"}, {"b"}, FALSE),
    MCFact(MCNothing, MCNothing, MCNothing, {}, TRUE) }

MCSelections == {{}, {"data-race", "cpu-affinity"}}
=============================================================================
