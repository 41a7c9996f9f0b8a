-------------------------- MODULE MCThreadOrigins --------------------------
(***************************************************************************)
(* An active driver d, a queued instance q, and a passive instance a with  *)
(* a plain input and a command port (a guarded command and a parameter     *)
(* command), wired in every way that MCWires allows: cycles through a and  *)
(* q, a driven and an undriven input, a port reached twice.                *)
(***************************************************************************)
EXTENDS ThreadOrigins, TLC

MCInstance == {"d", "q", "a"}
MCInPort == {"d.run", "q.sched", "q.work", "a.in", "a.cmd"}
MCOutPort == {"d.out", "q.out", "a.out"}
MCCommand == {"a.SET", "a.PRM"}

MCOwner ==
  [x \in {"d.run", "d.out"} |-> "d"] @@
  [x \in {"q.sched", "q.work", "q.out"} |-> "q"] @@
  [x \in {"a.in", "a.cmd", "a.SET", "a.PRM", "a.out"} |-> "a"]

MCCalls ==
  [h \in MCInPort \cup MCCommand |->
     CASE h = "d.run" -> {"d.out"}
       [] h \in {"q.sched", "q.work"} -> {"q.out"}
       [] h = "a.SET" -> {"a.out"}
       [] OTHER -> {}]

MCWires ==
  { w \in [MCOutPort -> SUBSET {"q.sched", "q.work", "a.in", "a.cmd"}] :
      /\ w["d.out"] \in {{"q.sched"}, {"a.in", "a.cmd"}}
      /\ w["q.out"] \in {{}, {"a.in"}, {"a.cmd"}}
      /\ w["a.out"] \in {{"q.sched"}, {"q.work"}, {"a.cmd"}} }

MCTopologies(aInKind, opaques, strict) ==
  { [ component   |-> [i \in MCInstance |->
                         CASE i = "d" -> "active" [] i = "q" -> "queued"
                           [] OTHER -> "passive"],
      owner       |-> MCOwner,
      portKind    |-> [p \in MCInPort |->
                         IF p \in {"d.run", "q.work"} THEN "async"
                         ELSE IF p = "a.in" THEN aInKind ELSE "sync"],
      cmdPort     |-> {"a.cmd"},
      commandKind |-> [c \in MCCommand |-> IF c = "a.SET" THEN "guarded" ELSE "sync"],
      params      |-> {"a.PRM"},
      calls       |-> MCCalls,
      opaque      |-> opaques,
      strict      |-> strict,
      wires       |-> w ] : w \in MCWires }

\* Permissive: an opaque handler may call every output of its instance.
MCPermissive == MCTopologies("guarded", {"a.in", "q.work"}, FALSE)
\* Strict: the handler behind the plain input is unresolved.
MCStrict == MCTopologies("sync", {"a.in"}, TRUE)
MCBoth == MCPermissive \cup MCStrict
=============================================================================
