--------------------------- MODULE FlowAtRuntime ----------------------------
(***************************************************************************)
(* The flow of a program is resolved (FlowResolution), then the program    *)
(* runs (CppExecution).  What a handler of an instance does is held        *)
(* against the record the analyses look up for it (port_flow.py).          *)
(***************************************************************************)
EXTENDS FlowResolution

CONSTANTS
  NoBody,
  Suffixed   \* the class names a component may be implemented as, in the order
             \* they are tried; the first is its own: [Component -> Seq(Component)]

ASSUME FlowAtRuntimeAssumption ==
  /\ Suffixed \in [Component -> Seq(Component) \ {<<>>}]
  /\ \A c \in Component : Suffixed[c][1] = c

VARIABLES object, handler, at, through

EX == INSTANCE CppExecution

exVars == <<object, handler, at, through>>

ResolutionInit == Init /\ EX!ExInit

ResolveThenRun ==
  \/ Next /\ UNCHANGED exVars
  \/ Resolved /\ EX!ExNext /\ UNCHANGED vars

DeploymentSpec == ResolutionInit /\ [][ResolveThenRun]_<<vars, exVars>> /\ WF_vars(Next)

-----------------------------------------------------------------------------
(* The lookup. *)

\* _component_record: the name of the first candidate that has any record, if any.
RecordNames(c) ==
  LET known == {n \in DOMAIN Suffixed[c] : \E l \in DOMAIN flow : l[1] = Suffixed[c][n]}
  IN  {Suffixed[c][n] : n \in {x \in known : \A y \in known : x <= y}}

\* _lookup, and outputs_for: the precise record of a handler, if there is one.
Lookup(c, entry) ==
  {flow[l] : l \in {x \in DOMAIN flow : x[1] \in RecordNames(c) /\ x[2] = entry}}
Precise(c, entry) == {r \in Lookup(c, entry) : ~r.opaque}

-----------------------------------------------------------------------------
Running == at # NoBody
Looked == Precise(EX!Implemented(object), handler[2])

\* The handler's class is the generated base of the object, or derives from it
\* directly.
Direct ==
  LET base == EX!GeneratedBase(object)
  IN  \/ handler[1] = base
      \/ handler[1] \notin Generated /\ program.base[handler[1]] = base

\* Of all classes with handlers, it alone is filed under a name that is tried for
\* the object's component.
OnlyByName ==
  \A k \in Handlers(methods) :
    LET tried == Suffixed[EX!Implemented(object)]
    IN  Implements(component, k[1]) \in {tried[n] : n \in DOMAIN tried} => k[1] = handler[1]

\* A handler that runs, and what it calls without pointers, overriding methods and
\* overloads spread over units: the record that is looked up for it has every port
\* invoked and every access to the class's own members, or the analysis refuses, as
\* it must when the handler reaches a call that cannot be resolved
\* ("computes, for each handler, the transitive closure of what it calls and which
\* output ports those functions invoke", README.md:224).
PortsCovered == \A r \in Looked : at.ports \subseteq r.ports
AccessesCovered ==
  LET kept == {handler[1]} \cup IF Direct THEN {EX!GeneratedBase(object)} ELSE {}
      own(members) == {m \in members : m[1] \in kept}
  IN  \A r \in Looked : /\ own(at.writes) \subseteq r.writes
                        /\ own(at.reads) \subseteq r.reads \cup r.writes
ExecutionCovered ==
  Running /\ (Direct \/ OnlyByName) =>
    /\ through = "plain" => PortsCovered /\ AccessesCovered
    /\ through = "unresolved" => Looked = {}

\* What a handler reaches through a function pointer, it reaches as an opaque
\* handler: "A handler containing a call libclang cannot resolve (through a function
\* pointer or a delegate) is marked opaque" (README.md:240).
PointersAreOpaque ==
  Running /\ through = "pointer" => \A r \in Looked : at.ports \subseteq r.ports
=============================================================================
