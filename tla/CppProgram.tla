----------------------------- MODULE CppProgram -----------------------------
(***************************************************************************)
(* The C++ of a deployment as component_call_graph.py sees it: what one    *)
(* translation unit's abstract syntax trees say of each method (_scan_body *)
(* with the visitors it calls), how the methods of all units are put       *)
(* together, and what the closure of a handler's calls amounts to          *)
(* (_resolve, build_flow_map), stated without the loops.                   *)
(***************************************************************************)
EXTENDS Naturals, Sequences, FiniteSets

CONSTANTS
  Class, Method,  \* qualified class names, method names
  Entry,          \* the method names the handler patterns match
  Port,           \* output ports
  Member,         \* fields, as <<class, field>>
  Generated,      \* the classes that are some <Component>ComponentBase
  Component,      \* component names in C++ spelling; a class may have one's name
  ComponentOf,    \* [Generated -> Component]: the name without its suffix
  NoClass,        \* the base of a class without one
  Programs        \* the programs considered

Key == Class \X Method
CallKind == {"method", "virtual", "pointer", "unresolved"}

\* A function body.  A call names the function its declaration leads to, or,
\* through a pointer, the one the pointer happens to hold; "pointer" also stands for
\* the call of a free function, whose declaration is no method's either.
Body ==
  [ key : Key, calls : SUBSET [how : CallKind, to : Key], ports : SUBSET Port,
    reads : SUBSET Member, writes : SUBSET Member ]

\* The bodies of each unit in the order of the compilation database, and the
\* direct base of every class.
Program == [units : Seq(SUBSET Body), base : [Class -> Class \cup {NoClass}]]

ASSUME CppProgramAssumption ==
  /\ IsFiniteSet(Class) /\ IsFiniteSet(Key)
  /\ Entry \subseteq Method
  /\ Generated \subseteq Class
  /\ Class \subseteq Component
  /\ ComponentOf \in [Generated -> Component]
  /\ NoClass \notin Class
  /\ Programs \subseteq Program

-----------------------------------------------------------------------------
\* What is known of a function but for its calls, put together over a set.
Facts == [ports : SUBSET Port, reads : SUBSET Member, writes : SUBSET Member, opaque : BOOLEAN]

Together(S) ==
  [ ports  |-> UNION {f.ports : f \in S},  reads |-> UNION {f.reads : f \in S},
    writes |-> UNION {f.writes : f \in S}, opaque |-> \E f \in S : f.opaque ]

\* Mutant: a virtual call is not taken for a call of the method it names.
CalledNonVirtually(b) == {c.to : c \in {x \in b.calls : x.how = "method"}}

\* _scan_call: a method, template or constructor is a callee; a call of something
\* else that has a declaration (a variable holding a function, a free function, a
\* destructor) is passed over; a named call without one makes the function opaque.
Called(b) == {c.to : c \in {x \in b.calls : x.how \in {"method", "virtual"}}}
ScanBody(b) ==
  [ ports |-> b.ports, reads |-> b.reads, writes |-> b.writes,
    opaque |-> \E c \in b.calls : c.how = "unresolved" ]

MethodInfo == [calls : SUBSET Key, facts : Facts]

\* _walk_methods: the bodies of one key in one unit (overloads) share a record.
Keys(bodies) == {b.key : b \in bodies}
Info(bodies, k) ==
  LET overloads == {b \in bodies : b.key = k}
  IN  [calls |-> UNION {Called(b) : b \in overloads},
       facts |-> Together({ScanBody(b) : b \in overloads})]
ParseUnit(bodies) == [k \in Keys(bodies) |-> Info(bodies, k)]

\* _record_component_bases: the classes met whose direct base is generated.
RecordBases(p, bodies) ==
  LET found == {c \in Class : p.base[c] \in Generated /\ \E b \in bodies : b.key[1] = c}
  IN  [c \in found |-> ComponentOf[p.base[c]]]

-----------------------------------------------------------------------------
(* All units together: the definition of the last unit that has one. *)

DefinedIn(p, k) == {n \in DOMAIN p.units : k \in Keys(p.units[n])}
Defined(p) == UNION {Keys(p.units[n]) : n \in DOMAIN p.units}
LastDefinition(p, k) == CHOOSE n \in DefinedIn(p, k) : \A i \in DefinedIn(p, k) : i <= n

Methods(p) == [k \in Defined(p) |-> Info(p.units[LastDefinition(p, k)], k)]
ClassComponent(p) == RecordBases(p, UNION {p.units[n] : n \in DOMAIN p.units})

-----------------------------------------------------------------------------
(* Resolution, given the methods and the component each class implements. *)

Handlers(methods) == {k \in DOMAIN methods : k[2] \in Entry}

\* The class name is the fallback.
Implements(component, c) ==
  IF c \in Generated THEN ComponentOf[c]
  ELSE IF c \in DOMAIN component THEN component[c] ELSE c

\* The record a handler's facts go to, and the classes whose members they keep.
Label(component, k) == <<Implements(component, k[1]), k[2]>>
Owned(component, c) ==
  {c} \cup {g \in Generated : ComponentOf[g] = Implements(component, c)}

Record(component, k, facts) ==
  LET own(members) == {m \in members : m[1] \in Owned(component, k[1])}
  IN  [ ports |-> facts.ports, opaque |-> facts.opaque,
        writes |-> own(facts.writes), reads |-> own(facts.reads \ facts.writes) ]

\* A record is stored, or joined with the one another class gave.
Store(flow, label, record) ==
  [l \in DOMAIN flow \cup {label} |->
     IF l # label THEN flow[l]
     ELSE IF l \in DOMAIN flow THEN Together({flow[l], record}) ELSE record]

\* What a handler reaches: the least set with it that calls do not leave.
Callees(methods, k) == IF k \in DOMAIN methods THEN methods[k].calls ELSE {}
Mentioned(methods) == DOMAIN methods \cup UNION {Callees(methods, k) : k \in DOMAIN methods}
Reached(methods, k) ==
  LET closed == {C \in SUBSET Mentioned(methods) :
                   k \in C /\ \A j \in C : Callees(methods, j) \subseteq C}
  IN  {j \in Mentioned(methods) : \A C \in closed : j \in C}
FactsReached(methods, k) ==
  Together({methods[j].facts : j \in Reached(methods, k) \cap DOMAIN methods})
=============================================================================
