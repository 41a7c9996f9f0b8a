---------------------------- MODULE CppExecution ----------------------------
(***************************************************************************)
(* What C++ does when a port of a component instance is invoked: the most  *)
(* derived handler of the object's class runs, a virtual call goes to the  *)
(* most derived method of the object, a call through a pointer to the      *)
(* function the pointer holds.  Followed is one chain of calls, by its     *)
(* innermost body.                                                         *)
(***************************************************************************)
EXTENDS CppProgram, FiniteSetsExt

CONSTANTS NoBody   \* sentinel

VARIABLES
  program,
  object,   \* the class of the object whose handler runs, or NoClass
  handler,  \* the key of the handler that was entered
  at,       \* the innermost body, or NoBody
  through   \* "plain", or the first thing on the chain that is not: see Steps

exVars == <<object, handler, at, through>>

ExInit ==
  /\ object = NoClass
  /\ handler = NoBody
  /\ at = NoBody
  /\ through = "plain"

Bodies == UNION {program.units[n] : n \in DOMAIN program.units}

\* The class itself, its base, the base of that, ... .
Ancestor(c) ==
  LET up[n \in 0..Cardinality(Class)] ==
        IF n = 0 THEN c
        ELSE IF up[n - 1] = NoClass THEN NoClass ELSE program.base[up[n - 1]]
  IN  up

\* The generated base of an object, and with it the component it is an instance of:
\* the first generated class above, for a generated base may have one of F Prime's
\* own as its base (Fw::PassiveComponentBase).
GeneratedBase(c) ==
  LET up == Ancestor(c)
      generated == {n \in DOMAIN up : up[n] \in Generated}
  IN  IF generated = {} THEN NoClass ELSE up[Min(generated)]
Implemented(c) == ComponentOf[GeneratedBase(c)]

\* The most derived class of an object that has a body for a method.
MostDerived(c, method) ==
  LET up == Ancestor(c)
      has == {n \in DOMAIN up : \E b \in Bodies : b.key = <<up[n], method>>}
  IN  IF has = {} THEN NoClass ELSE up[Min(has)]

\* The functions a call may enter: overloads share a key.
Target(call) ==
  IF call.how = "virtual" THEN <<MostDerived(object, call.to[2]), call.to[2]>> ELSE call.to
Entered(call) == {b \in Bodies : b.key = Target(call)}

\* A body beside the last unit that defines its key: merging drops it.
Dropped(b) == b \notin program.units[LastDefinition(program, b.key)]

\* How a body is entered, when the chain was plain before.
Step(call, b) ==
  IF call.how \in {"pointer", "unresolved"} THEN call.how
  ELSE IF b.key # call.to THEN "override"
  ELSE IF Dropped(b) THEN "dropped" ELSE "plain"

Invoke(c, entry) ==
  /\ object = NoClass
  /\ GeneratedBase(c) # NoClass /\ c \notin Generated
  /\ object' = c
  /\ handler' = <<MostDerived(c, entry), entry>>
  /\ \E b \in Bodies :
       /\ b.key = handler'
       /\ at' = b
       /\ through' = IF Dropped(b) THEN "dropped" ELSE "plain"

CallFunction ==
  \E call \in at.calls : \E b \in Entered(call) :
    /\ at' = b
    /\ through' = IF through = "plain" THEN Step(call, b) ELSE through
    /\ UNCHANGED <<object, handler>>

ExNext ==
  \/ \E c \in Class, entry \in Entry : Invoke(c, entry)
  \/ at # NoBody /\ CallFunction
=============================================================================
