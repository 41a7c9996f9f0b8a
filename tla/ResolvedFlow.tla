---------------------------- MODULE ResolvedFlow ----------------------------
(***************************************************************************)
(* What resolving the flow of a program promises (README.md:224, "the      *)
(* transitive closure of what it calls"): the handlers get their records   *)
(* one after the other, in any order, each at once and from the closure of *)
(* its calls over the last definition of every method; handlers that stand *)
(* for one entry of one component share a record.                          *)
(***************************************************************************)
EXTENDS CppProgram

VARIABLES
  program,  \* the program, never written
  todo,     \* the handlers without a record yet
  flow      \* the records, by component name and entry

vars == <<program, todo, flow>>

Init ==
  /\ program \in Programs
  /\ todo = Handlers(Methods(program))
  /\ flow = [l \in {} |-> {}]

Resolve(k) ==
  LET methods   == Methods(program)
      component == ClassComponent(program)
  IN  /\ k \in todo
      /\ todo' = todo \ {k}
      /\ flow' = Store(flow, Label(component, k),
                       Record(component, k, FactsReached(methods, k)))
      /\ UNCHANGED program

Next == \E k \in todo : Resolve(k)

Spec == Init /\ [][Next]_vars
=============================================================================
