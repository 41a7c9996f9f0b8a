--------------------------- MODULE FlowResolution ---------------------------
(***************************************************************************)
(* CallGraphExtractor.run and build_flow_map from the parsed units to the  *)
(* flow map: units are parsed in any order by a pool of workers, their     *)
(* results merged in the order of the compilation database, and every      *)
(* handler resolved by a walk of its own over the calls.  (What caches and *)
(* failures do to the results is FlowCache's.)                             *)
(***************************************************************************)
EXTENDS CppProgram

CONSTANTS NoKey, Unparsed   \* sentinels

ASSUME FlowResolutionAssumption == NoKey \notin Key

VARIABLES
  program,    \* the program, never written
  results,    \* unit_results: per unit, Unparsed or what its worker returned
  merged,     \* how many results are merged
  methods,    \* self.methods
  component,  \* self.class_component
  resolving,  \* build_flow_map has begun
  todo,       \* the handlers its loop has not come to
  current,    \* the handler being resolved, or NoKey
  stack, seen, found,   \* the locals of _resolve
  flow        \* components: the records by component name and entry

walkVars == <<current, stack, seen, found>>
vars == <<program, results, merged, methods, component, resolving, todo, walkVars, flow>>

NoFacts == Together({})
Units == DOMAIN program.units

Init ==
  /\ program \in Programs
  /\ results = [n \in Units |-> Unparsed]
  /\ merged = 0
  /\ methods = [k \in {} |-> {}]
  /\ component = [c \in {} |-> {}]
  /\ resolving = FALSE
  /\ todo = {}
  /\ current = NoKey /\ stack = {} /\ seen = {} /\ found = NoFacts
  /\ flow = [l \in {} |-> {}]

\* A worker parses a unit.
Parse(n) ==
  /\ results[n] = Unparsed
  /\ results' = [results EXCEPT ![n] =
                   [methods |-> ParseUnit(program.units[n]),
                    component |-> RecordBases(program, program.units[n])]]
  /\ UNCHANGED <<program, merged, methods, component, resolving, todo, walkVars, flow>>

\* dict.update: what the second maps replaces what the first does.
Update(f, g) == [x \in DOMAIN f \cup DOMAIN g |-> IF x \in DOMAIN g THEN g[x] ELSE f[x]]

\* Mutant: results are merged from the last unit to the first.
LastUnitFirst == Len(program.units) - merged

\* The next result to merge.
NextUnit == merged + 1

\* _merge_unit_result, once every unit has its result.
Merge ==
  /\ \A n \in Units : results[n] # Unparsed
  /\ merged < Len(program.units)
  /\ methods' = Update(methods, results[NextUnit].methods)
  /\ component' = Update(component, results[NextUnit].component)
  /\ merged' = merged + 1
  /\ UNCHANGED <<program, results, resolving, todo, walkVars, flow>>

\* build_flow_map begins.
BuildFlowMap ==
  /\ ~resolving
  /\ merged = Len(program.units)
  /\ resolving' = TRUE
  /\ todo' = Handlers(methods)
  /\ UNCHANGED <<program, results, merged, methods, component, walkVars, flow>>

\* Its loop comes to a handler: _resolve begins.
StartHandler(k) ==
  /\ current = NoKey
  /\ k \in todo
  /\ todo' = todo \ {k}
  /\ current' = k
  /\ stack' = {k}
  /\ UNCHANGED <<program, results, merged, methods, component, resolving, seen, found, flow>>

\* Mutant: what is visited is not marked as seen.
Unmarked(k) == seen

\* seen.add(current)
Mark(k) == seen \cup {k}

\* What a visit pushes.
Push(k) == Callees(methods, k) \ Mark(k)

\* One turn of _resolve.  A function without a body is a leaf.  The stack is a
\* set, so nothing on it is seen; the code, whose list may hold a function twice,
\* skips what it pops a second time (component_call_graph.py:1024).
Visit(k) ==
  /\ k \in stack
  /\ seen' = Mark(k)
  /\ stack' = (stack \ {k}) \cup Push(k)
  /\ found' = IF k \in DOMAIN methods THEN Together({found, methods[k].facts}) ELSE found
  /\ UNCHANGED <<program, results, merged, methods, component, resolving, todo, current, flow>>

\* Mutant: the record of another class for the same entry is replaced.
Replace(label, record) ==
  [l \in DOMAIN flow \cup {label} |-> IF l = label THEN record ELSE flow[l]]

Put(label, record) == Store(flow, label, record)

\* _resolve returns and the record is stored.
FinishHandler ==
  /\ current # NoKey
  /\ stack = {}
  /\ flow' = Put(Label(component, current), Record(component, current, found))
  /\ current' = NoKey /\ seen' = {} /\ found' = NoFacts
  /\ UNCHANGED <<program, results, merged, methods, component, resolving, todo, stack>>

Next ==
  \/ \E n \in Units : Parse(n)
  \/ Merge
  \/ BuildFlowMap
  \/ \E k \in Key : StartHandler(k) \/ Visit(k)
  \/ FinishHandler

Spec == Init /\ [][Next]_vars /\ WF_vars(Next)

Resolved == resolving /\ todo = {} /\ current = NoKey

-----------------------------------------------------------------------------
TypeOK ==
  /\ program \in Programs
  /\ DOMAIN results = Units
  /\ merged \in 0..Len(program.units)
  /\ \A k \in DOMAIN methods : k \in Key /\ methods[k] \in MethodInfo
  /\ \A c \in DOMAIN component : c \in Class /\ component[c] \in Component
  /\ resolving \in BOOLEAN
  /\ todo \subseteq Key /\ current \in Key \cup {NoKey}
  /\ stack \subseteq Key /\ seen \subseteq Key /\ found \in Facts
  /\ \A l \in DOMAIN flow : l \in Component \X Entry /\ flow[l] \in Facts

\* Every result is that of its unit, and what is merged of the first units is what
\* they would define alone: of each method the last definition among them.
MergedInvariant ==
  LET first == [program EXCEPT !.units = SubSeq(@, 1, merged)]
  IN  /\ \A n \in Units : results[n] # Unparsed =>
           results[n] = [methods |-> ParseUnit(program.units[n]),
                         component |-> RecordBases(program, program.units[n])]
      /\ merged > 0 => \A n \in Units : results[n] # Unparsed
      /\ methods = Methods(first)
      /\ component = ClassComponent(first)

\* The walk of a handler has visited a part of its closure, has all that part's
\* facts, and has on its stack what leads out of it.
WalkInvariant ==
  /\ resolving => merged = Len(program.units)
  /\ ~resolving => todo = {} /\ current = NoKey
  /\ todo \subseteq Handlers(methods)
  /\ current = NoKey => stack = {} /\ seen = {} /\ found = NoFacts
  /\ current # NoKey =>
       /\ current \in Handlers(methods) \ todo
       /\ seen \cap stack = {} /\ current \in seen \cup stack
       /\ seen \cup stack \subseteq Reached(methods, current)
       /\ \A k \in seen : Callees(methods, k) \subseteq seen \cup stack
       /\ found = Together({methods[k].facts : k \in seen \cap DOMAIN methods})

\* The inductive invariant beneath the refinement (component_call_graph.py:1190-1202
\* and 1022-1041): neither the order in which workers finish nor the order in which
\* the stack is popped shows in what the loops have gathered.
ResolutionInvariant == TypeOK /\ MergedInvariant /\ WalkInvariant

\* A handler's record is complete when its walk ends: the loops implement the
\* resolution in one step per handler that the README speaks of (README.md:224).
\* The handler being walked still counts as to be done.
Abstract ==
  INSTANCE ResolvedFlow WITH
    program <- program,
    flow <- flow,
    todo <- IF resolving THEN todo \cup ({current} \ {NoKey}) ELSE Handlers(Methods(program))

ResolvesFlow == Abstract!Spec

\* Resolution ends, also over recursive calls: both tests of the loop
\* (component_call_graph.py:1024 and 1042) rest on the marks of line 1026.
ResolutionEnds == <>Resolved
=============================================================================
