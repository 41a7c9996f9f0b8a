------------------------ MODULE FlowResolutionProofs ------------------------
(***************************************************************************)
(* Proofs about the resolution of flow entries, for every set of programs: *)
(* the invariant beneath the walk, that the loops implement ResolvedFlow,  *)
(* and that the record looked up for a handler covers what it does when it *)
(* runs.                                                                   *)
(***************************************************************************)
EXTENDS FlowAtRuntime, FiniteSetTheorems, WellFoundedInduction, TLAPS

-----------------------------------------------------------------------------
(* The last of some units exists. *)

\* A set of positions that is not empty has a last one.
LEMMA Greatest ==
  ASSUME NEW n \in Nat, NEW S \in SUBSET (1..n), S # {}
  PROVE  \E m \in S : \A i \in S : i <= m
<1> DEFINE From(i) == {j \in S : i <= j}
           T == {From(i) : i \in S}
<1>1. IsFiniteSet(1..n) /\ IsFiniteSet(S)
  <2>1. 1 \in Int /\ n \in Int
    OBVIOUS
  <2>2. IsFiniteSet(1..n)
    BY <2>1, FS_Interval
  <2>3. QED
    BY <2>2, FS_Subset
<1>2. T \subseteq SUBSET S /\ T # {}
  OBVIOUS
<1>3. T \subseteq FiniteSubsetsOf(S)
  BY <1>1, <1>2, FS_Subset DEF FiniteSubsetsOf
<1>4. PICK X \in T : \A Y \in T : <<Y, X>> \notin StrictSubsetOrdering(S)
  BY ONLY <1>1, <1>2, <1>3, FS_StrictSubsetOrderingWellFounded, WFMin
<1>5. PICK m \in S : X = From(m)
  OBVIOUS
<1>6. ASSUME NEW i \in S, ~(i <= m) PROVE FALSE
  <2>1. m \in Int /\ i \in Int /\ \A j \in S : j \in Int
    OBVIOUS
  <2>2. m <= m /\ \A j \in S : i <= j => m <= j
    BY <1>6, <2>1
  <2>3. m \in From(m) /\ m \notin From(i) /\ From(i) \subseteq From(m)
    BY <1>6, <2>2, Zenon
  <2>4. From(i) \in T /\ <<From(i), X>> \notin StrictSubsetOrdering(S)
    BY <1>4
  <2>5. <<From(i), From(m)>> \in StrictSubsetOrdering(S)
    BY <2>3, <2>4, <1>2, <1>5 DEF StrictSubsetOrdering
  <2>6. QED
    BY <2>4, <2>5, <1>5
<1>7. QED
  BY <1>6

\* A method that some unit defines has a last definition.
LEMMA LastDefinitionIsLast ==
  ASSUME NEW p, p.units \in Seq(SUBSET Body), NEW k \in Defined(p)
  PROVE  /\ LastDefinition(p, k) \in DefinedIn(p, k)
         /\ \A i \in DefinedIn(p, k) : i <= LastDefinition(p, k)
<1>1. DOMAIN p.units = 1..Len(p.units) /\ Len(p.units) \in Nat
  OBVIOUS
<1>2. DefinedIn(p, k) \in SUBSET (1..Len(p.units)) /\ DefinedIn(p, k) # {}
  BY <1>1 DEF DefinedIn, Defined
<1>3. \E n \in DefinedIn(p, k) : \A i \in DefinedIn(p, k) : i <= n
  BY <1>1, <1>2, Greatest
<1>4. QED
  BY <1>3 DEF LastDefinition

-----------------------------------------------------------------------------
(* What the operators of CppProgram return. *)

\* Facts put together are facts.
LEMMA TogetherType ==
  ASSUME NEW S \in SUBSET Facts
  PROVE  Together(S) \in Facts
BY DEF Together, Facts

\* Putting facts together with what was put together before puts all together.
LEMMA TogetherJoins ==
  ASSUME NEW S \in SUBSET Facts, NEW f \in Facts
  PROVE  Together({Together(S), f}) = Together(S \cup {f})
<1>1. ASSUME NEW g \in {Together(S), f} PROVE g = Together(S) \/ g = f
  OBVIOUS
<1>2. UNION {g.ports : g \in {Together(S), f}} = UNION {g.ports : g \in S \cup {f}}
  BY DEF Together
<1>3. UNION {g.reads : g \in {Together(S), f}} = UNION {g.reads : g \in S \cup {f}}
  BY DEF Together
<1>4. UNION {g.writes : g \in {Together(S), f}} = UNION {g.writes : g \in S \cup {f}}
  BY DEF Together
<1>5. (\E g \in {Together(S), f} : g.opaque) = (\E g \in S \cup {f} : g.opaque)
  BY DEF Together
<1>6. QED
  BY <1>2, <1>3, <1>4, <1>5 DEF Together

\* Parsing bodies gives method records.
LEMMA InfoType ==
  ASSUME NEW bodies \in SUBSET Body, NEW k
  PROVE  Info(bodies, k) \in MethodInfo /\ Keys(bodies) \subseteq Key
<1>1. ASSUME NEW b \in Body
      PROVE  ScanBody(b) \in Facts /\ Called(b) \subseteq Key /\ b.key \in Key
  BY DEF Body, ScanBody, Facts, Called
<1>2. Together({ScanBody(b) : b \in {x \in bodies : x.key = k}}) \in Facts
  BY <1>1, TogetherType
<1>3. UNION {Called(b) : b \in {x \in bodies : x.key = k}} \subseteq Key
  BY <1>1
<1>4. QED
  BY <1>1, <1>2, <1>3 DEF Info, MethodInfo, Keys

\* The methods of a program are keys with method records.
LEMMA MethodsType ==
  ASSUME NEW p, p.units \in Seq(SUBSET Body)
  PROVE  \A k \in DOMAIN Methods(p) : k \in Key /\ Methods(p)[k] \in MethodInfo
<1> SUFFICES ASSUME NEW k \in Defined(p)
             PROVE  k \in Key /\ Methods(p)[k] \in MethodInfo
  BY DEF Methods
<1>1. ASSUME NEW n \in DOMAIN p.units PROVE p.units[n] \in SUBSET Body
  OBVIOUS
<1>2. k \in Key
  BY <1>1, InfoType DEF Defined
<1>3. LastDefinition(p, k) \in DOMAIN p.units
  BY LastDefinitionIsLast DEF DefinedIn
<1>4. QED
  BY <1>1, <1>2, <1>3, InfoType DEF Methods

\* A program gives classes their components.
LEMMA RecordBasesType ==
  ASSUME NEW p \in Program, NEW bodies
  PROVE  \A c \in DOMAIN RecordBases(p, bodies) :
            c \in Class /\ RecordBases(p, bodies)[c] \in Component
BY CppProgramAssumption DEF RecordBases, Program

\* The entries a handler's facts are recorded under, and the facts recorded.
LEMMA RecordType ==
  ASSUME NEW comp, \A c \in DOMAIN comp : c \in Class /\ comp[c] \in Component,
         NEW k \in Key, k[2] \in Entry, NEW f \in Facts
  PROVE  Label(comp, k) \in Component \X Entry /\ Record(comp, k, f) \in Facts
<1>1. k[1] \in Class
  BY DEF Key
<1>2. Implements(comp, k[1]) \in Component
  BY <1>1, CppProgramAssumption DEF Implements
<1>3. Record(comp, k, f) \in Facts
  BY DEF Record, Facts
<1>4. QED
  BY <1>2, <1>3 DEF Label

\* Storing a record keeps records records.
LEMMA StoreType ==
  ASSUME NEW fl, \A l \in DOMAIN fl : l \in Component \X Entry /\ fl[l] \in Facts,
         NEW label \in Component \X Entry, NEW r \in Facts
  PROVE  \A l \in DOMAIN Store(fl, label, r) :
            l \in Component \X Entry /\ Store(fl, label, r)[l] \in Facts
<1>1. ASSUME label \in DOMAIN fl PROVE Together({fl[label], r}) \in Facts
  BY <1>1, TogetherType
<1>2. QED
  BY <1>1 DEF Store

-----------------------------------------------------------------------------
(* What a handler reaches is the least set that calls do not leave. *)

\* A handler reaches itself.
LEMMA ReachedContains ==
  ASSUME NEW M, NEW k \in DOMAIN M
  PROVE  k \in Reached(M, k)
BY DEF Reached, Mentioned

\* What a reached function calls is reached.
LEMMA ReachedClosed ==
  ASSUME NEW M, NEW k, NEW j \in Reached(M, k)
  PROVE  Callees(M, j) \subseteq Reached(M, k)
<1>1. Callees(M, j) \subseteq Mentioned(M)
  BY DEF Callees, Mentioned
<1>2. SUFFICES ASSUME NEW i \in Callees(M, j),
                      NEW C \in SUBSET Mentioned(M), k \in C,
                      \A x \in C : Callees(M, x) \subseteq C
               PROVE  i \in C
  BY <1>1 DEF Reached
<1>3. j \in C
  BY <1>2 DEF Reached
<1>4. QED
  BY <1>2, <1>3

\* Every set with the handler that calls do not leave covers what it reaches.
LEMMA ReachedLeast ==
  ASSUME NEW M, NEW k, NEW C \in SUBSET Mentioned(M), k \in C,
         \A x \in C : Callees(M, x) \subseteq C
  PROVE  Reached(M, k) \subseteq C
BY DEF Reached

\* Only what is mentioned is reached.
LEMMA ReachedMentioned ==
  ASSUME NEW M, NEW k
  PROVE  Reached(M, k) \subseteq Mentioned(M)
BY DEF Reached

-----------------------------------------------------------------------------
(* Merging one unit's result after those of the units before it. *)

\* The units before the first define nothing.
LEMMA MergedNone ==
  ASSUME NEW p \in Program
  PROVE  LET first == [p EXCEPT !.units = SubSeq(@, 1, 0)]
         IN  /\ Methods(first) = [k \in {} |-> {}]
             /\ ClassComponent(first) = [c \in {} |-> {}]
<1> DEFINE first == [p EXCEPT !.units = SubSeq(@, 1, 0)]
<1>1. first.units = << >> /\ first.base = p.base
  BY DEF Program
<1>2. DOMAIN first.units = {}
  BY <1>1
<1>3. Methods(first) = [k \in {} |-> {}]
  BY <1>2 DEF Methods, Defined
<1>4. ClassComponent(first) = [c \in {} |-> {}]
  BY <1>2 DEF ClassComponent, RecordBases
<1>5. QED
  BY <1>3, <1>4

\* The units all together are the program.
LEMMA MergedAll ==
  ASSUME NEW p \in Program
  PROVE  [p EXCEPT !.units = SubSeq(@, 1, Len(p.units))] = p
<1>1. SubSeq(p.units, 1, Len(p.units)) = p.units
  BY DEF Program
<1>2. QED
  BY <1>1 DEF Program

\* The classes two sets of bodies mention, together.
LEMMA BasesUnion ==
  ASSUME NEW p, NEW q, p.base = q.base, NEW A, NEW B
  PROVE  RecordBases(p, A \cup B) = Update(RecordBases(p, A), RecordBases(q, B))
<1> DEFINE named(bodies) ==
             {c \in Class : p.base[c] \in Generated /\ \E b \in bodies : b.key[1] = c}
<1>1. /\ RecordBases(p, A) = [c \in named(A) |-> ComponentOf[p.base[c]]]
      /\ RecordBases(q, B) = [c \in named(B) |-> ComponentOf[p.base[c]]]
      /\ RecordBases(p, A \cup B) = [c \in named(A \cup B) |-> ComponentOf[p.base[c]]]
  BY DEF RecordBases
<1>2. named(A \cup B) = named(A) \cup named(B)
  OBVIOUS
<1>3. QED
  BY <1>1, <1>2 DEF Update

\* The first units of a program.
First(p, n) == [p EXCEPT !.units = SubSeq(@, 1, n)]

\* The first units are those of the program, one more when one more is merged.
LEMMA FirstUnits ==
  ASSUME NEW p \in Program, NEW n \in 0..Len(p.units)
  PROVE  /\ First(p, n).base = p.base
         /\ First(p, n).units \in Seq(SUBSET Body)
         /\ DOMAIN First(p, n).units = 1..n
         /\ \A i \in 1..n : First(p, n).units[i] = p.units[i]
<1>1. p.units \in Seq(SUBSET Body)
  BY DEF Program
<1>2. First(p, n).base = p.base /\ First(p, n).units = SubSeq(p.units, 1, n)
  BY DEF Program, First
<1>3. QED
  BY <1>1, <1>2

\* A method that the next unit does not define keeps its definition, one that it
\* does is replaced: _merge_unit_result's dict.update.
LEMMA MergeMethods ==
  ASSUME NEW p \in Program, NEW n \in 0..Len(p.units), n < Len(p.units)
  PROVE  Methods(First(p, n + 1)) = Update(Methods(First(p, n)), ParseUnit(p.units[n + 1]))
<1> DEFINE a == First(p, n)
           b == First(p, n + 1)
<1>0. Len(p.units) \in Nat /\ n \in Nat /\ n + 1 \in 0..Len(p.units)
  BY DEF Program
<1>1. /\ a.units \in Seq(SUBSET Body) /\ b.units \in Seq(SUBSET Body)
      /\ DOMAIN a.units = 1..n /\ DOMAIN b.units = 1..(n + 1)
      /\ \A i \in 1..n : a.units[i] = p.units[i]
      /\ \A i \in 1..(n + 1) : b.units[i] = p.units[i]
  BY <1>0, FirstUnits
<1>2. 1..(n + 1) = (1..n) \cup {n + 1} /\ n + 1 \notin 1..n
  BY <1>0
<1>3. Defined(b) = Defined(a) \cup Keys(p.units[n + 1])
  <2>1. Defined(b) = UNION {Keys(b.units[i]) : i \in 1..(n + 1)}
    BY <1>1 DEF Defined
  <2>2. Defined(a) = UNION {Keys(a.units[i]) : i \in 1..n}
    BY <1>1 DEF Defined
  <2>3. ASSUME NEW k
        PROVE  k \in Defined(b) <=> k \in Defined(a) \/ k \in Keys(p.units[n + 1])
    BY <1>1, <1>2, <2>1, <2>2
  <2>4. QED
    BY <2>3
<1>4. ASSUME NEW k \in Keys(p.units[n + 1])
      PROVE  LastDefinition(b, k) = n + 1
  <2>1. n + 1 \in DefinedIn(b, k)
    BY <1>1, <1>2 DEF DefinedIn
  <2>2. k \in Defined(b)
    BY <1>3
  <2>3. /\ LastDefinition(b, k) \in 1..(n + 1)
        /\ n + 1 <= LastDefinition(b, k)
    BY <1>1, <2>1, <2>2, LastDefinitionIsLast DEF DefinedIn
  <2>4. QED
    BY <1>0, <2>3
<1>5. ASSUME NEW k \in Defined(a), k \notin Keys(p.units[n + 1])
      PROVE  LastDefinition(b, k) = LastDefinition(a, k) /\ LastDefinition(a, k) \in 1..n
  <2>1. DefinedIn(b, k) = DefinedIn(a, k)
    BY <1>1, <1>2, <1>5 DEF DefinedIn
  <2>2. QED
    BY <1>1, <2>1, LastDefinitionIsLast DEF DefinedIn, LastDefinition
<1>6. ASSUME NEW k \in Defined(b)
      PROVE  Methods(b)[k] =
               IF k \in Keys(p.units[n + 1]) THEN ParseUnit(p.units[n + 1])[k] ELSE Methods(a)[k]
  <2>1. CASE k \in Keys(p.units[n + 1])
    BY <1>1, <1>2, <1>4, <2>1 DEF Methods, ParseUnit
  <2>2. CASE k \notin Keys(p.units[n + 1])
    <3>1. k \in Defined(a)
      BY <1>3, <2>2
    <3>2. b.units[LastDefinition(b, k)] = a.units[LastDefinition(a, k)]
      BY <1>1, <1>2, <1>5, <2>2, <3>1
    <3>3. QED
      BY <2>2, <3>1, <3>2 DEF Methods
  <2>3. QED
    BY <2>1, <2>2
<1>7. DOMAIN Methods(a) = Defined(a) /\ DOMAIN ParseUnit(p.units[n + 1]) = Keys(p.units[n + 1])
  BY DEF Methods, ParseUnit
<1>8. Methods(b) = [k \in Defined(b) |-> Methods(b)[k]]
  BY DEF Methods
<1>9. QED
  BY <1>3, <1>6, <1>7, <1>8 DEF Update

\* So are the components of classes: what units say of them does not differ.
LEMMA MergeComponents ==
  ASSUME NEW p \in Program, NEW n \in 0..Len(p.units), n < Len(p.units)
  PROVE  ClassComponent(First(p, n + 1)) =
           Update(ClassComponent(First(p, n)), RecordBases(p, p.units[n + 1]))
<1> DEFINE a == First(p, n)
           b == First(p, n + 1)
           bodies(q) == UNION {q.units[i] : i \in DOMAIN q.units}
<1>0. Len(p.units) \in Nat /\ n \in Nat /\ n + 1 \in 0..Len(p.units)
  BY DEF Program
<1>1. /\ a.base = p.base /\ b.base = p.base
      /\ DOMAIN a.units = 1..n /\ DOMAIN b.units = 1..(n + 1)
      /\ \A i \in 1..n : a.units[i] = p.units[i]
      /\ \A i \in 1..(n + 1) : b.units[i] = p.units[i]
  BY <1>0, FirstUnits
<1>2. 1..(n + 1) = (1..n) \cup {n + 1}
  BY <1>0
<1>3. bodies(b) = bodies(a) \cup p.units[n + 1]
  BY <1>1, <1>2
<1>4. RecordBases(b, bodies(b)) = Update(RecordBases(b, bodies(a)), RecordBases(p, p.units[n + 1]))
  BY <1>1, <1>3, BasesUnion
<1>5. RecordBases(b, bodies(a)) = RecordBases(a, bodies(a))
  BY <1>1 DEF RecordBases
<1>6. QED
  BY <1>4, <1>5 DEF ClassComponent

-----------------------------------------------------------------------------
(* Type correctness. *)

\* Every state a program begins in has the types.
LEMMA InitType == Init => TypeOK
<1> SUFFICES ASSUME Init PROVE TypeOK
  OBVIOUS
<1>1. program \in Program /\ Len(program.units) \in Nat
  BY CppProgramAssumption DEF Init, Program
<1>2. NoFacts \in Facts
  BY TogetherType DEF NoFacts
<1>3. merged \in 0..Len(program.units) /\ DOMAIN results = Units
  BY <1>1 DEF Init
<1>4. QED
  BY <1>2, <1>3 DEF Init, TypeOK

\* Every step keeps the types; that of Merge rests on the results being what the
\* units say, and that of FinishHandler on what is walked being a handler.
LEMMA TypeStep ==
  ASSUME TypeOK, MergedInvariant, WalkInvariant, [Next]_vars
  PROVE  TypeOK'
<1>0. program \in Program /\ Len(program.units) \in Nat /\ Units = 1..Len(program.units)
  BY CppProgramAssumption DEF TypeOK, Program, Units
<1>1. ASSUME NEW n \in Units, Parse(n) PROVE TypeOK'
  BY <1>1 DEF Parse, TypeOK, Units, walkVars
<1>2. ASSUME Merge PROVE TypeOK'
  <2>1. NextUnit \in Units /\ merged' \in 0..Len(program.units)
    BY <1>0, <1>2 DEF Merge, TypeOK, NextUnit
  <2>2. /\ results[NextUnit].methods = ParseUnit(program.units[NextUnit])
        /\ results[NextUnit].component = RecordBases(program, program.units[NextUnit])
    <3>1. results[NextUnit] = [methods |-> ParseUnit(program.units[NextUnit]),
                               component |-> RecordBases(program, program.units[NextUnit])]
      BY <1>2, <2>1, Zenon DEF Merge, MergedInvariant
    <3>2. QED
      BY <3>1
  <2>3. program.units[NextUnit] \in SUBSET Body
    BY <1>0, <2>1 DEF Program
  <2>4. \A k \in DOMAIN methods' : k \in Key /\ methods'[k] \in MethodInfo
    BY <1>2, <2>2, <2>3, InfoType DEF Merge, Update, ParseUnit, TypeOK
  <2>5. \A c \in DOMAIN component' : c \in Class /\ component'[c] \in Component
    BY <1>0, <1>2, <2>2, RecordBasesType DEF Merge, Update, TypeOK
  <2>6. QED
    BY <1>2, <2>1, <2>4, <2>5 DEF Merge, TypeOK, Units, walkVars
<1>3. ASSUME BuildFlowMap PROVE TypeOK'
  BY <1>3 DEF BuildFlowMap, TypeOK, Units, walkVars, Handlers
<1>4. ASSUME NEW k \in Key, StartHandler(k) PROVE TypeOK'
  BY <1>4 DEF StartHandler, TypeOK, Units
<1>5. ASSUME NEW k \in Key, Visit(k) PROVE TypeOK'
  <2>1. Callees(methods, k) \subseteq Key
    BY DEF TypeOK, Callees, MethodInfo
  <2>2. found' \in Facts
    <3>1. CASE k \in DOMAIN methods
      <4>1. {found, methods[k].facts} \in SUBSET Facts
        BY <3>1 DEF TypeOK, MethodInfo
      <4>2. QED
        BY <1>5, <3>1, <4>1, TogetherType DEF Visit
    <3>2. CASE k \notin DOMAIN methods
      BY <1>5, <3>2 DEF Visit, TypeOK
    <3>3. QED
      BY <3>1, <3>2
  <2>3. QED
    BY <1>5, <2>1, <2>2 DEF Visit, Push, Mark, TypeOK, Units
<1>6. ASSUME FinishHandler PROVE TypeOK'
  <2>1. current \in Key /\ current[2] \in Entry
    BY <1>6 DEF FinishHandler, WalkInvariant, TypeOK, Handlers
  <2>2. /\ Label(component, current) \in Component \X Entry
        /\ Record(component, current, found) \in Facts
    BY <2>1, RecordType DEF TypeOK
  <2>3. \A l \in DOMAIN flow' : l \in Component \X Entry /\ flow'[l] \in Facts
    BY <1>6, <2>2, StoreType DEF FinishHandler, Put, TypeOK
  <2>4. NoFacts \in Facts
    BY TogetherType DEF NoFacts
  <2>5. QED
    BY <1>6, <2>3, <2>4 DEF FinishHandler, TypeOK, Units
<1>7. CASE UNCHANGED vars
  BY <1>7 DEF vars, walkVars, TypeOK, Units
<1>8. QED
  BY <1>1, <1>2, <1>3, <1>4, <1>5, <1>6, <1>7 DEF Next

-----------------------------------------------------------------------------
(* What is merged. *)

\* Nothing is merged at first.
LEMMA InitMerged == Init => MergedInvariant
<1> SUFFICES ASSUME Init PROVE MergedInvariant
  OBVIOUS
<1>1. program \in Program
  BY CppProgramAssumption DEF Init
<1>2. QED
  BY <1>1, MergedNone DEF Init, MergedInvariant, Units

\* Every step keeps the results and what is merged of them.
LEMMA MergedStep ==
  ASSUME TypeOK, MergedInvariant, [Next]_vars
  PROVE  MergedInvariant'
<1>0. program \in Program /\ Len(program.units) \in Nat /\ Units = 1..Len(program.units)
  BY CppProgramAssumption DEF TypeOK, Program, Units
<1>1. /\ methods = Methods(First(program, merged))
      /\ component = ClassComponent(First(program, merged))
  BY DEF MergedInvariant, First
<1>2. ASSUME NEW n \in Units, Parse(n) PROVE MergedInvariant'
  <2>1. merged = 0
    BY <1>0, <1>2 DEF Parse, MergedInvariant, TypeOK
  <2>2. \A i \in Units' : results'[i] # Unparsed =>
           results'[i] = [methods |-> ParseUnit(program'.units[i]),
                          component |-> RecordBases(program', program'.units[i])]
    BY <1>2 DEF Parse, MergedInvariant, TypeOK, Units
  <2>3. QED
    BY <1>1, <1>2, <2>1, <2>2 DEF Parse, MergedInvariant, First
<1>3. ASSUME Merge PROVE MergedInvariant'
  <2>1. merged \in 0..Len(program.units) /\ merged < Len(program.units) /\ NextUnit \in Units
    BY <1>0, <1>3 DEF Merge, TypeOK, NextUnit
  <2>2. results[NextUnit] =
          [methods |-> ParseUnit(program.units[merged + 1]),
           component |-> RecordBases(program, program.units[merged + 1])]
    BY <1>3, <2>1 DEF Merge, MergedInvariant, NextUnit
  <2>3. methods' = Methods(First(program, merged + 1))
    BY <1>0, <1>1, <1>3, <2>1, <2>2, MergeMethods DEF Merge
  <2>4. component' = ClassComponent(First(program, merged + 1))
    BY <1>0, <1>1, <1>3, <2>1, <2>2, MergeComponents DEF Merge
  <2>5. QED
    BY <1>3, <2>3, <2>4 DEF Merge, MergedInvariant, First, Units
<1>4. ASSUME BuildFlowMap PROVE MergedInvariant'
  BY <1>4 DEF BuildFlowMap, MergedInvariant, Units
<1>5. ASSUME NEW k \in Key, StartHandler(k) PROVE MergedInvariant'
  BY <1>5 DEF StartHandler, MergedInvariant, Units
<1>6. ASSUME NEW k \in Key, Visit(k) PROVE MergedInvariant'
  BY <1>6 DEF Visit, MergedInvariant, Units
<1>7. ASSUME FinishHandler PROVE MergedInvariant'
  BY <1>7 DEF FinishHandler, MergedInvariant, Units
<1>8. CASE UNCHANGED vars
  BY <1>8 DEF vars, walkVars, MergedInvariant, Units
<1>9. QED
  BY <1>2, <1>3, <1>4, <1>5, <1>6, <1>7, <1>8 DEF Next

-----------------------------------------------------------------------------
(* The walk. *)

\* Nothing is walked at first.
LEMMA InitWalk == Init => WalkInvariant
BY DEF Init, WalkInvariant

\* Every step keeps what the walk has gathered.
LEMMA WalkStep ==
  ASSUME TypeOK, WalkInvariant, [Next]_vars
  PROVE  WalkInvariant'
<1> USE FlowResolutionAssumption
<1>1. ASSUME NEW n \in Units, Parse(n) PROVE WalkInvariant'
  BY <1>1 DEF Parse, walkVars, WalkInvariant
<1>2. ASSUME Merge PROVE WalkInvariant'
  <2>1. ~resolving
    BY <1>2 DEF Merge, WalkInvariant
  <2>2. QED
    BY <1>2, <2>1 DEF Merge, walkVars, WalkInvariant
<1>3. ASSUME BuildFlowMap PROVE WalkInvariant'
  BY <1>3 DEF BuildFlowMap, walkVars, WalkInvariant
<1>4. ASSUME NEW k \in Key, StartHandler(k) PROVE WalkInvariant'
  <2>1. resolving /\ seen = {} /\ found = NoFacts /\ k \in Handlers(methods)
    BY <1>4 DEF StartHandler, WalkInvariant
  <2>2. k \in Reached(methods, k)
    BY <2>1, ReachedContains DEF Handlers
  <2>3. found = Together({methods[j].facts : j \in {} \cap DOMAIN methods})
    BY <2>1 DEF NoFacts, Together
  <2>4. QED
    BY <1>4, <2>1, <2>2, <2>3 DEF StartHandler, WalkInvariant
<1>5. ASSUME NEW k \in Key, Visit(k) PROVE WalkInvariant'
  <2>1. resolving /\ current # NoKey /\ k \in stack /\ k \notin seen
    BY <1>5 DEF Visit, WalkInvariant
  <2>2. Callees(methods, k) \subseteq Reached(methods, current)
    BY <2>1, ReachedClosed DEF WalkInvariant
  <2>3. /\ seen' = seen \cup {k}
        /\ stack' = (stack \ {k}) \cup (Callees(methods, k) \ seen')
    BY <1>5 DEF Visit, Push, Mark
  <2>4. /\ seen' \cap stack' = {} /\ current \in seen' \cup stack'
        /\ seen' \cup stack' \subseteq Reached(methods, current)
        /\ \A j \in seen' : Callees(methods, j) \subseteq seen' \cup stack'
    BY <2>1, <2>2, <2>3 DEF WalkInvariant
  <2>5. found' = Together({methods[j].facts : j \in seen' \cap DOMAIN methods})
    <3> DEFINE S == {methods[j].facts : j \in seen \cap DOMAIN methods}
    <3>1. S \in SUBSET Facts /\ found = Together(S)
      BY <2>1 DEF TypeOK, MethodInfo, WalkInvariant
    <3>2. CASE k \in DOMAIN methods
      <4>1. methods[k].facts \in Facts
        BY <3>2 DEF TypeOK, MethodInfo
      <4>2. found' = Together(S \cup {methods[k].facts})
        BY <1>5, <3>1, <3>2, <4>1, TogetherJoins DEF Visit
      <4>3. S \cup {methods[k].facts} = {methods[j].facts : j \in seen' \cap DOMAIN methods}
        BY <2>3, <3>2
      <4>4. QED
        BY <4>2, <4>3
    <3>3. CASE k \notin DOMAIN methods
      <4>1. seen' \cap DOMAIN methods = seen \cap DOMAIN methods
        BY <2>3, <3>3
      <4>2. QED
        BY <1>5, <3>1, <3>3, <4>1 DEF Visit
    <3>4. QED
      BY <3>2, <3>3
  <2>6. QED
    BY <1>5, <2>1, <2>4, <2>5 DEF Visit, WalkInvariant
<1>6. ASSUME FinishHandler PROVE WalkInvariant'
  <2>1. resolving
    BY <1>6 DEF FinishHandler, WalkInvariant
  <2>2. QED
    BY <1>6, <2>1 DEF FinishHandler, WalkInvariant
<1>7. CASE UNCHANGED vars
  BY <1>7 DEF vars, walkVars, WalkInvariant
<1>8. QED
  BY <1>1, <1>2, <1>3, <1>4, <1>5, <1>6, <1>7 DEF Next

\* ResolutionInvariant always holds, in every order of the workers and of the stack
\* (component_call_graph.py:1190-1202 and 1022-1041): what the loops have gathered is
\* what the units and the closure of the calls say.
THEOREM ResolutionInvariantHolds == Spec => []ResolutionInvariant
<1>1. Init => ResolutionInvariant
  BY InitType, InitMerged, InitWalk DEF ResolutionInvariant
<1>2. ResolutionInvariant /\ [Next]_vars => ResolutionInvariant'
  BY TypeStep, MergedStep, WalkStep DEF ResolutionInvariant
<1>3. QED
  BY <1>1, <1>2, PTL DEF Spec

-----------------------------------------------------------------------------
(* The loops implement ResolvedFlow. *)

\* The operators of the abstract specification are those of this one.
LEMMA SameOperators ==
  /\ \A p : Abstract!Methods(p) = Methods(p)
  /\ \A p : Abstract!ClassComponent(p) = ClassComponent(p)
  /\ \A M : Abstract!Handlers(M) = Handlers(M)
  /\ \A M, k : Abstract!FactsReached(M, k) = FactsReached(M, k)
  /\ \A c, k : Abstract!Label(c, k) = Label(c, k)
  /\ \A c, k, f : Abstract!Record(c, k, f) = Record(c, k, f)
  /\ \A f, l, r : Abstract!Store(f, l, r) = Store(f, l, r)
<1>1. \A p : Abstract!Methods(p) = Methods(p)
  BY DEF Methods, Abstract!Methods, Defined, Abstract!Defined, Keys, Abstract!Keys,
         Info, Abstract!Info, LastDefinition, Abstract!LastDefinition,
         DefinedIn, Abstract!DefinedIn, Called, Abstract!Called,
         ScanBody, Abstract!ScanBody, Together, Abstract!Together
<1>2. \A p : Abstract!ClassComponent(p) = ClassComponent(p)
  BY DEF ClassComponent, Abstract!ClassComponent, RecordBases, Abstract!RecordBases
<1>3. \A M : Abstract!Handlers(M) = Handlers(M)
  BY DEF Handlers, Abstract!Handlers
<1>4. \A M, k : Abstract!FactsReached(M, k) = FactsReached(M, k)
  BY DEF FactsReached, Abstract!FactsReached, Together, Abstract!Together,
         Reached, Abstract!Reached, Mentioned, Abstract!Mentioned, Callees, Abstract!Callees
<1>5. \A c, k : Abstract!Label(c, k) = Label(c, k)
  BY DEF Label, Abstract!Label, Implements, Abstract!Implements
<1>6. \A c, k, f : Abstract!Record(c, k, f) = Record(c, k, f)
  BY DEF Record, Abstract!Record, Owned, Abstract!Owned, Implements, Abstract!Implements
<1>7. \A f, l, r : Abstract!Store(f, l, r) = Store(f, l, r)
  BY DEF Store, Abstract!Store, Together, Abstract!Together
<1>8. QED
  BY <1>1, <1>2, <1>3, <1>4, <1>5, <1>6, <1>7

\* A walk with an empty stack has seen what its handler reaches and no more, and
\* has the facts of all of it.
LEMMA WalkComplete ==
  ASSUME TypeOK, WalkInvariant, current # NoKey, stack = {}
  PROVE  seen = Reached(methods, current) /\ found = FactsReached(methods, current)
<1>1. /\ current \in seen /\ seen \subseteq Reached(methods, current)
      /\ \A k \in seen : Callees(methods, k) \subseteq seen
  BY DEF WalkInvariant
<1>2. seen \in SUBSET Mentioned(methods)
  BY <1>1, ReachedMentioned
<1>3. seen = Reached(methods, current)
  BY <1>1, <1>2, ReachedLeast
<1>4. QED
  BY <1>3 DEF WalkInvariant, FactsReached

\* What is to be done in the abstract specification.
AbstractTodo == IF resolving THEN todo \cup ({current} \ {NoKey}) ELSE Handlers(Methods(program))

\* A handler whose walk ends is resolved; every other step is inside a resolution.
LEMMA ResolveStep ==
  ASSUME ResolutionInvariant, [Next]_vars
  PROVE  \/ \E k \in AbstractTodo : Abstract!Resolve(k)
         \/ UNCHANGED <<program, AbstractTodo, flow>>
<1> USE FlowResolutionAssumption
<1>0. TypeOK /\ MergedInvariant /\ WalkInvariant
  BY DEF ResolutionInvariant
<1>1. ASSUME resolving
      PROVE  methods = Methods(program) /\ component = ClassComponent(program)
  <2>1. program \in Program /\ merged = Len(program.units)
    BY <1>0, <1>1, CppProgramAssumption DEF TypeOK, WalkInvariant
  <2>2. QED
    BY <1>0, <2>1, MergedAll DEF MergedInvariant
<1>2. ASSUME NEW n \in Units, Parse(n) PROVE UNCHANGED <<program, AbstractTodo, flow>>
  BY <1>2 DEF Parse, walkVars, AbstractTodo
<1>3. ASSUME Merge PROVE UNCHANGED <<program, AbstractTodo, flow>>
  BY <1>3 DEF Merge, walkVars, AbstractTodo
<1>4. ASSUME BuildFlowMap PROVE UNCHANGED <<program, AbstractTodo, flow>>
  <2>1. program \in Program /\ merged = Len(program.units) /\ current = NoKey
    BY <1>0, <1>4, CppProgramAssumption DEF TypeOK, WalkInvariant, BuildFlowMap
  <2>2. methods = Methods(program)
    BY <1>0, <2>1, MergedAll DEF MergedInvariant
  <2>3. QED
    BY <1>4, <2>1, <2>2 DEF BuildFlowMap, walkVars, AbstractTodo
<1>5. ASSUME NEW k \in Key, StartHandler(k) PROVE UNCHANGED <<program, AbstractTodo, flow>>
  <2>1. resolving /\ k # NoKey
    BY <1>0, <1>5 DEF StartHandler, WalkInvariant
  <2>2. QED
    BY <1>5, <2>1 DEF StartHandler, AbstractTodo
<1>6. ASSUME NEW k \in Key, Visit(k) PROVE UNCHANGED <<program, AbstractTodo, flow>>
  BY <1>6 DEF Visit, AbstractTodo
<1>7. ASSUME FinishHandler PROVE \E k \in AbstractTodo : Abstract!Resolve(k)
  <2>1. resolving /\ current # NoKey /\ current \notin todo
    BY <1>0, <1>7 DEF FinishHandler, WalkInvariant
  <2>2. AbstractTodo = todo \cup {current} /\ AbstractTodo' = todo
    BY <1>7, <2>1 DEF FinishHandler, AbstractTodo
  <2>3. found = FactsReached(methods, current)
    BY <1>0, <1>7, <2>1, WalkComplete DEF FinishHandler
  <2>4. flow' = Store(flow, Label(ClassComponent(program), current),
                      Record(ClassComponent(program), current,
                             FactsReached(Methods(program), current)))
    BY <1>1, <1>7, <2>1, <2>3 DEF FinishHandler, Put
  <2>5. Abstract!Resolve(current)
    BY <1>7, <2>1, <2>2, <2>4, SameOperators DEF Abstract!Resolve, FinishHandler, AbstractTodo
  <2>6. QED
    BY <2>2, <2>5
<1>8. CASE UNCHANGED vars
  BY <1>8 DEF vars, walkVars, AbstractTodo
<1>9. QED
  BY <1>2, <1>3, <1>4, <1>5, <1>6, <1>7, <1>8 DEF Next

\* The loops implement the resolution in one step per handler (README.md:224): in
\* every order of the workers, of the handlers and of the stack, a record holds
\* what the closure of its handlers' calls amounts to, recursive calls included.
THEOREM ResolvesFlowHolds == Spec => ResolvesFlow
<1>1. Init => Abstract!Init
  BY SameOperators DEF Init, Abstract!Init
<1>2. ResolutionInvariant /\ [Next]_vars => [Abstract!Next]_(Abstract!vars)
  BY ResolveStep DEF Abstract!Next, Abstract!vars, AbstractTodo
<1>3. QED
  BY <1>1, <1>2, ResolutionInvariantHolds, PTL DEF Spec, ResolvesFlow, Abstract!Spec

-----------------------------------------------------------------------------
(* A program that runs after the resolution: which class is looked up. *)

\* A set of positions counted from zero that is not empty has a first one.
LEMMA Least ==
  ASSUME NEW n \in Nat, NEW S \in SUBSET (0..n), S # {}
  PROVE  \E m \in S : \A i \in S : m <= i
<1> DEFINE T == {n + 1 - i : i \in S}
<1>1. \A i \in S : i \in Int /\ 0 <= i /\ i <= n
  OBVIOUS
<1>2. T \in SUBSET (1..(n + 1)) /\ T # {}
  <2>1. ASSUME NEW i \in S PROVE n + 1 - i \in 1..(n + 1)
    BY <1>1
  <2>2. QED
    BY <2>1
<1>3. n + 1 \in Nat
  OBVIOUS
<1>4. PICK t \in T : \A i \in T : i <= t
  BY <1>2, <1>3, Greatest
<1>5. PICK m \in S : t = n + 1 - m
  OBVIOUS
<1>6. ASSUME NEW i \in S PROVE m <= i
  <2>1. n + 1 - i <= n + 1 - m
    BY <1>4, <1>5
  <2>2. QED
    BY <1>1, <2>1
<1>7. QED
  BY <1>6

\* There are class names from a class upwards as Ancestor says.
LEMMA AncestorDefined ==
  ASSUME NEW c
  PROVE  DOMAIN EX!Ancestor(c) = 0..Cardinality(Class) /\ Cardinality(Class) \in Nat
<1> DEFINE N == Cardinality(Class)
           Base(x) == IF x = NoClass THEN NoClass ELSE program.base[x]
           G(k, f) == [n \in 0..k |-> IF n = 0 THEN c ELSE Base(f[n - 1])]
           Missing == {k \in 0..N : \A f : f # G(k, f)}
<1>1. N \in Nat
  BY CppProgramAssumption, FS_CardinalityType
<1>2. ASSUME Missing # {} PROVE FALSE
  <2>1. Missing \in SUBSET (0..N)
    OBVIOUS
  <2>2. PICK m \in Missing : \A k \in Missing : m <= k
    BY <1>1, <1>2, <2>1, Least
  <2>3. m \in Nat /\ m <= N
    BY <1>1, <2>1
  <2>4. m # 0
    <3>1. PICK f : f = [n \in 0..0 |-> c]
      OBVIOUS
    <3>2. \A n \in 0..0 : n = 0
      OBVIOUS
    <3>3. f = G(0, f)
      BY <3>1, <3>2
    <3>4. QED
      BY <3>3
  <2>5. m - 1 \in 0..N /\ ~(m <= m - 1)
    BY <1>1, <2>3, <2>4
  <2>6. PICK f : f = G(m - 1, f)
    BY <2>2, <2>5
  <2>7. PICK g : g = [n \in 0..m |-> IF n = m THEN Base(f[m - 1]) ELSE f[n]]
    OBVIOUS
  <2>8. ASSUME NEW n \in 0..m PROVE g[n] = IF n = 0 THEN c ELSE Base(g[n - 1])
    <3>1. n \in Int /\ 0 <= n /\ n <= m
      BY <2>3
    <3>2. CASE n = m
      <4>1. m - 1 \in 0..m /\ m - 1 # m
        BY <2>3, <2>4
      <4>2. g[m - 1] = f[m - 1]
        BY <2>7, <4>1
      <4>3. QED
        BY <2>4, <2>7, <3>2, <4>2
    <3>3. CASE n # m
      <4>1. n \in 0..(m - 1) /\ g[n] = f[n]
        BY <2>3, <2>7, <3>1, <3>3
      <4>2. n # 0 => n - 1 \in 0..m /\ n - 1 # m
        BY <2>3, <3>1
      <4>3. n # 0 => g[n - 1] = f[n - 1]
        BY <2>7, <4>2
      <4>4. QED
        BY <2>6, <4>1, <4>3
    <3>4. QED
      BY <3>2, <3>3
  <2>9. g = G(m, g)
    BY <2>7, <2>8
  <2>10. QED
    BY <2>2, <2>9
<1>3. \E f : f = G(N, f)
  BY <1>1, <1>2
<1>4. EX!Ancestor(c) = CHOOSE f : f = G(N, f)
  <2>1. EX!Cardinality(Class) = Cardinality(Class)
    BY DEF EX!Cardinality, Cardinality
  <2>2. QED
    BY <2>1 DEF EX!Ancestor
<1>5. EX!Ancestor(c) = G(N, EX!Ancestor(c))
  BY <1>3, <1>4
<1>6. QED
  BY <1>1, <1>5

\* The generated base of a class that has one is generated.
LEMMA GeneratedBaseGenerated ==
  ASSUME NEW c, EX!GeneratedBase(c) # NoClass
  PROVE  EX!GeneratedBase(c) \in Generated
<1> DEFINE up == EX!Ancestor(c)
           S == {n \in DOMAIN up : up[n] \in Generated}
<1>1. EX!GeneratedBase(c) = IF S = {} THEN NoClass ELSE up[EX!Min(S)]
  BY DEF EX!GeneratedBase
<1>2. S # {} /\ S \in SUBSET (0..Cardinality(Class)) /\ Cardinality(Class) \in Nat
  BY <1>1, AncestorDefined
<1>3. \E m \in S : \A i \in S : m <= i
  BY <1>2, Least
<1>4. EX!Min(S) \in S
  BY <1>3 DEF EX!Min
<1>5. QED
  BY <1>1, <1>2, <1>4

-----------------------------------------------------------------------------
(* What the flow map holds. *)

\* A record has all that given facts have.
Holds(r, f) ==
  /\ f.ports \subseteq r.ports
  /\ f.writes \subseteq r.writes
  /\ f.reads \subseteq r.reads
  /\ f.opaque => r.opaque

\* The record a handler's own facts make, and what it is filed under.
Own(k) == Record(component, k, FactsReached(methods, k))
Filed(k) == Label(component, k)

\* Every record is filed under some handler's label, and every handler the loop is
\* past has all its facts in the record of its label.
RecordsInv ==
  /\ ~resolving => DOMAIN flow = {}
  /\ \A l \in DOMAIN flow : \E k \in Handlers(methods) : Filed(k) = l
  /\ resolving =>
       \A k \in Handlers(methods) \ (todo \cup {current}) :
         Filed(k) \in DOMAIN flow /\ Holds(flow[Filed(k)], Own(k))

\* Storing a record adds its label, keeps what was held and holds the record.
LEMMA StoreHolds ==
  ASSUME NEW fl, NEW label, NEW r
  PROVE  LET new == Store(fl, label, r)
         IN  /\ DOMAIN new = DOMAIN fl \cup {label}
             /\ Holds(new[label], r)
             /\ \A l \in DOMAIN fl : \A f : Holds(fl[l], f) => Holds(new[l], f)
<1>1. \A g : Holds(g, g)
  BY DEF Holds
<1>2. ASSUME NEW g PROVE Holds(Together({g, r}), r) /\ Holds(Together({g, r}), g)
  BY DEF Holds, Together
<1>3. ASSUME NEW g, NEW f, Holds(g, f) PROVE Holds(Together({g, r}), f)
  BY <1>2, <1>3 DEF Holds
<1>4. QED
  BY <1>1, <1>2, <1>3 DEF Store

\* Only the end of a walk changes the records, and it adds what the walk found.
LEMMA RecordsStep ==
  ASSUME TypeOK, WalkInvariant, RecordsInv, [Next]_vars
  PROVE  RecordsInv'
<1> USE FlowResolutionAssumption
<1>1. ASSUME UNCHANGED <<methods, component, resolving, flow>>,
             todo' \cup {current'} = todo \cup {current}
      PROVE  RecordsInv'
  BY <1>1 DEF RecordsInv, Filed, Own
<1>2. ASSUME NEW n \in Units, Parse(n) PROVE RecordsInv'
  BY <1>1, <1>2 DEF Parse, walkVars
<1>3. ASSUME Merge PROVE RecordsInv'
  <2>1. ~resolving
    BY <1>3 DEF Merge, WalkInvariant
  <2>2. ~resolving' /\ flow' = flow
    BY <1>3, <2>1 DEF Merge
  <2>3. QED
    BY <2>1, <2>2 DEF RecordsInv
<1>4. ASSUME BuildFlowMap PROVE RecordsInv'
  <2>1. DOMAIN flow' = {} /\ todo' = Handlers(methods') /\ resolving'
    BY <1>4 DEF BuildFlowMap, RecordsInv
  <2>2. QED
    BY <2>1 DEF RecordsInv
<1>5. ASSUME NEW k \in Key, StartHandler(k) PROVE RecordsInv'
  <2>1. /\ UNCHANGED <<methods, component, resolving, flow>>
        /\ todo' \cup {current'} = todo /\ current = NoKey /\ resolving
    BY <1>5 DEF StartHandler, WalkInvariant
  <2>2. todo \cup {current} = (todo' \cup {current'}) \cup {NoKey}
    BY <2>1
  <2>3. NoKey \notin Handlers(methods)
    BY DEF TypeOK, Handlers
  <2>4. Handlers(methods) \ (todo' \cup {current'}) = Handlers(methods) \ (todo \cup {current})
    BY <2>2, <2>3
  <2>5. QED
    BY <2>1, <2>4 DEF RecordsInv, Filed, Own
<1>6. ASSUME NEW k \in Key, Visit(k) PROVE RecordsInv'
  BY <1>1, <1>6 DEF Visit
<1>7. ASSUME FinishHandler PROVE RecordsInv'
  <2>1. current # NoKey /\ stack = {} /\ resolving /\ current \in Handlers(methods)
    BY <1>7 DEF FinishHandler, WalkInvariant
  <2>2. found = FactsReached(methods, current)
    BY <2>1, WalkComplete
  <2>3. /\ flow' = Store(flow, Filed(current), Own(current))
        /\ UNCHANGED <<methods, component, resolving, todo>> /\ current' = NoKey
    BY <1>7, <2>2 DEF FinishHandler, Put, Filed, Own
  <2>4. /\ DOMAIN flow' = DOMAIN flow \cup {Filed(current)}
        /\ Holds(flow'[Filed(current)], Own(current))
        /\ \A l \in DOMAIN flow : \A f : Holds(flow[l], f) => Holds(flow'[l], f)
    BY <2>3, StoreHolds
  <2>5. \A k : Filed(k)' = Filed(k) /\ Own(k)' = Own(k)
    BY <2>3 DEF Filed, Own
  <2>6. \A l \in DOMAIN flow' : \E k \in Handlers(methods) : Filed(k) = l
    BY <2>1, <2>4 DEF RecordsInv
  <2>7. ASSUME NEW k \in Handlers(methods) \ todo
        PROVE  Filed(k) \in DOMAIN flow' /\ Holds(flow'[Filed(k)], Own(k))
    <3>1. CASE k = current
      BY <2>4, <3>1
    <3>2. CASE k # current
      BY <2>1, <2>4, <3>2 DEF RecordsInv
    <3>3. QED
      BY <3>1, <3>2
  <2>8. QED
    BY <2>1, <2>3, <2>5, <2>6, <2>7 DEF RecordsInv
<1>8. CASE UNCHANGED vars
  BY <1>1, <1>8 DEF vars, walkVars
<1>9. QED
  BY <1>2, <1>3, <1>4, <1>5, <1>6, <1>7, <1>8 DEF Next

-----------------------------------------------------------------------------
(* What runs. *)

\* A handler that was invoked is one of an object that has a generated base.  What a
\* plain chain has come to is in the last definition of a function the handler
\* reaches; where the chain first met a call that cannot be resolved, the handler
\* reaches an opaque function.
ChainInv ==
  Running =>
    /\ Resolved
    /\ handler \in Handlers(methods)
    /\ EX!GeneratedBase(object) # NoClass
    /\ through = "plain" =>
         /\ at.key \in Reached(methods, handler) /\ at.key \in DOMAIN methods
         /\ at \in program.units[LastDefinition(program, at.key)]
    /\ through = "unresolved" =>
         \E k \in Reached(methods, handler) \cap DOMAIN methods : methods[k].facts.opaque

\* The operators of the running program are those of the resolution.
LEMMA SameInExecution ==
  /\ EX!Bodies = UNION {program.units[n] : n \in DOMAIN program.units}
  /\ \A p, k : EX!LastDefinition(p, k) = LastDefinition(p, k)
BY DEF EX!Bodies, EX!LastDefinition, LastDefinition, EX!DefinedIn, DefinedIn, EX!Keys, Keys

\* When resolution has begun everything is merged.
LEMMA AllMerged ==
  ASSUME ResolutionInvariant, resolving
  PROVE  methods = Methods(program) /\ component = ClassComponent(program) /\ program \in Program
<1>1. program \in Program /\ merged = Len(program.units) /\ MergedInvariant
  BY CppProgramAssumption DEF ResolutionInvariant, TypeOK, WalkInvariant
<1>2. QED
  BY <1>1, MergedAll DEF MergedInvariant

\* A body of the program has its key among the methods, and the facts and calls of a
\* body of the last unit with its key are those of its method.
LEMMA BodyFacts ==
  ASSUME NEW p \in Program, NEW n \in DOMAIN p.units, NEW b \in p.units[n]
  PROVE  /\ b \in Body /\ b.key \in DOMAIN Methods(p)
         /\ n = LastDefinition(p, b.key) =>
              LET m == Methods(p)[b.key]
              IN  /\ Called(b) \subseteq m.calls
                  /\ b.ports \subseteq m.facts.ports /\ b.writes \subseteq m.facts.writes
                  /\ b.reads \subseteq m.facts.reads
                  /\ (\E c \in b.calls : c.how = "unresolved") => m.facts.opaque
<1>1. b \in Body
  BY DEF Program
<1>2. b.key \in Keys(p.units[n]) /\ b.key \in DOMAIN Methods(p)
  BY DEF Keys, Methods, Defined
<1>3. ASSUME n = LastDefinition(p, b.key)
      PROVE  Methods(p)[b.key] = Info(p.units[n], b.key)
  BY <1>2, <1>3 DEF Methods
<1>4. b \in {x \in p.units[n] : x.key = b.key}
  OBVIOUS
<1>5. Called(b) \subseteq Info(p.units[n], b.key).calls
  BY <1>4 DEF Info
<1>6. LET f == Info(p.units[n], b.key).facts
      IN  /\ b.ports \subseteq f.ports /\ b.writes \subseteq f.writes /\ b.reads \subseteq f.reads
          /\ (\E c \in b.calls : c.how = "unresolved") => f.opaque
  <2>1. PICK S : S = {ScanBody(x) : x \in {y \in p.units[n] : y.key = b.key}}
    OBVIOUS
  <2>2. Info(p.units[n], b.key).facts = Together(S)
    BY <2>1 DEF Info
  <2>3. PICK s \in S : s = ScanBody(b)
    BY <1>4, <2>1
  <2>4. /\ s.ports = b.ports /\ s.writes = b.writes /\ s.reads = b.reads
        /\ s.opaque = \E c \in b.calls : c.how = "unresolved"
    BY <2>3 DEF ScanBody
  <2>5. /\ s.ports \subseteq Together(S).ports /\ s.writes \subseteq Together(S).writes
        /\ s.reads \subseteq Together(S).reads /\ (s.opaque => Together(S).opaque)
    BY DEF Together
  <2>6. QED
    BY <2>2, <2>4, <2>5
<1>7. QED
  BY <1>1, <1>2, <1>3, <1>5, <1>6

\* A step of the running program keeps it; one of the resolution comes before any.
LEMMA ChainStep ==
  ASSUME ResolutionInvariant, ChainInv, [ResolveThenRun]_<<vars, exVars>>
  PROVE  ChainInv'
<1>1. ASSUME UNCHANGED <<vars, exVars>> PROVE ChainInv'
  BY <1>1 DEF vars, walkVars, exVars, ChainInv, Running, Resolved, EX!GeneratedBase, EX!Ancestor
<1>2. ASSUME Next, UNCHANGED exVars PROVE ChainInv'
  <2>1. ASSUME Running PROVE FALSE
    <3>1. Resolved /\ ResolutionInvariant
      BY <2>1 DEF ChainInv
    <3>2. merged = Len(program.units) /\ current = NoKey /\ todo = {} /\ stack = {} /\ resolving
      BY <3>1 DEF Resolved, ResolutionInvariant, WalkInvariant
    <3>3. \A n \in Units : results[n] # Unparsed
      BY <3>1, <3>2 DEF ResolutionInvariant, MergedInvariant, Units, TypeOK
    <3>4. ~ \E n \in Units : Parse(n)
      BY <3>3 DEF Parse
    <3>5. ~Merge
      <4>1. program \in Program /\ Len(program.units) \in Nat
        BY CppProgramAssumption DEF ResolutionInvariant, TypeOK, Program
      <4>2. ~(merged < Len(program.units))
        BY <3>2, <4>1
      <4>3. QED
        BY <4>2 DEF Merge
    <3>6. ~BuildFlowMap /\ ~FinishHandler /\ ~ \E k \in Key : StartHandler(k) \/ Visit(k)
      BY <3>2 DEF BuildFlowMap, FinishHandler, StartHandler, Visit
    <3>7. QED
      BY <1>2, <3>4, <3>5, <3>6 DEF Next
  <2>2. ~Running'
    BY <1>2, <2>1 DEF Running, exVars
  <2>3. QED
    BY <2>2 DEF ChainInv
<1>3. ASSUME Resolved, UNCHANGED vars, EX!ExNext PROVE ChainInv'
  <2>1. /\ methods = Methods(program) /\ program \in Program /\ resolving
        /\ methods' = methods /\ program' = program /\ Resolved'
    BY <1>3, AllMerged DEF Resolved, vars, walkVars
  <2>2. ASSUME NEW c \in Class, NEW entry \in Entry, EX!Invoke(c, entry) PROVE ChainInv'
    <3>1. PICK b \in EX!Bodies : /\ b.key = handler' /\ at' = b
                                 /\ through' = IF EX!Dropped(b) THEN "dropped" ELSE "plain"
      BY <2>2 DEF EX!Invoke
    <3>2. PICK n \in DOMAIN program.units : b \in program.units[n]
      BY <3>1, SameInExecution
    <3>3. handler' \in DOMAIN methods /\ handler'[2] = entry
      BY <2>1, <2>2, <3>1, <3>2, BodyFacts DEF EX!Invoke
    <3>4. handler' \in Handlers(methods')
      BY <2>1, <3>3 DEF Handlers
    <3>5. handler' \in Reached(methods', handler')
      BY <2>1, <3>3, ReachedContains
    <3>6. through' = "plain" => b \in program.units[LastDefinition(program, b.key)]
      BY <3>1, SameInExecution DEF EX!Dropped
    <3>7. EX!GeneratedBase(object)' # NoClass
      <4>1. EX!GeneratedBase(c) # NoClass /\ object' = c
        BY <2>2 DEF EX!Invoke
      <4>2. EX!GeneratedBase(object)' = EX!GeneratedBase(c)
        BY <2>1, <4>1 DEF EX!GeneratedBase, EX!Ancestor
      <4>3. QED
        BY <4>1, <4>2
    <3>8. through' # "unresolved"
      BY <3>1
    <3>9. QED
      BY <2>1, <3>1, <3>3, <3>4, <3>5, <3>6, <3>7, <3>8 DEF ChainInv
  <2>3. ASSUME at # NoBody, EX!CallFunction PROVE ChainInv'
    <3>1. PICK call \in at.calls : \E b \in EX!Entered(call) :
            /\ at' = b /\ UNCHANGED <<object, handler>>
            /\ through' = IF through = "plain" THEN EX!Step(call, b) ELSE through
      BY <2>3 DEF EX!CallFunction
    <3>2. PICK b \in EX!Entered(call) :
            /\ at' = b /\ UNCHANGED <<object, handler>>
            /\ through' = IF through = "plain" THEN EX!Step(call, b) ELSE through
      BY <3>1
    <3>3. /\ handler \in Handlers(methods) /\ EX!GeneratedBase(object) # NoClass
          /\ through = "plain" =>
               /\ at.key \in Reached(methods, handler) /\ at.key \in DOMAIN methods
               /\ at \in program.units[LastDefinition(program, at.key)]
          /\ through = "unresolved" =>
               \E k \in Reached(methods, handler) \cap DOMAIN methods : methods[k].facts.opaque
      BY <2>3 DEF ChainInv, Running
    <3>4. PICK n \in DOMAIN program.units : b \in program.units[n]
      BY <3>2, SameInExecution DEF EX!Entered
    <3>5. b.key \in DOMAIN methods
      BY <2>1, <3>4, BodyFacts
    <3>6. ASSUME through = "plain"
          PROVE  /\ Called(at) \subseteq Callees(methods, at.key)
                 /\ (\E c \in at.calls : c.how = "unresolved") => methods[at.key].facts.opaque
                 /\ at \in Body
      <4>1. LastDefinition(program, at.key) \in DOMAIN program.units
        <5>1. at.key \in Defined(program) /\ program.units \in Seq(SUBSET Body)
          BY <2>1, <3>3, <3>6 DEF Methods, Program
        <5>2. QED
          BY <5>1, LastDefinitionIsLast DEF DefinedIn
      <4>2. at \in program.units[LastDefinition(program, at.key)] /\ at.key \in DOMAIN methods
        BY <3>3, <3>6
      <4>3. QED
        BY <2>1, <4>1, <4>2, BodyFacts DEF Callees
    <3>7. ASSUME through' = "plain"
          PROVE  /\ b.key \in Reached(methods, handler)
                 /\ b \in program.units[LastDefinition(program, b.key)]
      <4>1. through = "plain" /\ EX!Step(call, b) = "plain"
        BY <3>2, <3>7
      <4>2. call.how \notin {"pointer", "unresolved"} /\ b.key = call.to /\ ~EX!Dropped(b)
        BY <4>1 DEF EX!Step
      <4>3. call.how \in {"method", "virtual"}
        BY <3>6, <4>1, <4>2 DEF Body, CallKind
      <4>4. b.key \in Called(at)
        BY <4>2, <4>3 DEF Called
      <4>5. b.key \in Reached(methods, handler)
        BY <3>3, <3>6, <4>1, <4>4, ReachedClosed
      <4>6. QED
        BY <4>2, <4>5, SameInExecution DEF EX!Dropped
    <3>8. ASSUME through' = "unresolved"
          PROVE  \E k \in Reached(methods, handler) \cap DOMAIN methods : methods[k].facts.opaque
      <4>1. CASE through = "plain"
        <5>1. call.how = "unresolved"
          BY <3>2, <3>8, <4>1 DEF EX!Step
        <5>2. methods[at.key].facts.opaque
          BY <3>6, <4>1, <5>1
        <5>3. QED
          BY <3>3, <4>1, <5>2
      <4>2. CASE through # "plain"
        BY <3>2, <3>3, <3>8, <4>2
      <4>3. QED
        BY <4>1, <4>2
    <3>9. EX!GeneratedBase(object)' = EX!GeneratedBase(object)
      BY <2>1, <3>2 DEF EX!GeneratedBase, EX!Ancestor
    <3>10. QED
      BY <2>1, <3>2, <3>3, <3>5, <3>7, <3>8, <3>9 DEF ChainInv
  <2>4. QED
    BY <1>3, <2>2, <2>3 DEF EX!ExNext
<1>4. QED
  BY <1>1, <1>2, <1>3 DEF ResolveThenRun

-----------------------------------------------------------------------------
(* The record that is looked up for what runs. *)

\* The handler of a class that is or directly extends the object's generated base is
\* filed under the object's component.
LEMMA DirectlyFiled ==
  ASSUME ResolutionInvariant, ChainInv, Running, Direct
  PROVE  Implements(component, handler[1]) = EX!Implemented(object)
<1> DEFINE base == EX!GeneratedBase(object)
<1>1. /\ base \in Generated /\ handler \in Handlers(methods)
      /\ component = ClassComponent(program) /\ methods = Methods(program)
  BY GeneratedBaseGenerated, AllMerged DEF ChainInv, Resolved
<1>2. CASE handler[1] = base
  BY <1>1, <1>2 DEF Implements, EX!Implemented
<1>3. CASE handler[1] \notin Generated /\ program.base[handler[1]] = base
  <2>1. PICK n \in DOMAIN program.units : handler \in Keys(program.units[n])
    BY <1>1 DEF Handlers, Methods, Defined
  <2>2. PICK b \in program.units[n] : b.key = handler
    BY <2>1 DEF Keys
  <2>3. b \in UNION {program.units[i] : i \in DOMAIN program.units} /\ b.key[1] = handler[1]
    BY <2>2
  <2>4. handler[1] \in Class
    BY <1>1 DEF ResolutionInvariant, TypeOK, Handlers, Key
  <2>5. /\ handler[1] \in DOMAIN component
        /\ component[handler[1]] = ComponentOf[program.base[handler[1]]]
    BY <1>1, <1>3, <2>3, <2>4 DEF ClassComponent, RecordBases
  <2>6. QED
    BY <1>3, <2>5 DEF Implements, EX!Implemented
<1>4. QED
  BY <1>2, <1>3 DEF Direct

\* Every record looked up holds the handler's own facts.
LEMMA LookedHolds ==
  ASSUME ResolutionInvariant, RecordsInv, ChainInv, Running, Direct \/ OnlyByName, NEW r \in Looked
  PROVE  Holds(r, Own(handler)) /\ ~r.opaque
<1> DEFINE c == EX!Implemented(object)
           tried == Suffixed[c]
<1>1. /\ resolving /\ todo = {} /\ current = NoKey
      /\ handler \in Handlers(methods) /\ handler \in Key /\ handler # NoKey
      /\ Filed(handler) \in DOMAIN flow /\ Holds(flow[Filed(handler)], Own(handler))
  <2>1. resolving /\ todo = {} /\ current = NoKey /\ handler \in Handlers(methods)
    BY DEF ChainInv, Resolved
  <2>2. handler \in Key /\ handler # NoKey
    BY <2>1, FlowResolutionAssumption DEF ResolutionInvariant, TypeOK, Handlers
  <2>3. QED
    BY <2>1, <2>2 DEF RecordsInv
<1>2. PICK l \in DOMAIN flow : r = flow[l] /\ l[1] \in RecordNames(c) /\ l[2] = handler[2] /\ ~r.opaque
  BY DEF Looked, Precise, Lookup
<1>3. PICK n \in DOMAIN tried :
        /\ l[1] = tried[n]
        /\ \A m \in DOMAIN tried : (\E x \in DOMAIN flow : x[1] = tried[m]) => n <= m
  BY <1>2 DEF RecordNames
<1>4. /\ c \in Component /\ tried \in Seq(Component) /\ tried[1] = c
      /\ DOMAIN tried = 1..Len(tried) /\ Len(tried) \in Nat /\ 1 \in DOMAIN tried
  <2>1. EX!GeneratedBase(object) \in Generated
    BY GeneratedBaseGenerated DEF ChainInv
  <2>2. c \in Component
    BY <2>1, CppProgramAssumption DEF EX!Implemented
  <2>3. tried \in Seq(Component) /\ tried # <<>> /\ tried[1] = c
    BY <2>2, FlowAtRuntimeAssumption
  <2>4. DOMAIN tried = 1..Len(tried) /\ Len(tried) \in Nat /\ Len(tried) # 0
    BY <2>3
  <2>5. 1 \in DOMAIN tried
    BY <2>4
  <2>6. QED
    BY <2>2, <2>3, <2>4, <2>5
<1>5. l = Filed(handler)
  <2>1. l \in Component \X Entry
    BY DEF ResolutionInvariant, TypeOK
  <2>2. Filed(handler) = <<Implements(component, handler[1]), handler[2]>>
    BY DEF Filed, Label
  <2>3. CASE Direct
    <3>1. Implements(component, handler[1]) = c
      BY <2>3, DirectlyFiled
    <3>2. Filed(handler)[1] = tried[1]
      BY <1>4, <2>2, <3>1
    <3>3. n <= 1
      BY <1>1, <1>3, <1>4, <3>2
    <3>4. n = 1
      BY <1>4, <3>3
    <3>5. l[1] = c
      BY <1>3, <1>4, <3>4
    <3>6. QED
      BY <1>2, <2>1, <2>2, <3>1, <3>5
  <2>4. CASE OnlyByName
    <3>1. PICK k \in Handlers(methods) : Filed(k) = l
      BY DEF RecordsInv
    <3>2. l = <<Implements(component, k[1]), k[2]>>
      BY <3>1 DEF Filed, Label
    <3>3. Implements(component, k[1]) \in {tried[m] : m \in DOMAIN tried}
      BY <1>3, <3>2
    <3>4. k[1] = handler[1]
      BY <2>4, <3>3 DEF OnlyByName
    <3>5. k[2] = handler[2]
      BY <1>2, <3>2
    <3>6. QED
      BY <2>2, <3>2, <3>4, <3>5
  <2>5. QED
    BY <2>3, <2>4
<1>6. QED
  BY <1>1, <1>2, <1>5

\* What is reached is in the facts put together.
LEMMA ReachedFacts ==
  ASSUME NEW M, NEW k, NEW j \in Reached(M, k) \cap DOMAIN M
  PROVE  LET f == FactsReached(M, k)
         IN  /\ M[j].facts.ports \subseteq f.ports /\ M[j].facts.writes \subseteq f.writes
             /\ M[j].facts.reads \subseteq f.reads /\ (M[j].facts.opaque => f.opaque)
<1>1. PICK S : S = {M[i].facts : i \in Reached(M, k) \cap DOMAIN M}
  OBVIOUS
<1>2. PICK g \in S : g = M[j].facts
  BY <1>1
<1>3. FactsReached(M, k) = Together(S)
  BY <1>1 DEF FactsReached
<1>4. /\ g.ports \subseteq Together(S).ports /\ g.writes \subseteq Together(S).writes
      /\ g.reads \subseteq Together(S).reads /\ (g.opaque => Together(S).opaque)
  BY DEF Together
<1>5. QED
  BY <1>2, <1>3, <1>4

\* ExecutionCovered always holds (port_flow.py:153, component_call_graph.py:1022): the
\* record looked up for a handler that runs has what it does along plain chains of
\* calls, and there is no precise one when it reaches a call that cannot be resolved.
THEOREM ExecutionCoveredHolds == DeploymentSpec => []ExecutionCovered
<1>1. ResolutionInit => ResolutionInvariant /\ RecordsInv /\ ChainInv
  <2> SUFFICES ASSUME ResolutionInit PROVE ResolutionInvariant /\ RecordsInv /\ ChainInv
    OBVIOUS
  <2>1. ResolutionInvariant
    BY InitType, InitMerged, InitWalk DEF ResolutionInit, ResolutionInvariant
  <2>2. RecordsInv
    BY DEF ResolutionInit, Init, RecordsInv
  <2>3. ChainInv
    BY DEF ResolutionInit, EX!ExInit, ChainInv, Running
  <2>4. QED
    BY <2>1, <2>2, <2>3
<1>2. /\ ResolutionInvariant /\ RecordsInv /\ ChainInv
      /\ [ResolveThenRun]_<<vars, exVars>>
      => (ResolutionInvariant /\ RecordsInv /\ ChainInv)'
  <2> SUFFICES ASSUME ResolutionInvariant, RecordsInv, ChainInv,
                      [ResolveThenRun]_<<vars, exVars>>
               PROVE  ResolutionInvariant' /\ RecordsInv' /\ ChainInv'
    OBVIOUS
  <2>1. [Next]_vars
    BY DEF ResolveThenRun
  <2>2. ResolutionInvariant'
    BY <2>1, TypeStep, MergedStep, WalkStep DEF ResolutionInvariant
  <2>3. RecordsInv'
    BY <2>1, RecordsStep DEF ResolutionInvariant
  <2>4. QED
    BY <2>2, <2>3, ChainStep
<1>3. ResolutionInvariant /\ RecordsInv /\ ChainInv => ExecutionCovered
  <2> SUFFICES ASSUME ResolutionInvariant, RecordsInv, ChainInv, Running, Direct \/ OnlyByName
               PROVE  /\ through = "plain" => PortsCovered /\ AccessesCovered
                      /\ through = "unresolved" => Looked = {}
    BY DEF ExecutionCovered
  <2>1. PICK f : f = FactsReached(methods, handler)
    OBVIOUS
  <2>2. /\ Own(handler).ports = f.ports /\ Own(handler).opaque = f.opaque
        /\ Own(handler).writes = {m \in f.writes : m[1] \in Owned(component, handler[1])}
        /\ Own(handler).reads = {m \in f.reads \ f.writes : m[1] \in Owned(component, handler[1])}
    BY <2>1 DEF Own, Record
  <2>3. ASSUME NEW r \in Looked
        PROVE  /\ f.ports \subseteq r.ports /\ ~f.opaque /\ ~r.opaque
               /\ \A m \in f.writes : m[1] \in Owned(component, handler[1]) => m \in r.writes
               /\ \A m \in f.reads : m[1] \in Owned(component, handler[1])
                                       => m \in r.reads \cup r.writes
    BY <2>2, LookedHolds DEF Holds
  <2>4. ASSUME through = "plain"
        PROVE  at.ports \subseteq f.ports /\ at.writes \subseteq f.writes /\ at.reads \subseteq f.reads
    <3>1. /\ at.key \in Reached(methods, handler) \cap DOMAIN methods
          /\ at \in program.units[LastDefinition(program, at.key)]
          /\ methods = Methods(program) /\ program \in Program
      BY <2>4, AllMerged DEF ChainInv, Resolved
    <3>2. LastDefinition(program, at.key) \in DOMAIN program.units
      <4>1. at.key \in Defined(program) /\ program.units \in Seq(SUBSET Body)
        BY <3>1 DEF Methods, Program
      <4>2. QED
        BY <4>1, LastDefinitionIsLast DEF DefinedIn
    <3>3. /\ at.ports \subseteq methods[at.key].facts.ports
          /\ at.writes \subseteq methods[at.key].facts.writes
          /\ at.reads \subseteq methods[at.key].facts.reads
      BY <3>1, <3>2, BodyFacts
    <3>4. /\ methods[at.key].facts.ports \subseteq f.ports
          /\ methods[at.key].facts.writes \subseteq f.writes
          /\ methods[at.key].facts.reads \subseteq f.reads
      BY <2>1, <3>1, ReachedFacts
    <3>5. QED
      BY <3>3, <3>4
  <2>5. through = "plain" => PortsCovered
    BY <2>3, <2>4 DEF PortsCovered
  <2>6. through = "plain" => AccessesCovered
    <3>1. PICK kept : kept = {handler[1]} \cup IF Direct THEN {EX!GeneratedBase(object)} ELSE {}
      OBVIOUS
    <3>2. kept \subseteq Owned(component, handler[1])
      <4>1. Direct => /\ EX!GeneratedBase(object) \in Generated
                      /\ ComponentOf[EX!GeneratedBase(object)] = Implements(component, handler[1])
        BY DirectlyFiled, GeneratedBaseGenerated DEF ChainInv, EX!Implemented
      <4>2. QED
        BY <3>1, <4>1 DEF Owned
    <3>3. ASSUME through = "plain", NEW r \in Looked
          PROVE  /\ \A m \in at.writes : m[1] \in kept => m \in r.writes
                 /\ \A m \in at.reads : m[1] \in kept => m \in r.reads \cup r.writes
      BY <2>3, <2>4, <3>2, <3>3
    <3>4. QED
      BY <3>1, <3>3 DEF AccessesCovered
  <2>7. through = "unresolved" => Looked = {}
    <3>1. ASSUME through = "unresolved" PROVE f.opaque
      <4>1. PICK k \in Reached(methods, handler) \cap DOMAIN methods : methods[k].facts.opaque
        BY <3>1 DEF ChainInv
      <4>2. QED
        BY <2>1, <4>1, ReachedFacts
    <3>2. QED
      BY <2>3, <3>1
  <2>8. QED
    BY <2>5, <2>6, <2>7
<1>4. QED
  BY <1>1, <1>2, <1>3, PTL DEF DeploymentSpec
=============================================================================
