------------------------ MODULE ThreadOriginsProofs ------------------------
(***************************************************************************)
(* Proofs about the thread-origin labels, for every set of topologies.     *)
(***************************************************************************)
EXTENDS ThreadOrigins, FprimeRuntimeProofs

-----------------------------------------------------------------------------
(* Type correctness. *)

\* Every step keeps the types.
LEMMA TypeStep ==
  ASSUME TypeOK, [Next]_vars
  PROVE  TypeOK'
<1> USE ThreadOriginsAssumption, TopologiesAssumption
<1>0. topo \in Topology /\ OriginSeeds(topo) \subseteq Seed
  BY OriginSeedsType DEF TypeOK
<1>1. ASSUME NEW p \in InPort, Query(p) PROVE TypeOK'
  BY <1>1 DEF Query, TypeOK
<1>2. ASSUME NEW s \in pending, StartOrigin(s) PROVE TypeOK'
  <2>1. s \in Seed /\ s \in OriginSeeds(topo) /\ s # NoSeed
    BY <1>0 DEF TypeOK
  <2>2. SeedHandlers(topo, s) \subseteq Handler
    BY <1>0, <2>1, FlowEntriesType DEF SeedHandlers, Seed
  <2>3. portThreads' \in [InPort -> SUBSET Origin]
    BY <1>2, <2>1 DEF StartOrigin, TypeOK, Seed
  <2>4. QED
    BY <1>2, <2>1, <2>2, <2>3 DEF StartOrigin, TypeOK
<1>3. ASSUME NEW h \in queue, SkipSeen(h) PROVE TypeOK'
  BY <1>3 DEF SkipSeen, TypeOK
<1>4. ASSUME NEW h \in queue, Expand(h) PROVE TypeOK'
  <2>1. seed \in Seed
    BY <1>0, <1>4 DEF TypeOK
  <2>2. portThreads' \in [InPort -> SUBSET Origin]
    BY <1>4, <2>1 DEF Expand, MayExpand, Label, Follow, TypeOK, Seed
  <2>3. h \in Handler /\ NextHandlers(topo, h) \subseteq Handler
    BY <1>0, HopsType DEF TypeOK
  <2>4. QED
    BY <1>4, <2>2, <2>3 DEF Expand, MayExpand, Label, Follow, TypeOK
<1>5. ASSUME NEW h \in queue, Raise(h) PROVE TypeOK'
  BY <1>5 DEF Raise, TypeOK
<1>6. CASE EndOrigin
  BY <1>6 DEF EndOrigin, TypeOK
<1>7. CASE Answer
  <2>1. asking \in InPort /\ LabelsOf(asking) \subseteq Origin \cup UnknownThread
    BY <1>7 DEF Answer, TypeOK, LabelsOf
  <2>2. answer' \in Returned
    BY <1>7, <2>1 DEF Answer, Returned
  <2>3. QED
    BY <1>7, <2>2 DEF Answer, TypeOK, originVars
<1>8. CASE UNCHANGED vars
  BY <1>8 DEF vars, originVars, TypeOK
<1>9. QED
  BY <1>1, <1>2, <1>3, <1>4, <1>5, <1>6, <1>7, <1>8 DEF Next, Compute

\* The variables of the flood keep their types under every topology: labels are
\* origins, the worklist holds handlers, a query returns origins or <unknown>.
THEOREM TypeCorrect == Spec => []TypeOK
<1> USE ThreadOriginsAssumption, TopologiesAssumption
<1>1. Init => TypeOK
  BY DEF Init, TypeOK
<1>2. TypeOK /\ [Next]_vars => TypeOK'
  BY TypeStep
<1>3. QED
  BY <1>1, <1>2, PTL DEF Spec

-----------------------------------------------------------------------------
(* What a query returns. *)

Inv == TypeOK /\ FloodInvariant /\ LabelsSound /\ AnswersExact

\* A flood whose worklist ran empty has labelled every port its origin reaches:
\* the expanded handlers are closed under calls, so they cover what is reached.
LEMMA FloodComplete ==
  ASSUME TypeOK, seed # NoSeed, queue = {},
         FloodExplored(SeedHandlers(topo, seed)), FloodLabelled
  PROVE  Flooded(seed)
<1> DEFINE H == SeedHandlers(topo, seed)
<1>1. topo \in Topology /\ seed \in OriginSeeds(topo) /\ seed \in Seed
  BY ThreadOriginsAssumption, TopologiesAssumption, OriginSeedsType DEF TypeOK
<1>2. H \subseteq Handler
  BY <1>1, FlowEntriesType DEF SeedHandlers, Seed
<1>3. ReachableFrom(topo, H) \subseteq seen
  BY <1>1, <1>2, ReachLeast DEF FloodExplored, TypeOK
<1>4. PortsReached(topo, seed) \subseteq
        {seed.port} \cup {hop.port : hop \in UNION {ThreadHops(topo, h) : h \in seen}}
  BY <1>3 DEF PortsReached
<1>5. QED
  BY <1>4 DEF Flooded, FloodLabelled

\* A step that keeps the topology and only adds labels keeps finished floods.
LEMMA FloodedMonotone ==
  ASSUME TypeOK, topo' = topo,
         \A p \in InPort : portThreads[p] \subseteq portThreads'[p],
         NEW s \in OriginSeeds(topo), Flooded(s)
  PROVE  Flooded(s)'
<1>1. PortsReached(topo, s) \subseteq InPort
  BY ThreadOriginsAssumption, TopologiesAssumption, ThreadsReachingDef DEF TypeOK
<1>2. QED
  BY <1>1 DEF Flooded

\* A label put on a port its origin reaches is a sound label.
LEMMA LabelReached ==
  ASSUME TypeOK, NEW s \in OriginSeeds(topo), NEW p \in PortsReached(topo, s)
  PROVE  p \in InPort /\ s.label \in ThreadsReaching(topo)[p]
BY ThreadOriginsAssumption, TopologiesAssumption, ThreadsReachingDef DEF TypeOK

\* The initial state satisfies the invariant: nothing is labelled yet.
LEMMA InvInit == Init => Inv
<1> SUFFICES ASSUME Init PROVE Inv
  OBVIOUS
<1>1. TypeOK
  BY ThreadOriginsAssumption, TopologiesAssumption DEF Init, TypeOK
<1>2. FloodInvariant
  BY DEF Init, FloodInvariant, CallState, Idle
<1>3. LabelsSound /\ AnswersExact
  BY DEF Init, LabelsSound, AnswersExact, AnswerExact
<1>4. QED
  BY <1>1, <1>2, <1>3 DEF Inv

\* Taking an origin from the pending ones starts an empty flood that has
\* labelled the seeding port.
LEMMA StartStep ==
  ASSUME Inv, NEW s \in pending, StartOrigin(s)
  PROVE  FloodInvariant' /\ LabelsSound'
<1> USE ThreadOriginsAssumption, TopologiesAssumption DEF Inv
<1>1. topo \in Topology /\ s \in OriginSeeds(topo) /\ s \in Seed /\ topo' = topo
  BY OriginSeedsType DEF TypeOK, StartOrigin
<1>2. SeedHandlers(topo, s) \subseteq Handler
  BY <1>1, FlowEntriesType DEF SeedHandlers, Seed
<1>3. FloodExplored(SeedHandlers(topo, seed))'
  BY <1>1, <1>2, ReachContains DEF FloodExplored, StartOrigin
<1>4. s.port \in InPort /\ portThreads'[s.port] = portThreads[s.port] \cup {s.label}
  BY <1>1 DEF StartOrigin, TypeOK, Seed
<1>5. FloodLabelled'
  BY <1>4 DEF FloodLabelled, StartOrigin
<1>6. \A p \in InPort : portThreads[p] \subseteq portThreads'[p]
  BY <1>4 DEF StartOrigin, TypeOK
<1>7. ASSUME computed', ~raised', NEW x \in OriginSeeds(topo) \ (pending' \cup {seed'})
      PROVE  Flooded(x)'
  <2>1. x \in OriginSeeds(topo) \ (pending \cup {seed})
    BY <1>7, <1>1, OriginSeedsType DEF StartOrigin
  <2>2. Flooded(x)
    BY <1>7, <2>1 DEF FloodInvariant, StartOrigin
  <2>3. QED
    BY <1>1, <1>6, <2>2, FloodedMonotone
<1>8. CallState'
  BY DEF CallState, StartOrigin, FloodInvariant, Idle
<1>9. FloodInvariant'
  BY <1>1, <1>3, <1>5, <1>7, <1>8 DEF FloodInvariant
<1>10. s.label \in ThreadsReaching(topo)[s.port]
  BY <1>1, LabelReached DEF PortsReached
<1>11. LabelsSound'
  BY <1>1, <1>4, <1>10 DEF LabelsSound, StartOrigin, TypeOK
<1>12. QED
  BY <1>9, <1>11

\* Expanding a handler that is reached labels ports that are reached, and
\* queues handlers that are reached.
LEMMA ExpandStep ==
  ASSUME Inv, NEW h \in queue, Expand(h)
  PROVE  FloodInvariant' /\ LabelsSound'
<1> USE ThreadOriginsAssumption, TopologiesAssumption DEF Inv
<1>1. topo \in Topology /\ seed # NoSeed /\ seed \in OriginSeeds(topo) /\ seed \in Seed
      /\ topo' = topo /\ seed' = seed
  BY OriginSeedsType DEF TypeOK, Expand, MayExpand, Label, Follow
<1> DEFINE H == SeedHandlers(topo, seed)
<1>2. H \subseteq Handler
  BY <1>1, FlowEntriesType DEF SeedHandlers, Seed
<1>3. h \in ReachableFrom(topo, H) /\ h \in Handler
  BY <1>1 DEF FloodInvariant, FloodExplored, TypeOK
<1>4. NextHandlers(topo, h) \subseteq ReachableFrom(topo, H)
  BY <1>1, <1>2, <1>3, ReachClosed
<1>5. FloodExplored(SeedHandlers(topo, seed))'
  BY <1>1, <1>3, <1>4 DEF FloodInvariant, FloodExplored, Expand, MayExpand, Label, Follow
<1>6. \A p \in InPort :
        portThreads'[p] = IF \E hop \in ThreadHops(topo, h) : hop.port = p
                          THEN portThreads[p] \cup {seed.label} ELSE portThreads[p]
  BY DEF Expand, MayExpand, Label, Follow
<1>7. \A p \in InPort : portThreads[p] \subseteq portThreads'[p]
  BY <1>6
<1>8. \A x \in Handler : \A hop \in ThreadHops(topo, x) : hop.port \in InPort
  BY <1>1, HopsType
<1>9. FloodLabelled'
  <2>1. seed.label \in portThreads'[seed.port]
    BY <1>1, <1>7 DEF FloodInvariant, FloodLabelled, Seed
  <2>2. \A x \in seen : \A hop \in ThreadHops(topo, x) : seed.label \in portThreads'[hop.port]
    <3>1. seen \subseteq Handler
      BY <1>1 DEF TypeOK
    <3>2. \A x \in seen : \A hop \in ThreadHops(topo, x) : seed.label \in portThreads[hop.port]
      BY <1>1 DEF FloodInvariant, FloodLabelled
    <3>3. QED
      BY <1>7, <1>8, <3>1, <3>2
  <2>3. ASSUME NEW hop \in ThreadHops(topo, h) PROVE seed.label \in portThreads'[hop.port]
    <3>1. hop.port \in InPort
      BY <1>3, <1>8
    <3>2. portThreads'[hop.port] = portThreads[hop.port] \cup {seed.label}
      BY ONLY <1>6, <3>1
    <3>3. QED
      BY ONLY <3>2
  <2>4. seen' = seen \cup {h}
    BY DEF Expand, MayExpand, Label, Follow
  <2>5. \A x \in seen' : \A hop \in ThreadHops(topo, x) : seed.label \in portThreads'[hop.port]
    BY ONLY <2>2, <2>3, <2>4
  <2>6. QED
    BY <1>1, <2>1, <2>5 DEF FloodLabelled
<1>10. ASSUME computed', ~raised', NEW x \in OriginSeeds(topo) \ (pending' \cup {seed'})
       PROVE  Flooded(x)'
  <2>1. Flooded(x)
    BY <1>1, <1>10 DEF FloodInvariant, Expand, MayExpand, Label, Follow
  <2>2. QED
    BY <1>1, <1>7, <2>1, FloodedMonotone
<1>11. CallState'
  BY <1>1 DEF CallState, Expand, MayExpand, Label, Follow, FloodInvariant, Idle
<1>12. FloodInvariant'
  BY <1>1, <1>5, <1>9, <1>10, <1>11 DEF FloodInvariant
<1>13. \A hop \in ThreadHops(topo, h) : seed.label \in ThreadsReaching(topo)[hop.port]
  <2>1. \A hop \in ThreadHops(topo, h) : hop.port \in PortsReached(topo, seed)
    BY <1>3 DEF PortsReached
  <2>2. QED
    BY <1>1, <2>1, LabelReached
<1>14. LabelsSound'
  <2>1. ASSUME NEW p \in InPort PROVE portThreads'[p] \subseteq ThreadsReaching(topo)[p]
    <3>1. portThreads[p] \subseteq ThreadsReaching(topo)[p]
      BY DEF LabelsSound
    <3>2. CASE \E hop \in ThreadHops(topo, h) : hop.port = p
      <4>1. seed.label \in ThreadsReaching(topo)[p]
        BY <1>13, <3>2
      <4>2. portThreads'[p] = portThreads[p] \cup {seed.label}
        BY <1>6, <3>2, Zenon
      <4>3. QED
        BY <3>1, <4>1, <4>2
    <3>3. CASE ~ \E hop \in ThreadHops(topo, h) : hop.port = p
      BY <1>6, <3>1, <3>3
    <3>4. QED
      BY <3>2, <3>3
  <2>2. QED
    BY <1>1, <2>1 DEF LabelsSound
<1>15. QED
  BY <1>12, <1>14

\* Every step keeps the invariant.
LEMMA InvStep ==
  ASSUME Inv, [Next]_vars
  PROVE  Inv'
<1> USE ThreadOriginsAssumption, TopologiesAssumption DEF Inv
<1>1. TypeOK'
  BY TypeStep
<1>2. ASSUME NEW p \in InPort, Query(p) PROVE Inv'
  <2>1. FloodInvariant'
    BY <1>2 DEF Query, FloodInvariant, CallState, Idle, FloodExplored, FloodLabelled, Flooded, TypeOK
  <2>2. LabelsSound' /\ AnswersExact'
    BY <1>2 DEF Query, LabelsSound, AnswersExact, AnswerExact
  <2>3. QED
    BY <1>1, <2>1, <2>2
<1>3. ASSUME NEW s \in pending, StartOrigin(s) PROVE Inv'
  <2>1. AnswersExact'
    BY <1>3 DEF StartOrigin, AnswersExact, AnswerExact
  <2>2. QED
    BY <1>1, <1>3, <2>1, StartStep
<1>4. ASSUME NEW h \in queue, SkipSeen(h) PROVE Inv'
  <2>1. FloodInvariant'
    BY <1>4 DEF SkipSeen, FloodInvariant, CallState, Idle, FloodExplored, FloodLabelled, Flooded, TypeOK
  <2>2. LabelsSound' /\ AnswersExact'
    BY <1>4 DEF SkipSeen, LabelsSound, AnswersExact, AnswerExact
  <2>3. QED
    BY <1>1, <2>1, <2>2
<1>5. ASSUME NEW h \in queue, Expand(h) PROVE Inv'
  <2>1. AnswersExact'
    BY <1>5 DEF Expand, MayExpand, Label, Follow, AnswersExact, AnswerExact
  <2>2. QED
    BY <1>1, <1>5, <2>1, ExpandStep
<1>6. ASSUME NEW h \in queue, Raise(h) PROVE Inv'
  <2>1. FloodInvariant' /\ AnswersExact'
    BY <1>6 DEF Raise, FloodInvariant, CallState, Idle, AnswersExact, TypeOK
  <2>2. LabelsSound'
    BY <1>6 DEF Raise, LabelsSound
  <2>3. QED
    BY <1>1, <2>1, <2>2
<1>7. ASSUME EndOrigin PROVE Inv'
  <2>1. Flooded(seed)
    BY <1>7, FloodComplete DEF EndOrigin, FloodInvariant
  <2>2. \A x \in OriginSeeds(topo) : Flooded(x) => Flooded(x)'
    BY <1>7 DEF EndOrigin, Flooded
  <2>3. FloodInvariant'
    BY <1>7, <2>1, <2>2 DEF EndOrigin, FloodInvariant, CallState, Idle
  <2>4. LabelsSound' /\ AnswersExact'
    BY <1>7 DEF EndOrigin, LabelsSound, AnswersExact, AnswerExact
  <2>5. QED
    BY <1>1, <2>3, <2>4
<1>8. ASSUME Answer PROVE Inv'
  <2>1. asking \in InPort /\ computed /\ Idle
    BY <1>8 DEF Answer, TypeOK, FloodInvariant, CallState
  <2>2. FloodInvariant'
    BY <1>8, <2>1 DEF Answer, FloodInvariant, CallState, Idle, Flooded, originVars
  <2>3. LabelsSound'
    BY <1>8 DEF Answer, LabelsSound, originVars
  <2>4. ASSUME ~raised PROVE portThreads[asking] = ThreadsReaching(topo)[asking]
    <3>1. topo \in Topology /\ NoSeed \notin OriginSeeds(topo)
      BY OriginSeedsType DEF TypeOK
    <3>2. \A x \in OriginSeeds(topo) : Flooded(x)
      BY <2>1, <2>4, <3>1 DEF FloodInvariant, Idle
    <3>3. ThreadsReaching(topo)[asking] \subseteq portThreads[asking]
      BY <2>1, <3>1, <3>2, ThreadsReachingDef DEF Flooded
    <3>4. portThreads[asking] \subseteq ThreadsReaching(topo)[asking]
      BY <2>1 DEF LabelsSound
    <3>5. QED
      BY <3>3, <3>4
  <2>5. AnswersExact'
    BY <1>8, <2>1, <2>4 DEF Answer, AnswersExact, AnswerExact, LabelsOf, ThreadsAt
  <2>6. QED
    BY <1>1, <2>2, <2>3, <2>5
<1>9. ASSUME UNCHANGED vars PROVE Inv'
  <2>1. FloodInvariant'
    BY <1>9 DEF vars, originVars, FloodInvariant, CallState, Idle, FloodExplored, FloodLabelled, Flooded
  <2>2. LabelsSound' /\ AnswersExact'
    BY <1>9 DEF vars, originVars, LabelsSound, AnswersExact, AnswerExact
  <2>3. QED
    BY <1>1, <2>1, <2>2
<1>10. QED
  BY <1>2, <1>3, <1>4, <1>5, <1>6, <1>7, <1>8, <1>9 DEF Next, Compute

\* The loop invariant of the flood holds throughout.
THEOREM FloodInvariantHolds == Spec => []FloodInvariant
<1>1. Inv /\ [Next]_vars => Inv'
  BY InvStep
<1>2. Inv => FloodInvariant
  BY DEF Inv
<1>3. QED
  BY InvInit, <1>1, <1>2, PTL DEF Spec

\* No analysis ever sees a thread on a port that cannot run it, not even after
\* an exception cut the computation short.
THEOREM LabelsAreSound == Spec => []LabelsSound
<1>1. Inv /\ [Next]_vars => Inv'
  BY InvStep
<1>2. Inv => LabelsSound
  BY DEF Inv
<1>3. QED
  BY InvInit, <1>1, <1>2, PTL DEF Spec

\* As long as no query raised, a query returns exactly the origins that reach
\* the port, for every topology and every order of the worklists.
THEOREM AnswersAreExact == Spec => []AnswersExact
<1>1. Inv /\ [Next]_vars => Inv'
  BY InvStep
<1>2. Inv => AnswersExact
  BY DEF Inv
<1>3. QED
  BY InvInit, <1>1, <1>2, PTL DEF Spec

\* A permissive flow map never raises, so there every answer is exact.
THEOREM PermissiveAnswersExact ==
  ASSUME \A t \in Topologies : ~t.strict PROVE Spec => []EveryAnswerExact
<1>1. Init => ~raised
  BY DEF Init
<1>2. TypeOK /\ ~raised /\ [Next]_vars => ~raised'
  BY DEF Next, Compute, Query, StartOrigin, SkipSeen, Expand, MayExpand, Label, Follow, Raise, EndOrigin, Answer,
         Unresolved, vars, originVars, TypeOK
<1>3. Spec => []AnswersExact /\ []TypeOK
  BY AnswersAreExact, TypeCorrect
<1>4. AnswersExact /\ ~raised => EveryAnswerExact
  BY DEF AnswersExact, EveryAnswerExact
<1>5. QED
  BY <1>1, <1>2, <1>3, <1>4, PTL DEF Spec
=============================================================================
