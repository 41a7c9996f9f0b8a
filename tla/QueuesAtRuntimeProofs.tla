------------------------ MODULE QueuesAtRuntimeProofs ------------------------
(***************************************************************************)
(* Proofs about the async queue analyzer and the deployment it speaks      *)
(* about, for every topology and every input: the priorities it gives the  *)
(* threads that drain and feed queues are theirs, the rates it reports are *)
(* those of the ticks, and the postings it warns of are the ones that the  *)
(* running threads make.                                                   *)
(***************************************************************************)
EXTENDS QueuesAtRuntime, FprimeRuntimeProofs

-----------------------------------------------------------------------------
(* Who drains a queued instance, in the end. *)

\* The next instance on the way to who drains an instance.
DrainStep == [i \in Instance |-> IF Drained(i) THEN DrainCaller(i) ELSE i]

\* Who drains an instance is an instance.
LEMMA DrainCallerType ==
  ASSUME topo \in Topology, NEW i \in Instance, Drained(i)
  PROVE  FirstDrain(i) \in DrainOutputs(i) /\ DrainCaller(i) \in Instance
<1>1. DrainOutputs(i) # {}
  BY DEF Drained, FirstDrain
<1>2. FirstDrain(i) \in DrainOutputs(i)
  BY <1>1 DEF FirstDrain
<1>3. FirstDrain(i) \in OutPort
  BY <1>2 DEF DrainOutputs
<1>4. QED
  BY <1>2, <1>3 DEF DrainCaller, Topology

LEMMA DrainStepType ==
  ASSUME topo \in Topology
  PROVE  DrainStep \in [Instance -> Instance]
BY DrainCallerType DEF DrainStep

\* The instances on that way.
LEMMA DrainWay ==
  ASSUME topo \in Topology, NEW i \in Instance, NEW n \in Nat
  PROVE  \E f \in [0..n -> Instance] : f[0] = i /\ \A k \in 1..n : f[k] = DrainStep[f[k - 1]]
<1> DEFINE Iterated(m) == \E f \in [0..m -> Instance] :
             f[0] = i /\ \A k \in 1..m : f[k] = DrainStep[f[k - 1]]
           Have == {m \in 0..n : Iterated(m)}
<1>1. 0 \in Have
  <2>1. [k \in 0..0 |-> i] \in [0..0 -> Instance] /\ 0 \in 0..0 /\ 1..0 = {}
    OBVIOUS
  <2>2. Iterated(0)
    BY <2>1
  <2>3. QED
    BY <2>2
<1>2. ASSUME NEW m \in 0..(n - 1), m \in Have PROVE m + 1 \in Have
  <2>1. PICK f \in [0..m -> Instance] : f[0] = i /\ \A k \in 1..m : f[k] = DrainStep[f[k - 1]]
    BY <1>2
  <2> DEFINE g == [k \in 0..(m + 1) |-> IF k <= m THEN f[k] ELSE DrainStep[f[m]]]
  <2>2. m \in 0..m /\ DrainStep[f[m]] \in Instance /\ \A k \in 0..(m + 1) : k <= m => k \in 0..m
    BY <2>1, DrainStepType
  <2>3. g \in [0..(m + 1) -> Instance]
    BY <2>2
  <2>4. g[0] = i
    BY <2>1
  <2>5. ASSUME NEW k \in 1..(m + 1) PROVE g[k] = DrainStep[g[k - 1]]
    <3>1. g[k - 1] = f[k - 1]
      OBVIOUS
    <3>2. CASE k <= m
      BY <2>1, <3>1, <3>2
    <3>3. CASE ~(k <= m)
      <4>1. k - 1 = m
        BY <3>3
      <4>2. QED
        BY <3>1, <3>3, <4>1
    <3>4. QED
      BY <3>2, <3>3
  <2>6. Iterated(m + 1)
    BY <2>3, <2>4, <2>5
  <2>7. QED
    BY <2>6
<1> HIDE DEF Have
<1>3. \A m \in 0..n : m \in Have
  BY ONLY n \in Nat, <1>1, <1>2, Climb
<1>4. n \in Have
  BY <1>3
<1>5. QED
  BY <1>4 DEF Have

\* The end of the drains of an instance, in terms of such steps.
LEMMA DrainEndIs ==
  ASSUME topo \in Topology, NEW n \in Nat, Cardinality(Instance) <= n,
         NEW f \in [0..n -> Instance], \A k \in 1..n : f[k] = DrainStep[f[k - 1]]
  PROVE  DrainEnd(f[0]) = f[Cardinality(Instance)]
<1> DEFINE N == Cardinality(Instance)
           G(g) == [k \in 0..N |-> IF k = 0 THEN f[0]
                                   ELSE LET last == g[k - 1]
                                        IN  IF Drained(last) THEN DrainCaller(last) ELSE last]
           F == CHOOSE g : g = G(g)
<1>1. N \in Nat
  BY NamesAssumption, FS_CardinalityType
<1>2. DrainEnd(f[0]) = F[N]
  BY DEF DrainEnd
<1>3. F = G(F)
  <2> DEFINE h == [k \in 0..N |-> f[k]]
  <2>1. ASSUME NEW k \in 0..N, k # 0
        PROVE  f[k] = LET last == h[k - 1] IN IF Drained(last) THEN DrainCaller(last) ELSE last
    <3>1. k \in 1..n /\ k - 1 \in 0..N /\ k - 1 \in 0..n
      BY <1>1, <2>1
    <3>2. f[k] = DrainStep[f[k - 1]] /\ h[k - 1] = f[k - 1] /\ f[k - 1] \in Instance
      BY <3>1
    <3>3. QED
      BY <3>2 DEF DrainStep
  <2>2. h = G(h)
    BY <2>1
  <2> HIDE DEF h, G
  <2>3. QED
    BY <2>2
<1> HIDE DEF F, G
<1> DEFINE Same == {k \in 0..N : F[k] = f[k]}
<1>4. 0 \in Same
  <2>1. F[0] = f[0]
    BY <1>1, <1>3 DEF G
  <2>2. QED
    BY <1>1, <2>1
<1>5. ASSUME NEW k \in 0..(N - 1), k \in Same PROVE k + 1 \in Same
  <2>1. /\ k + 1 \in 0..N /\ k + 1 # 0 /\ (k + 1) - 1 = k /\ k + 1 \in 1..n /\ k \in 0..n
    BY <1>1
  <2>2. F[k + 1] = IF Drained(F[k]) THEN DrainCaller(F[k]) ELSE F[k]
    BY ONLY <1>3, <2>1 DEF G
  <2>3. f[k + 1] = DrainStep[f[k]] /\ f[k] \in Instance
    BY <2>1
  <2>4. F[k + 1] = f[k + 1]
    BY <1>5, <2>2, <2>3 DEF DrainStep
  <2>5. QED
    BY <2>1, <2>4
<1> HIDE DEF Same, N
<1>6. \A k \in 0..N : k \in Same
  BY ONLY <1>1, <1>4, <1>5, Climb
<1>7. N \in Same
  BY <1>1, <1>6
<1>8. QED
  BY <1>2, <1>7 DEF Same, N

\* The priority at the end of the drains: that of an active instance, or none.
EndPriority(i) ==
  IF topo.component[DrainEnd(i)] = "active" THEN facts.priority[DrainEnd(i)] ELSE None

\* An instance that nothing drains is the end itself.
LEMMA EndUndrained ==
  ASSUME topo \in Topology, NEW i \in Instance, ~Drained(i)
  PROVE  DrainEnd(i) = i
<1> DEFINE N == Cardinality(Instance)
<1>1. N \in Nat
  BY NamesAssumption, FS_CardinalityType
<1>2. PICK f : f = [k \in 0..N |-> i]
  OBVIOUS
<1>3. f \in [0..N -> Instance] /\ f[0] = i /\ f[N] = i
  BY <1>1, <1>2
<1>4. \A k \in 1..N : f[k] = DrainStep[f[k - 1]]
  BY <1>1, <1>2 DEF DrainStep
<1>5. QED
  BY <1>1, <1>3, <1>4, DrainEndIs

\* Instances that are drained by each other only have no active one at the end.
LEMMA EndOfCycle ==
  ASSUME topo \in Topology, NEW C \in SUBSET Instance,
         \A x \in C : Drained(x) /\ DrainCaller(x) \in C, NEW i \in C
  PROVE  EndPriority(i) = None
<1> DEFINE N == Cardinality(Instance)
<1>1. N \in Nat
  BY NamesAssumption, FS_CardinalityType
<1>2. PICK f \in [0..N -> Instance] : f[0] = i /\ \A k \in 1..N : f[k] = DrainStep[f[k - 1]]
  BY <1>1, DrainWay
<1>3. DrainEnd(i) = f[N]
  BY <1>1, <1>2, DrainEndIs
<1> DEFINE In == {k \in 0..N : f[k] \in C}
<1>4. 0 \in In
  BY <1>1, <1>2
<1>5. ASSUME NEW k \in 0..(N - 1), k \in In PROVE k + 1 \in In
  <2>1. k + 1 \in 0..N /\ k + 1 \in 1..N /\ (k + 1) - 1 = k
    BY <1>1
  <2>2. f[k + 1] = DrainStep[f[k]] /\ f[k] \in C
    BY <1>2, <1>5, <2>1
  <2>3. QED
    BY <2>1, <2>2 DEF DrainStep
<1> HIDE DEF In, N
<1>6. \A k \in 0..N : k \in In
  BY ONLY <1>1, <1>4, <1>5, Climb
<1>7. f[N] \in C
  BY <1>1, <1>6 DEF In
<1>8. topo.component[DrainEnd(i)] = "queued"
  BY <1>3, <1>7 DEF Drained
<1>9. QED
  BY <1>8 DEF EndPriority

\* A drained instance has the priority of its caller.
LEMMA EndOfCaller ==
  ASSUME topo \in Topology, NEW i \in Instance, Drained(i)
  PROVE  EndPriority(DrainCaller(i)) = EndPriority(i)
<1> DEFINE N == Cardinality(Instance)
<1>1. N \in Nat /\ N + 1 \in Nat
  BY NamesAssumption, FS_CardinalityType
<1>2. PICK f \in [0..(N + 1) -> Instance] :
        f[0] = i /\ \A k \in 1..(N + 1) : f[k] = DrainStep[f[k - 1]]
  BY <1>1, DrainWay
<1>3. DrainEnd(i) = f[N]
  <2>1. N <= N + 1
    BY <1>1
  <2>2. QED
    BY <1>1, <1>2, <2>1, DrainEndIs
<1>4. DrainEnd(DrainCaller(i)) = f[N + 1]
  <2>1. PICK g : g = [k \in 0..N |-> f[k + 1]]
    OBVIOUS
  <2>2. \A k \in 0..N : k + 1 \in 0..(N + 1)
    BY <1>1
  <2>3. g \in [0..N -> Instance] /\ g[N] = f[N + 1]
    BY <1>1, <1>2, <2>1, <2>2
  <2>4. ASSUME NEW k \in 1..N PROVE g[k] = DrainStep[g[k - 1]]
    <3>1. k \in 0..N /\ k - 1 \in 0..N /\ k + 1 \in 1..(N + 1) /\ (k + 1) - 1 = k /\ (k - 1) + 1 = k
      BY <1>1
    <3>2. QED
      BY <1>2, <2>1, <3>1
  <2>5. g[0] = DrainCaller(i)
    <3>1. 0 \in 0..N /\ 1 \in 1..(N + 1) /\ 0 + 1 = 1 /\ 1 - 1 = 0
      BY <1>1
    <3>2. QED
      BY <1>2, <2>1, <3>1 DEF DrainStep
  <2>6. N <= N
    BY <1>1
  <2>7. DrainEnd(g[0]) = g[N]
    BY <1>1, <2>3, <2>4, <2>6, DrainEndIs
  <2>8. QED
    BY <2>3, <2>5, <2>7
<1>5. f[N] \in Instance /\ f[N + 1] = DrainStep[f[N]]
  BY <1>1, <1>2
<1>6. CASE ~Drained(f[N])
  BY <1>3, <1>4, <1>5, <1>6 DEF DrainStep, EndPriority
<1>7. CASE Drained(f[N])
  <2>1. ASSUME NEW m \in 0..N PROVE Drained(f[m])
    <3> SUFFICES ASSUME ~Drained(f[m]) PROVE FALSE
      OBVIOUS
    <3> DEFINE Stays == {k \in 0..N : f[k] = f[m]}
    <3>1. m \in Stays
      OBVIOUS
    <3>2. ASSUME NEW k \in m..(N - 1), k \in Stays PROVE k + 1 \in Stays
      <4>1. k + 1 \in 0..N /\ k + 1 \in 1..(N + 1) /\ (k + 1) - 1 = k /\ m \in 0..(N + 1)
        BY <1>1
      <4>2. f[k + 1] = DrainStep[f[m]] /\ f[m] \in Instance
        BY <1>2, <3>2, <4>1
      <4>3. QED
        BY <4>1, <4>2 DEF DrainStep
    <3>3. m \in Nat
      OBVIOUS
    <3> HIDE DEF Stays, N
    <3>4. \A k \in m..N : k \in Stays
      BY ONLY <1>1, <3>1, <3>2, <3>3, Climb
    <3>5. N \in Stays
      BY <1>1, <3>4
    <3>6. QED
      BY <1>7, <3>5 DEF Stays
  <2>2. PICK a \in 0..N, b \in 0..N : a < b /\ f[a] = f[b]
    <3>1. IsFiniteSet(0..N) /\ Cardinality(0..N) = N + 1
      BY <1>1, FS_Interval
    <3>2. PICK g : g = [k \in 0..N |-> f[k]]
      OBVIOUS
    <3>3. \A k \in 0..N : k \in 0..(N + 1)
      BY <1>1
    <3>4. g \in [0..N -> Instance]
      BY <1>2, <3>2, <3>3
    <3>5. \E x, y \in 0..N : x # y /\ g[x] = g[y]
      BY <1>1, <3>1, <3>4, NamesAssumption, FS_PigeonHole
    <3>6. PICK x \in 0..N, y \in 0..N : x # y /\ f[x] = f[y]
      BY <3>2, <3>5
    <3>7. x < y \/ y < x
      BY <3>6
    <3>8. QED
      BY <3>6, <3>7
  <2> DEFINE Back == {k \in 0..(N + 1) : \E j \in a..(b - 1) : f[k] = f[j]}
  <2>3. b \in Back
    BY <1>1, <2>2
  <2>4. ASSUME NEW k \in b..((N + 1) - 1), k \in Back PROVE k + 1 \in Back
    <3>1. PICK j \in a..(b - 1) : f[k] = f[j]
      BY <2>4
    <3>2. /\ k + 1 \in 0..(N + 1) /\ k + 1 \in 1..(N + 1) /\ (k + 1) - 1 = k
          /\ j + 1 \in 1..(N + 1) /\ (j + 1) - 1 = j /\ (j + 1 \in a..(b - 1) \/ j + 1 = b)
          /\ a \in a..(b - 1)
      BY <1>1, <2>2
    <3>3. f[k + 1] = f[j + 1]
      BY <1>2, <3>1, <3>2
    <3>4. QED
      BY <2>2, <3>2, <3>3
  <2>5. b \in Nat
    OBVIOUS
  <2> HIDE DEF Back, N
  <2>6. \A k \in b..(N + 1) : k \in Back
    BY ONLY <1>1, <2>3, <2>4, <2>5, Climb
  <2>7. N + 1 \in Back
    BY <1>1, <2>6
  <2>8. PICK j \in a..(b - 1) : f[N + 1] = f[j]
    BY <2>7 DEF Back
  <2>9. j \in 0..N
    BY <1>1, <2>2
  <2>10. Drained(f[N + 1])
    BY <2>1, <2>8, <2>9
  <2>11. QED
    BY <1>3, <1>4, <1>7, <2>10 DEF Drained, EndPriority, N
<1>8. QED
  BY <1>6, <1>7

-----------------------------------------------------------------------------
(* What the analyzer knows of threads. *)

\* The instances of the recursion drain each other in a row.
Recursing ==
  \A k \in 1..(Len(visiting) - 1) : Drained(visiting[k]) /\ visiting[k + 1] = DrainCaller(visiting[k])

\* What the cache holds is right, and holds what was asked for on the way.
CacheExact ==
  \A i \in Instance : cache[i] # None =>
    /\ cache[i].kind = topo.component[i] /\ cache[i].priority = EndPriority(i)
    /\ Drained(i) => cache[DrainCaller(i)] # None \/ Visited(DrainCaller(i))

\* The ends of a connection, once they are no longer asked for, are in the cache.
EndsCached(c) == \A n \in {1, 2} : cache[topo.owner[c[n]]] # None

QueriesOpen ==
  /\ visiting # <<>> => asking # <<>>
  /\ asking # <<>> => status = "analyzing" /\ current # None
  /\ current # None => \A n \in {1, 2} :
       \/ cache[topo.owner[current[n]]] # None
       \/ \E k \in 1..Len(asking) : asking[k] = topo.owner[current[n]]

Connections == QueueConnections(topo)
Done == Connections \ (todo \cup {current})

ThreadType ==
  /\ topo \in Topology /\ facts \in Fact
  /\ todo \subseteq Connections /\ current \in Optional(Connections) \ todo
  /\ asking \in Seq(Instance) /\ visiting \in Seq(Instance)
  /\ cache \in [Instance -> Optional(ThreadInfo)]

ThreadInv == ThreadType /\ Recursing /\ CacheExact /\ QueriesOpen

\* The topology decides who drains whom.
LEMMA SameDrains ==
  ASSUME UNCHANGED <<topo, facts>>
  PROVE  /\ Connections' = Connections
         /\ \A i : /\ Drained(i)' <=> Drained(i)
                   /\ DrainCaller(i)' = DrainCaller(i) /\ EndPriority(i)' = EndPriority(i)
<1>1. \A i : FirstDrain(i)' = FirstDrain(i)
  BY DEF FirstDrain, DrainOutputs
<1>2. \A i : Drained(i)' <=> Drained(i)
  BY <1>1 DEF Drained
<1>3. \A i : DrainCaller(i)' = DrainCaller(i)
  BY <1>1 DEF DrainCaller
<1>4. \A i : DrainEnd(i)' = DrainEnd(i)
  BY <1>2, <1>3 DEF DrainEnd
<1>5. \A i : EndPriority(i)' = EndPriority(i)
  BY <1>4 DEF EndPriority
<1>6. Connections' = Connections
  BY DEF Connections
<1>7. QED
  BY <1>2, <1>3, <1>5, <1>6

\* No value is None.
LEMMA NoneApart ==
  /\ None \notin Nat /\ None \notin Instance /\ None \notin OutPort /\ None \notin DividerSet
  /\ None \notin Seq(Int) /\ None \notin ThreadInfo /\ None \notin Connections
<1>1. Connections \subseteq Connection
  BY DEF Connections, QueueConnections
<1>2. QED
  BY <1>1, RateGroupsAssumption, AsyncQueueAssumption

\* The ends of a connection, and their instances.
LEMMA ConnectionEnds ==
  ASSUME topo \in Topology, NEW c \in Connections
  PROVE  /\ c[1] \in OutPort /\ c[2] \in InPort /\ c[2] \in topo.wires[c[1]] /\ c = <<c[1], c[2]>>
         /\ "async" \in InputSyncKinds(topo, c[2])
         /\ topo.owner[c[1]] \in Instance /\ topo.owner[c[2]] \in Instance
<1>1. c \in Connection /\ c[2] \in topo.wires[c[1]] /\ "async" \in InputSyncKinds(topo, c[2])
  BY DEF Connections, QueueConnections
<1>2. c[1] \in OutPort /\ c[2] \in InPort /\ c = <<c[1], c[2]>>
  BY <1>1 DEF Connection
<1>3. topo.owner \in [Handler \cup OutPort -> Instance]
  BY DEF Topology
<1>4. QED
  BY <1>1, <1>2, <1>3 DEF Handler

\* What concerns threads is kept while they and the connection looked at stay.
LEMMA ThreadStays ==
  ASSUME ThreadInv, UNCHANGED <<topo, facts, todo, current, threadVars>>,
         asking # <<>> => status' = status
  PROVE  ThreadInv'
<1>1. ThreadType'
  BY SameDrains DEF ThreadInv, ThreadType, threadVars
<1>2. Recursing'
  BY SameDrains DEF ThreadInv, Recursing, threadVars
<1>3. CacheExact'
  BY SameDrains DEF ThreadInv, CacheExact, threadVars, Visited
<1>4. QueriesOpen'
  BY DEF ThreadInv, QueriesOpen, threadVars
<1>5. QED
  BY <1>1, <1>2, <1>3, <1>4 DEF ThreadInv

LEMMA ThreadInit ==
  ASSUME Init
  PROVE  ThreadInv
<1>1. topo \in Topology /\ facts \in Fact
  BY TopologiesAssumption, AsyncQueueAssumption DEF Init, RateInit
<1>2. todo = Connections /\ current = None /\ current \notin todo
  BY NoneApart DEF Init, Connections
<1>3. /\ asking = <<>> /\ visiting = <<>> /\ asking \in Seq(Instance) /\ visiting \in Seq(Instance)
      /\ Len(visiting) = 0
  BY DEF Init
<1>4. /\ cache = [i \in Instance |-> None] /\ None \in Optional(ThreadInfo)
      /\ \A i \in Instance : cache[i] = None
  BY DEF Init, Optional
<1>5. QED
  BY <1>1, <1>2, <1>3, <1>4 DEF ThreadInv, ThreadType, Recursing, CacheExact, QueriesOpen, Optional

LEMMA TakeKeeps ==
  ASSUME ThreadInv, Take
  PROVE  ThreadInv'
<1>1. PICK c \in todo : /\ current' = c /\ todo' = todo \ {c}
                        /\ asking' = <<topo.owner[c[2]], topo.owner[c[1]]>>
  BY DEF Take
<1>2. UNCHANGED <<topo, facts, visiting, cache, status>> /\ status = "analyzing" /\ current = None
  BY DEF Take, inputVars
<1>3. asking = <<>> /\ visiting = <<>>
  BY <1>2 DEF ThreadInv, QueriesOpen
<1>4. c \in Connections /\ topo \in Topology
  BY DEF ThreadInv, ThreadType
<1>5. topo.owner[c[1]] \in Instance /\ topo.owner[c[2]] \in Instance /\ c # None
  BY <1>4, ConnectionEnds, NoneApart
<1>6. /\ asking' \in Seq(Instance) /\ asking' # <<>> /\ Len(asking') = 2
      /\ asking'[1] = topo.owner[c[2]] /\ asking'[2] = topo.owner[c[1]]
  BY <1>1, <1>5
<1>7. ThreadType'
  BY <1>1, <1>2, <1>4, <1>6, SameDrains DEF ThreadInv, ThreadType, Optional
<1>8. Recursing' /\ CacheExact'
  BY <1>2, SameDrains DEF ThreadInv, Recursing, CacheExact, Visited
<1>9. QueriesOpen'
  <2>1. 1 \in 1..Len(asking') /\ 2 \in 1..Len(asking')
    BY <1>6
  <2>2. \A n \in {1, 2} : \E k \in 1..Len(asking') : asking'[k] = topo'.owner[current'[n]]
    BY <1>1, <1>2, <1>6, <2>1
  <2>3. QED
    BY <1>1, <1>2, <1>3, <1>5, <1>6, <2>2 DEF QueriesOpen
<1>10. QED
  BY <1>7, <1>8, <1>9 DEF ThreadInv

LEMMA RecallKeeps ==
  ASSUME ThreadInv, Recall
  PROVE  ThreadInv'
<1>1. /\ asking # <<>> /\ visiting = <<>> /\ cache[Head(asking)] # None /\ asking' = Tail(asking)
      /\ UNCHANGED <<topo, facts, todo, current, visiting, cache, status>>
  BY DEF Recall, inputVars
<1>2. asking \in Seq(Instance)
  BY DEF ThreadInv, ThreadType
<1>3. /\ asking' \in Seq(Instance) /\ Len(asking') = Len(asking) - 1 /\ Len(asking) \in Nat
      /\ Head(asking) = asking[1]
      /\ \A k \in 1..(Len(asking) - 1) : asking'[k] = asking[k + 1]
  BY <1>1, <1>2
<1>4. ThreadType'
  BY <1>1, <1>3, SameDrains DEF ThreadInv, ThreadType
<1>5. Recursing' /\ CacheExact'
  BY <1>1, SameDrains DEF ThreadInv, Recursing, CacheExact, Visited
<1>6. ASSUME current # None, NEW n \in {1, 2}, cache[topo.owner[current[n]]] = None
      PROVE  \E k \in 1..Len(asking') : asking'[k] = topo.owner[current[n]]
  <2>1. PICK k \in 1..Len(asking) : asking[k] = topo.owner[current[n]]
    BY <1>6 DEF ThreadInv, QueriesOpen
  <2>2. k # 1
    BY <1>1, <1>3, <1>6, <2>1
  <2>3. k - 1 \in 1..(Len(asking) - 1) /\ (k - 1) + 1 = k
    BY <1>3, <2>2
  <2>4. QED
    BY <1>3, <2>1, <2>3
<1>7. asking' # <<>> => status' = "analyzing" /\ current' # None
  BY <1>1 DEF ThreadInv, QueriesOpen
<1>8. QueriesOpen'
  BY <1>1, <1>6, <1>7 DEF QueriesOpen
<1>9. QED
  BY <1>4, <1>5, <1>8 DEF ThreadInv

LEMMA AskKeeps ==
  ASSUME ThreadInv, Ask
  PROVE  ThreadInv'
<1>1. /\ asking # <<>> /\ visiting = <<>> /\ visiting' = <<Head(asking)>>
      /\ UNCHANGED <<topo, facts, todo, current, asking, cache, status>>
  BY DEF Ask, inputVars
<1>2. asking \in Seq(Instance) /\ Head(asking) \in Instance
  BY <1>1 DEF ThreadInv, ThreadType
<1>3. visiting' \in Seq(Instance) /\ Len(visiting') = 1
  BY <1>1, <1>2
<1>4. ThreadType'
  BY <1>1, <1>3, SameDrains DEF ThreadInv, ThreadType
<1>5. Recursing'
  BY <1>3 DEF Recursing
<1>6. CacheExact'
  <2>1. \A i : ~Visited(i)
    BY <1>1 DEF Visited
  <2>2. QED
    BY <1>1, <2>1, SameDrains DEF ThreadInv, CacheExact
<1>7. QueriesOpen'
  BY <1>1 DEF ThreadInv, QueriesOpen
<1>8. QED
  BY <1>4, <1>5, <1>6, <1>7 DEF ThreadInv

LEMMA AskCallerKeeps ==
  ASSUME ThreadInv, AskCaller
  PROVE  ThreadInv'
<1> DEFINE m == Len(visiting)
           caller == DrainCaller(Innermost)
<1>1. /\ visiting # <<>> /\ MustAsk(Innermost) /\ visiting' = Append(visiting, caller)
      /\ UNCHANGED <<topo, facts, todo, current, asking, cache, status>>
  BY DEF AskCaller, inputVars
<1>2. /\ visiting \in Seq(Instance) /\ m \in Nat /\ m > 0 /\ visiting[m] \in Instance
      /\ Drained(visiting[m]) /\ Innermost = visiting[m] /\ topo \in Topology
  BY <1>1 DEF ThreadInv, ThreadType, MustAsk, Innermost
<1>3. caller \in Instance
  BY <1>2, DrainCallerType
<1>4. /\ visiting' \in Seq(Instance) /\ Len(visiting') = m + 1 /\ visiting'[m + 1] = caller
      /\ \A k \in 1..m : visiting'[k] = visiting[k]
  BY <1>1, <1>2, <1>3
<1>5. ThreadType'
  BY <1>1, <1>4, SameDrains DEF ThreadInv, ThreadType
<1>6. Recursing'
  <2>1. ASSUME NEW k \in 1..m
        PROVE  Drained(visiting'[k]) /\ visiting'[k + 1] = DrainCaller(visiting'[k])
    <3>1. CASE k = m
      BY <1>2, <1>4, <3>1
    <3>2. CASE k # m
      <4>1. k \in 1..(m - 1) /\ k + 1 \in 1..m
        BY <1>2, <3>2
      <4>2. QED
        BY <1>4, <4>1 DEF ThreadInv, Recursing
    <3>3. QED
      BY <3>1, <3>2
  <2>2. Len(visiting') - 1 = m
    BY <1>2, <1>4
  <2>3. QED
    BY <1>1, <2>1, <2>2, SameDrains DEF Recursing
<1>7. CacheExact'
  <2>1. \A i : Visited(i) => Visited(i)'
    <3>1. DOMAIN visiting = 1..m /\ DOMAIN visiting' = 1..(m + 1)
      BY <1>2, <1>4
    <3>2. QED
      BY <1>2, <1>4, <3>1 DEF Visited
  <2>2. QED
    BY <1>1, <2>1, SameDrains DEF ThreadInv, CacheExact
<1>8. QueriesOpen'
  BY <1>1 DEF ThreadInv, QueriesOpen
<1>9. QED
  BY <1>5, <1>6, <1>7, <1>8 DEF ThreadInv

\* What an instance resolves to is the priority at the end of its drains: it asks for
\* no more when the caller is known, or is itself waiting, in a circle.
LEMMA PriorityExact ==
  ASSUME ThreadInv, visiting # <<>>, ~MustAsk(Innermost)
  PROVE  PriorityOf(Innermost) = EndPriority(Innermost)
<1> DEFINE m == Len(visiting)
           i == Innermost
<1>1. /\ visiting \in Seq(Instance) /\ m \in Nat /\ m > 0 /\ i = visiting[m] /\ i \in Instance
      /\ topo \in Topology
  BY DEF ThreadInv, ThreadType, Innermost
<1>2. CASE ~Drained(i)
  <2>1. DrainEnd(i) = i
    BY <1>1, <1>2, EndUndrained
  <2>2. QED
    BY <1>2, <2>1 DEF PriorityOf, EndPriority
<1>3. CASE Drained(i) /\ cache[DrainCaller(i)] # None
  <2>1. topo.component[i] # "active"
    BY <1>3 DEF Drained
  <2>2. PriorityOf(i) = cache[DrainCaller(i)].priority
    BY <1>3, <2>1 DEF PriorityOf
  <2>3. cache[DrainCaller(i)].priority = EndPriority(DrainCaller(i))
    BY <1>1, <1>3, DrainCallerType DEF ThreadInv, CacheExact
  <2>4. QED
    BY <1>1, <1>3, <2>2, <2>3, EndOfCaller
<1>4. CASE Drained(i) /\ cache[DrainCaller(i)] = None
  <2>1. PICK n \in 1..m : visiting[n] = DrainCaller(i)
    BY <1>1, <1>4 DEF MustAsk, Visited
  <2> DEFINE C == {visiting[k] : k \in n..m}
  <2>2. \A k \in n..m : k \in 1..m
    BY <1>1
  <2>3. C \in SUBSET Instance /\ i \in C
    BY <1>1, <2>1, <2>2
  <2>4. ASSUME NEW k \in n..m PROVE Drained(visiting[k]) /\ DrainCaller(visiting[k]) \in C
    <3>1. CASE k = m
      <4>1. n \in n..m
        BY <1>1, <2>1
      <4>2. QED
        BY <1>1, <1>4, <2>1, <3>1, <4>1
    <3>2. CASE k # m
      <4>1. k \in 1..(m - 1) /\ k + 1 \in n..m
        BY <1>1, <3>2
      <4>2. Drained(visiting[k]) /\ visiting[k + 1] = DrainCaller(visiting[k])
        BY <4>1 DEF ThreadInv, Recursing
      <4>3. QED
        BY <4>1, <4>2
    <3>3. QED
      BY <3>1, <3>2
  <2>5. \A x \in C : Drained(x) /\ DrainCaller(x) \in C
    BY <2>4
  <2> HIDE DEF C
  <2>6. EndPriority(i) = None
    BY <1>1, <2>3, <2>5, EndOfCycle
  <2>7. PriorityOf(i) = None
    BY <1>4 DEF PriorityOf, Drained
  <2>8. QED
    BY <2>6, <2>7
<1>5. QED
  BY <1>2, <1>3, <1>4

\* It is a thread's kind and priority.
LEMMA PriorityType ==
  ASSUME ThreadInv, visiting # <<>>
  PROVE  [kind |-> topo.component[Innermost], priority |-> PriorityOf(Innermost)] \in ThreadInfo
<1>1. /\ visiting \in Seq(Instance) /\ topo \in Topology /\ facts \in Fact
      /\ cache \in [Instance -> Optional(ThreadInfo)]
  BY DEF ThreadInv, ThreadType
<1>2. Innermost \in Instance
  BY <1>1 DEF Innermost
<1>3. topo.component[Innermost] \in ComponentKind /\ facts.priority[Innermost] \in Optional(Nat)
  BY <1>1, <1>2 DEF Topology, Fact
<1>4. ASSUME Drained(Innermost), cache[DrainCaller(Innermost)] # None
      PROVE  cache[DrainCaller(Innermost)].priority \in Optional(Nat)
  <2>1. DrainCaller(Innermost) \in Instance
    BY <1>1, <1>2, <1>4, DrainCallerType
  <2>2. cache[DrainCaller(Innermost)] \in ThreadInfo
    BY <1>1, <1>4, <2>1 DEF Optional
  <2>3. QED
    BY <2>2 DEF ThreadInfo
<1>5. PriorityOf(Innermost) \in Optional(Nat)
  BY <1>3, <1>4 DEF PriorityOf, Optional
<1>6. QED
  BY <1>3, <1>5 DEF ThreadInfo

LEMMA ResolveKeeps ==
  ASSUME ThreadInv, Resolve
  PROVE  ThreadInv'
<1> DEFINE m == Len(visiting)
           i == Innermost
           info == [kind |-> topo.component[i], priority |-> PriorityOf(i)]
<1>1. /\ visiting # <<>> /\ ~MustAsk(i)
      /\ cache' = [cache EXCEPT ![i] = info] /\ visiting' = SubSeq(visiting, 1, m - 1)
      /\ UNCHANGED <<topo, facts, todo, current, asking, status>>
  BY DEF Resolve, Return, inputVars
<1>2. /\ visiting \in Seq(Instance) /\ m \in Nat /\ m > 0 /\ i = visiting[m] /\ i \in Instance
      /\ topo \in Topology /\ cache \in [Instance -> Optional(ThreadInfo)]
  BY <1>1 DEF ThreadInv, ThreadType, Innermost
<1>3. /\ visiting' \in Seq(Instance) /\ Len(visiting') = m - 1
      /\ \A k \in 1..(m - 1) : k \in 1..m /\ visiting'[k] = visiting[k]
  BY <1>1, <1>2, FrontFacts
<1>4. info \in ThreadInfo /\ info # None
  BY <1>1, PriorityType, NoneApart
<1>5. /\ cache' \in [Instance -> Optional(ThreadInfo)] /\ cache'[i] = info
      /\ \A j \in Instance : j # i => cache'[j] = cache[j]
  BY <1>1, <1>2, <1>4 DEF Optional
<1>6. ThreadType'
  BY <1>1, <1>3, <1>5, SameDrains DEF ThreadInv, ThreadType
<1>7. Recursing'
  <2>1. ASSUME NEW k \in 1..((m - 1) - 1)
        PROVE  Drained(visiting'[k]) /\ visiting'[k + 1] = DrainCaller(visiting'[k])
    <3>1. k \in 1..(m - 1) /\ k + 1 \in 1..(m - 1)
      BY <1>2
    <3>2. QED
      BY <1>3, <3>1 DEF ThreadInv, Recursing
  <2>2. QED
    BY <1>1, <1>3, <2>1, SameDrains DEF Recursing
<1>8. \A j : Visited(j) => j = i \/ \E k \in DOMAIN visiting' : visiting'[k] = j
  <2>1. DOMAIN visiting = 1..m /\ DOMAIN visiting' = 1..(m - 1) /\ \A k \in 1..m : k = m \/ k \in 1..(m - 1)
    BY <1>2, <1>3
  <2>2. QED
    BY <1>2, <1>3, <2>1 DEF Visited
<1>9. CacheExact'
  <2> SUFFICES ASSUME NEW j \in Instance, cache'[j] # None
               PROVE  /\ cache'[j].kind = topo.component[j] /\ cache'[j].priority = EndPriority(j)
                      /\ Drained(j) => \/ cache'[DrainCaller(j)] # None
                                       \/ \E k \in DOMAIN visiting' : visiting'[k] = DrainCaller(j)
    BY <1>1, SameDrains DEF CacheExact, Visited
  <2>1. Drained(j) => DrainCaller(j) \in Instance
    BY <1>2, DrainCallerType
  <2>2. CASE j = i
    <3>1. cache'[j].kind = topo.component[j] /\ cache'[j].priority = EndPriority(j)
      BY <1>1, <1>5, <2>2, PriorityExact
    <3>2. Drained(j) => cache[DrainCaller(j)] # None \/ Visited(DrainCaller(j))
      BY <1>1, <2>2 DEF MustAsk
    <3>3. QED
      BY <1>4, <1>5, <1>8, <2>1, <3>1, <3>2
  <2>3. CASE j # i
    <3>1. /\ cache[j] # None /\ cache[j].kind = topo.component[j] /\ cache[j].priority = EndPriority(j)
          /\ Drained(j) => cache[DrainCaller(j)] # None \/ Visited(DrainCaller(j))
      BY <1>5, <2>3 DEF ThreadInv, CacheExact
    <3>2. QED
      BY <1>4, <1>5, <1>8, <2>1, <2>3, <3>1
  <2>4. QED
    BY <2>2, <2>3
<1>10. QueriesOpen'
  <2>1. ASSUME current # None, NEW n \in {1, 2}
        PROVE  \/ cache'[topo.owner[current[n]]] # None
               \/ \E k \in 1..Len(asking) : asking[k] = topo.owner[current[n]]
    <3>1. current \in Connections
      BY <2>1 DEF ThreadInv, ThreadType, Optional
    <3>2. topo.owner[current[n]] \in Instance
      BY <1>2, <3>1, ConnectionEnds
    <3>3. QED
      BY <1>4, <1>5, <2>1, <3>2 DEF ThreadInv, QueriesOpen
  <2>2. QED
    BY <1>1, <2>1 DEF ThreadInv, QueriesOpen
<1>11. QED
  BY <1>6, <1>7, <1>9, <1>10 DEF ThreadInv

\* The ends of the connection looked at are in the cache once its queries are.
LEMMA AskedCached ==
  ASSUME ThreadInv, Asked
  PROVE  current \in Connections /\ EndsCached(current)
BY DEF ThreadInv, ThreadType, QueriesOpen, Asked, EndsCached, Optional

LEMMA CountKeepsThreads ==
  ASSUME ThreadInv, Count
  PROVE  ThreadInv'
<1>1. /\ asking = <<>> /\ current # None /\ current' = None
      /\ UNCHANGED <<topo, facts, todo, asking, visiting, cache, status>>
  BY DEF Count, Asked, inputVars, threadVars
<1>2. None \notin todo
  BY NoneApart DEF ThreadInv, ThreadType
<1>3. ThreadType'
  BY <1>1, <1>2, SameDrains DEF ThreadInv, ThreadType, Optional
<1>4. Recursing' /\ CacheExact'
  BY <1>1, SameDrains DEF ThreadInv, Recursing, CacheExact, Visited
<1>5. QueriesOpen'
  BY <1>1 DEF ThreadInv, QueriesOpen
<1>6. QED
  BY <1>3, <1>4, <1>5 DEF ThreadInv

\* Every step of the analyzer keeps what concerns threads.
LEMMA ThreadStep ==
  ASSUME ThreadInv, [Next]_vars
  PROVE  ThreadInv'
<1>1. CASE UNCHANGED vars
  BY <1>1, ThreadStays DEF vars, inputVars
<1>2. CASE InferRates
  <2>1. UNCHANGED <<topo, facts>> /\ status # "analyzing"
    BY <1>2 DEF InferRates, RatesNext, InferGroups, StartPropagation, RefuseRates, FinishRates,
                Propagate
  <2>2. asking = <<>>
    BY <2>1 DEF ThreadInv, QueriesOpen
  <2>3. QED
    BY <1>2, <2>1, <2>2, ThreadStays DEF InferRates
<1>3. CASE FindDrops \/ Refuse
  <2>1. asking = <<>>
    BY <1>3 DEF FindDrops, Refuse, Asked, Analyzed, ThreadInv, QueriesOpen
  <2>2. QED
    BY <1>3, <2>1, ThreadStays DEF FindDrops, Refuse, inputVars
<1>4. QED
  BY <1>1, <1>2, <1>3, TakeKeeps, RecallKeeps, AskKeeps, AskCallerKeeps, ResolveKeeps,
     CountKeepsThreads DEF Next

\* A step of the deployment is one of the analyzer, or leaves it as it is.
LEMMA AnalysisSteps == [AnalyzeThenRun]_<<vars, stack, wants>> => [Next]_vars
BY DEF AnalyzeThenRun

LEMMA ThreadAlways == DeploymentSpec => []ThreadInv
<1>1. DeploymentInit => ThreadInv
  BY ThreadInit DEF DeploymentInit
<1>2. ThreadInv /\ [AnalyzeThenRun]_<<vars, stack, wants>> => ThreadInv'
  BY AnalysisSteps, ThreadStep
<1>3. QED
  BY <1>1, <1>2, PTL DEF DeploymentSpec

\* ThreadInfoExact always holds (async_queue_analyzer.py:568-613): in whatever order the
\* connections are looked at, and wherever a circle of drains was entered, the cache
\* holds the priority of the active instance at the end of the drains, or none.
THEOREM ThreadInfoExactHolds == DeploymentSpec => []ThreadInfoExact
<1>1. ThreadInv => ThreadInfoExact
  BY DEF ThreadInv, CacheExact, ThreadInfoExact, EndPriority
<1>2. QED
  BY <1>1, ThreadAlways, PTL

-----------------------------------------------------------------------------
(* The rows. *)

\* The row of a connection.
RowOf(c) ==
  [source |-> c[1], dest |-> c[2], kind |-> topo.component[topo.owner[c[1]]],
   priority |-> EndPriority(topo.owner[c[1]]), context |-> Emitters(c[1])]

RowsInv ==
  /\ \A c \in Done : EndsCached(c) /\ RowOf(c) \in producers
  /\ status = "done" => todo = {} /\ current = None /\ drops = RequeueDrops

\* The rows stay while the topology does.
LEMMA SameRows ==
  ASSUME UNCHANGED <<topo, facts>>
  PROVE  \A c : RowOf(c)' = RowOf(c)
<1>1. \A o : Emitters(o)' = Emitters(o)
  BY DEF Emitters
<1>2. QED
  BY <1>1, SameDrains DEF RowOf

\* What is in the cache stays there.
LEMMA CacheGrows ==
  ASSUME ThreadInv, [Next]_vars, NEW i \in Instance, cache[i] # None
  PROVE  cache'[i] # None
<1>1. CASE Resolve
  <2>1. /\ visiting # <<>> /\ cache \in [Instance -> Optional(ThreadInfo)]
        /\ cache' = [cache EXCEPT ![Innermost] =
             [kind |-> topo.component[Innermost], priority |-> PriorityOf(Innermost)]]
    BY <1>1 DEF Resolve, Return, ThreadInv, ThreadType
  <2>2. [kind |-> topo.component[Innermost], priority |-> PriorityOf(Innermost)] # None
    BY <2>1, PriorityType, NoneApart
  <2>3. QED
    BY <2>1, <2>2
<1>2. CASE UNCHANGED cache
  BY <1>2
<1>3. QED
  BY <1>1, <1>2 DEF Next, vars, threadVars, InferRates, Take, Recall, Ask, AskCaller, Count,
                    FindDrops, Refuse

\* The topology and the facts stay.
LEMMA InputStays ==
  ASSUME [Next]_vars
  PROVE  UNCHANGED <<topo, facts>>
BY DEF Next, vars, inputVars, InferRates, RatesNext, InferGroups, StartPropagation, Propagate,
       RefuseRates, FinishRates, Take, Recall, Ask, AskCaller, Resolve, Return, Count, FindDrops,
       Refuse

\* A connection is done when it is counted.
LEMMA DoneStep ==
  ASSUME ThreadInv, [Next]_vars
  PROVE  /\ Count => Done' = Done \cup {current} /\ current \in Connections \ Done
         /\ ~Count => Done' = Done
<1>1. UNCHANGED <<topo, facts>> /\ Connections' = Connections
  BY InputStays, SameDrains
<1>2. /\ todo \subseteq Connections /\ current \in Optional(Connections) \ todo
      /\ None \notin Connections
  BY NoneApart DEF ThreadInv, ThreadType
<1>3. ASSUME Count PROVE Done' = Done \cup {current} /\ current \in Connections \ Done
  <2>1. current # None /\ current' = None /\ todo' = todo
    BY <1>3 DEF Count, Asked
  <2>2. QED
    BY <1>1, <1>2, <2>1 DEF Done, Optional
<1>4. CASE Take
  <2>1. PICK c \in todo : current' = c /\ todo' = todo \ {c} /\ current = None
    BY <1>4 DEF Take
  <2>2. Done' = Done /\ current' # None
    BY <1>1, <1>2, <2>1 DEF Done
  <2>3. QED
    BY <2>1, <2>2, <1>3
<1>5. CASE UNCHANGED <<todo, current>>
  BY <1>1, <1>3, <1>5 DEF Done
<1>6. QED
  BY <1>3, <1>4, <1>5 DEF Next, vars, InferRates, Take, Recall, Ask, AskCaller, Resolve, Return,
                          FindDrops, Refuse

\* Nothing is done before the rates are.
LEMMA RowsInit ==
  ASSUME Init
  PROVE  Done = {} /\ RowsInv
<1>1. Done = {}
  BY DEF Init, Done, Connections
<1>2. QED
  BY <1>1 DEF Init, RateInit, RowsInv

LEMMA RowsStep ==
  ASSUME ThreadInv, RowsInv, [Next]_vars
  PROVE  RowsInv'
<1>1. UNCHANGED <<topo, facts>> /\ topo \in Topology
  BY InputStays DEF ThreadInv, ThreadType
<1>2. ASSUME NEW c \in Connections, EndsCached(c) PROVE EndsCached(c)'
  BY <1>1, <1>2, ConnectionEnds, CacheGrows DEF EndsCached
<1>3. \A c \in Done : EndsCached(c)' /\ RowOf(c)' = RowOf(c) /\ RowOf(c) \in producers
  BY <1>1, <1>2, SameRows DEF RowsInv, Done
<1>4. CASE Count
  <2>1. PICK c : c = current
    OBVIOUS
  <2>2. Done' = Done \cup {c} /\ c \in Connections /\ EndsCached(c)
    BY <1>4, <2>1, DoneStep, AskedCached DEF Count
  <2>3. EndsCached(c)'
    BY <1>2, <2>2
  <2>4. topo.owner[c[1]] \in Instance /\ cache[topo.owner[c[1]]] # None
    BY <1>1, <2>2, ConnectionEnds DEF EndsCached
  <2>5. RowOf(c) \in producers' /\ producers \subseteq producers'
    BY <1>4, <2>1, <2>4 DEF Count, RowOf, ThreadInv, CacheExact
  <2>6. RowOf(c)' = RowOf(c)
    BY <1>1, SameRows
  <2>7. \A x \in Done' : EndsCached(x)' /\ RowOf(x)' \in producers'
    BY <1>3, <2>2, <2>3, <2>5, <2>6
  <2>8. status' # "done"
    BY <1>4 DEF Count, Asked
  <2>9. QED
    BY <2>7, <2>8 DEF RowsInv
<1>5. CASE ~Count
  <2>1. UNCHANGED producers
    BY <1>5 DEF Next, vars, queueVars, InferRates, Take, Recall, Ask, AskCaller, Resolve, Return,
                FindDrops, Refuse
  <2>2. \A c \in Done' : EndsCached(c)' /\ RowOf(c)' \in producers'
    BY <1>3, <1>5, <2>1, DoneStep
  <2>3. RequeueDrops' = RequeueDrops
    BY <1>1 DEF RequeueDrops, AsyncEntries, OnThread, PortPriority
  <2>4. CASE status = "done"
    <3>1. UNCHANGED <<todo, current, drops, status>>
      BY <1>5, <2>4 DEF RowsInv, ThreadInv, QueriesOpen, Next, vars, InferRates, RatesNext,
           InferGroups, StartPropagation, Propagate, RefuseRates, FinishRates, Take, Recall, Ask,
           AskCaller, Resolve, Return, FindDrops, Refuse, Asked, Analyzed
    <3>2. QED
      BY <2>2, <2>3, <2>4, <3>1 DEF RowsInv
  <2>5. CASE status # "done" /\ status' = "done"
    <3>1. FindDrops
      BY <1>5, <2>5 DEF Next, vars, InferRates, RatesNext, InferGroups, StartPropagation, Propagate,
           RefuseRates, FinishRates, Take, Recall, Ask, AskCaller, Resolve, Return, Refuse
    <3>2. QED
      BY <2>2, <2>3, <3>1 DEF FindDrops, Analyzed, RowsInv
  <2>6. CASE status' # "done"
    BY <2>2, <2>6 DEF RowsInv
  <2>7. QED
    BY <2>4, <2>5, <2>6
<1>6. QED
  BY <1>4, <1>5

LEMMA RowsAlways == DeploymentSpec => []RowsInv
<1>1. DeploymentInit => RowsInv
  BY RowsInit DEF DeploymentInit
<1>2. ThreadInv /\ RowsInv /\ [AnalyzeThenRun]_<<vars, stack, wants>> => RowsInv'
  BY AnalysisSteps, RowsStep
<1>3. QED
  BY <1>1, <1>2, ThreadAlways, PTL DEF DeploymentSpec

\* The deployment keeps its own invariant, whatever the analyzer does.
LEMMA RuntimeAlways == DeploymentSpec => []RtInv
<1>1. DeploymentInit => RtInv
  BY RuntimeBegins, FprimeRuntimeAssumption DEF DeploymentInit
<1>2. ASSUME ThreadInv, RtInv, [AnalyzeThenRun]_<<vars, stack, wants>> PROVE RtInv'
  <2>1. topo \in Topology /\ UNCHANGED topo
    BY <1>2, AnalysisSteps, InputStays DEF ThreadInv, ThreadType
  <2>2. CASE UNCHANGED <<stack, wants>>
    BY <1>2, <2>1, <2>2, RuntimeStays
  <2>3. CASE RtNext
    BY <1>2, <2>1, <2>3, RuntimeStep, FprimeRuntimeAssumption
  <2>4. QED
    BY <1>2, <2>2, <2>3 DEF AnalyzeThenRun
<1>3. QED
  BY <1>1, <1>2, ThreadAlways, PTL DEF DeploymentSpec

-----------------------------------------------------------------------------
(* Messages at run time. *)

\* A message was entered as one.
LEMMA MessageEntered ==
  ASSUME topo \in Topology, RtInv, NEW th \in Origin, NEW k \in 1..Len(stack[th]), Message(th, k)
  PROVE  Entered(stack[th][k], "async")
<1>1. PICK c : c = stack[th][k]
  OBVIOUS
<1>2. PICK kind : Entered(c, kind)
  BY <1>1, CallEntered
<1>3. /\ "async" \in InputSyncKinds(topo, c.port)
      /\ c.handler \in FlowEntries(topo, c.port, "async")
  BY <1>1 DEF Message
<1>4. kind = "async"
  BY <1>2, <1>3 DEF Entered, FlowEntries, InputSyncKinds
<1>5. QED
  BY <1>1, <1>2, <1>4

\* A message above another call is drained, by a handler of the same queued instance
\* that is itself no message.
LEMMA MessageDrained ==
  ASSUME topo \in Topology, RtInv, NEW th \in Origin, NEW k \in 1..(Len(stack[th]) - 1),
         Message(th, k + 1)
  PROVE  /\ topo.component[topo.owner[stack[th][k + 1].port]] = "queued"
         /\ topo.owner[stack[th][k + 1].port] = topo.owner[stack[th][k].port]
         /\ ~Message(th, k)
<1>1. PICK b, c : b = stack[th][k] /\ c = stack[th][k + 1]
  OBVIOUS
<1>2. stack[th] \in Seq(Calls) /\ WellCalled(th) /\ k + 1 \in 1..Len(stack[th])
  BY DEF RtInv, RtType
<1>3. Entered(c, "async") /\ Continues(b, c)
  BY <1>1, <1>2, MessageEntered DEF WellCalled
<1>4. \A hop \in ThreadHops(topo, b.handler) : ~Entered(c, hop.kind)
  BY <1>3, EntryKind DEF ThreadHops
<1>5. /\ topo.component[topo.owner[c.port]] = "queued" /\ topo.owner[c.port] = topo.owner[b.port]
      /\ "async" \notin InputSyncKinds(topo, b.port)
  BY <1>3, <1>4 DEF Continues
<1>6. QED
  BY <1>1, <1>5 DEF Message

\* Any other call was made by the handler below it, out of one of its outputs.
LEMMA CallMade ==
  ASSUME topo \in Topology, RtInv, NEW th \in Origin, NEW k \in 1..(Len(stack[th]) - 1),
         ~Message(th, k + 1)
  PROVE  /\ \E hop \in ThreadHops(topo, stack[th][k].handler) :
              hop.port = stack[th][k + 1].port /\ Entered(stack[th][k + 1], hop.kind)
         /\ stack[th][k + 1].origin = stack[th][k].origin
         /\ \E o \in OutPort : /\ o \in OutputsFor(topo, stack[th][k].handler)
                               /\ stack[th][k + 1].port \in topo.wires[o]
                               /\ topo.owner[o] = topo.owner[stack[th][k].port]
<1>1. PICK b, c : b = stack[th][k] /\ c = stack[th][k + 1]
  OBVIOUS
<1>2. /\ stack[th] \in Seq(Calls) /\ WellCalled(th) /\ k \in 1..Len(stack[th])
  BY DEF RtInv, RtType
<1>3. Continues(b, c)
  BY <1>1, <1>2 DEF WellCalled
<1>4. PICK hop \in ThreadHops(topo, b.handler) :
        hop.port = c.port /\ Entered(c, hop.kind) /\ c.origin = b.origin
  BY <1>1, <1>3 DEF Continues, Message, Entered
<1>5. topo.owner[b.handler] = topo.owner[b.port]
  BY <1>1, <1>2, CallEntered
<1>6. PICK o \in OutputsFor(topo, b.handler) : hop.port \in topo.wires[o]
  BY DEF ThreadHops, OutwardHops, Destinations
<1>7. o \in OutPort /\ topo.owner[o] = topo.owner[b.port]
  BY <1>5 DEF OutputsFor, OutputPorts
<1>8. QED
  BY <1>1, <1>4, <1>6, <1>7

\* An active instance's message is the first call of its own thread.
LEMMA MessageActive ==
  ASSUME topo \in Topology, RtInv, NEW th \in Origin, NEW k \in 1..Len(stack[th]), Message(th, k),
         topo.component[topo.owner[stack[th][k].port]] = "active"
  PROVE  k = 1 /\ th = <<"thread", topo.owner[stack[th][k].port]>>
<1>1. stack[th] \in Seq(Calls) /\ WellCalled(th) /\ Len(stack[th]) \in Nat
  BY DEF RtInv, RtType
<1>2. ASSUME k # 1 PROVE FALSE
  <2>1. k - 1 \in 1..(Len(stack[th]) - 1) /\ (k - 1) + 1 = k
    BY <1>1, <1>2
  <2>2. topo.component[topo.owner[stack[th][k].port]] = "queued"
    BY <2>1, MessageDrained
  <2>3. QED
    BY <2>2
<1>3. k = 1 /\ stack[th][1].origin = th
  BY <1>1, <1>2 DEF WellCalled, Begins
<1>4. QED
  BY <1>3 DEF Message

-----------------------------------------------------------------------------
(* The priorities of the running threads. *)

\* After the analysis the cache is complete.
LEMMA CacheComplete ==
  ASSUME ThreadInv, status # "analyzing", NEW i \in Instance, cache[i] # None
  PROVE  /\ cache[i].kind = topo.component[i] /\ cache[i].priority = EndPriority(i)
         /\ Drained(i) => DrainCaller(i) \in Instance /\ cache[DrainCaller(i)] # None
<1>1. visiting = <<>> /\ topo \in Topology
  BY DEF ThreadInv, ThreadType, QueriesOpen
<1>2. \A j : ~Visited(j)
  BY <1>1 DEF Visited
<1>3. QED
  BY <1>1, <1>2, DrainCallerType DEF ThreadInv, CacheExact

\* DrainPriorityRight always holds (async_queue_analyzer.py:541-565): a queued instance
\* with one scheduling connection runs, whenever a thread drains it through that one,
\* at the priority the cache has for it.
THEOREM DrainPriorityRightHolds == DeploymentSpec => []DrainPriorityRight
<1>1. ThreadInv /\ RtInv => DrainPriorityRight
  <2> SUFFICES ASSUME ThreadInv, RtInv, status = "done", NEW th \in ActiveThreads,
                      NEW k \in 3..Depth(th), NEW i, i = topo.owner[stack[th][k].port],
                      NEW s, s = topo.owner[stack[th][k - 2].port]
               PROVE  /\ topo.component[i] = "queued" /\ Message(th, k) /\ Message(th, k - 2)
                      /\ Cardinality(DrainOutputs(i)) = 1
                      /\ stack[th][k - 1].port \in facts.rates.drains /\ cache[i] # None
                      => IF topo.component[s] = "active"
                         THEN cache[i].priority = facts.priority[th[2]]
                         ELSE cache[i].priority = cache[s].priority
    BY DEF DrainPriorityRight
  <2> SUFFICES ASSUME topo.component[i] = "queued", Message(th, k), Message(th, k - 2),
                      Cardinality(DrainOutputs(i)) = 1,
                      stack[th][k - 1].port \in facts.rates.drains, cache[i] # None
               PROVE  IF topo.component[s] = "active"
                      THEN cache[i].priority = facts.priority[th[2]]
                      ELSE cache[i].priority = cache[s].priority
    OBVIOUS
  <2>1. topo \in Topology /\ th \in Origin /\ Depth(th) \in Nat /\ Depth(th) = Len(stack[th])
    BY ThreadsAreOrigins DEF ThreadInv, ThreadType, Threads, Depth, RtInv, RtType
  <2>2. PICK n : n = k - 2
    OBVIOUS
  <2>3. /\ n \in 1..(Len(stack[th]) - 1) /\ n + 1 \in 1..(Len(stack[th]) - 1)
        /\ n \in 1..Len(stack[th]) /\ n + 1 \in 1..Len(stack[th]) /\ k \in 1..Len(stack[th])
        /\ n + 1 = k - 1 /\ (n + 1) + 1 = k
    BY <2>1, <2>2
  <2>4. /\ topo.owner[stack[th][n + 1].port] = i /\ ~Message(th, n + 1)
    BY <2>1, <2>3, MessageDrained
  <2>5. PICK o \in OutPort : stack[th][n + 1].port \in topo.wires[o] /\ topo.owner[o] = s
    BY <2>1, <2>2, <2>3, <2>4, CallMade
  <2>6. o \in DrainOutputs(i)
    BY <2>3, <2>4, <2>5 DEF DrainOutputs
  <2>7. DrainOutputs(i) = {o}
    <3>1. IsFiniteSet(DrainOutputs(i))
      BY NamesAssumption, FS_Subset DEF DrainOutputs
    <3>2. PICK x : DrainOutputs(i) = {x}
      BY <3>1, FS_Singleton
    <3>3. QED
      BY <2>6, <3>2
  <2>8. Drained(i) /\ DrainCaller(i) = s
    BY <2>5, <2>7, NoneApart DEF FirstDrain, Drained, DrainCaller
  <2>9. i \in Instance /\ s \in Instance
    <3>1. k \in 1..Len(stack[th]) /\ n \in 1..Len(stack[th]) /\ topo \in Topology /\ th \in Origin
      BY <2>1, <2>3
    <3>2. \A m \in 1..Len(stack[th]) : topo.owner[stack[th][m].port] \in Instance
      BY ONLY <3>1, RtInv, CallEntered
    <3>3. QED
      BY <2>2, <3>1, <3>2
  <2>10. cache[i].priority = EndPriority(s) /\ cache[s] # None
    BY <2>1, <2>8, <2>9, CacheComplete, EndOfCaller
  <2>11. CASE topo.component[s] = "active"
    <3>1. th = <<"thread", s>>
      BY <2>1, <2>2, <2>3, <2>11, MessageActive
    <3>2. DrainEnd(s) = s
      BY <2>1, <2>9, <2>11, EndUndrained DEF Drained
    <3>3. th[2] = s
      BY ONLY <3>1
    <3>4. EndPriority(s) = facts.priority[s]
      BY <2>11, <3>2 DEF EndPriority
    <3>5. QED
      BY <2>10, <2>11, <3>3, <3>4
  <2>12. CASE topo.component[s] # "active"
    <3>1. status # "analyzing"
      OBVIOUS
    <3>2. cache[s].priority = EndPriority(s)
      BY <2>9, <2>10, <3>1, CacheComplete
    <3>3. QED
      BY <2>10, <2>12, <3>2
  <2>13. QED
    BY <2>11, <2>12
<1>2. QED
  BY <1>1, ThreadAlways, RuntimeAlways, PTL

\* What an active thread runs off a queue is its own, or that of a queued instance.
LEMMA EnteredOwn ==
  ASSUME topo \in Topology, RtInv, NEW th \in ActiveThreads, NEW k \in 1..Len(stack[th]),
         Entered(stack[th][k], "async"), topo.component[topo.owner[stack[th][k].port]] # "queued"
  PROVE  th = <<"thread", topo.owner[stack[th][k].port]>>
<1>1. th \in Origin /\ th[1] = "thread"
  BY ThreadsAreOrigins DEF Threads, ActiveThreads
<1>2. stack[th] \in Seq(Calls) /\ WellCalled(th) /\ Len(stack[th]) \in Nat
  BY <1>1 DEF RtInv, RtType
<1>3. CASE k = 1
  <2>1. Begins(th, stack[th][k])
    BY <1>2, <1>3 DEF WellCalled
  <2>2. th # <<"external", stack[th][k].port>>
    BY <1>1
  <2>3. QED
    BY <2>1, <2>2 DEF Begins
<1>4. CASE k # 1
  <2>1. k - 1 \in 1..(Len(stack[th]) - 1) /\ (k - 1) + 1 = k
    BY <1>2, <1>4
  <2>2. Continues(stack[th][k - 1], stack[th][k])
    BY <1>2, <2>1 DEF WellCalled
  <2>3. PICK hop \in ThreadHops(topo, stack[th][k - 1].handler) : Entered(stack[th][k], hop.kind)
    BY <2>2 DEF Continues
  <2>4. hop.kind = "async"
    BY <2>3, EntryKind
  <2>5. QED
    BY <2>3, <2>4 DEF ThreadHops
<1>5. QED
  BY <1>3, <1>4

\* InversionPredicted always holds (async_queue_analyzer.py:129-176): when the running
\* handler of a thread may post to a queue drained at a lower priority, the row of
\* that connection is red or a warning, unless only guarded handlers emit there.
THEOREM InversionPredictedHolds == DeploymentSpec => []InversionPredicted
<1>1. ThreadInv /\ RowsInv /\ RtInv => InversionPredicted
  <2> SUFFICES ASSUME ThreadInv, RowsInv, RtInv, status = "done", NEW th \in ActiveThreads,
                      NEW o \in OutPort, NEW p \in topo.wires[o], Inversion(th, o, p),
                      Emitters(o) # {"guarded"}
               PROVE  Warned(o, p)
    BY DEF InversionPredicted
  <2>1. topo \in Topology /\ th \in Origin /\ Depth(th) = Len(stack[th]) /\ Len(stack[th]) \in Nat
    BY ThreadsAreOrigins DEF ThreadInv, ThreadType, Threads, Depth, RtInv, RtType
  <2>2. PICK k, c : k = Depth(th) /\ c = Running(th)
    OBVIOUS
  <2>3. /\ k \in 1..Len(stack[th]) /\ c = stack[th][k] /\ o \in OutputsFor(topo, c.handler)
        /\ <<o, p>> \in Connections
    BY <2>1, <2>2 DEF Inversion, Posts, Running, Connections
  <2>4. PICK i : i = topo.owner[o]
    OBVIOUS
  <2>5. i \in Instance /\ topo.owner[c.port] = i /\ c \in Calls
    BY <2>1, <2>3, <2>4, CallEntered DEF OutputsFor, OutputPorts
  <2>6. PICK r, sink : r = RowOf(<<o, p>>) /\ sink = cache[topo.owner[p]].priority
    OBVIOUS
  <2>7. r \in producers /\ cache[i] # None
    <3>1. <<o, p>> \in Done
      BY <2>3, NoneApart DEF RowsInv, Done
    <3>2. QED
      BY <2>4, <2>6, <3>1 DEF RowsInv, EndsCached
  <2>8. /\ r.source = o /\ r.dest = p /\ r.kind = topo.component[i] /\ r.priority = cache[i].priority
        /\ r.context = Emitters(o) /\ r.kind = cache[i].kind /\ r.kind \in ComponentKind
    BY <2>1, <2>4, <2>5, <2>6, <2>7, CacheComplete DEF RowOf, Topology
  <2>9. PICK feeds : feeds = facts.priority[th[2]]
    OBVIOUS
  <2>10. /\ feeds # None /\ sink # None /\ feeds > sink
         /\ r.kind = "queued" => r.priority = feeds
    BY <2>4, <2>6, <2>8, <2>9 DEF Inversion
  <2>11. r.kind = "active" /\ th = <<"thread", i>> => r.priority = feeds
    <3> SUFFICES ASSUME r.kind = "active", th = <<"thread", i>> PROVE r.priority = feeds
      OBVIOUS
    <3>1. DrainEnd(i) = i
      BY <2>1, <2>5, <2>8, EndUndrained DEF Drained
    <3>2. r.priority = EndPriority(i)
      BY <2>5, <2>7, <2>8, CacheComplete
    <3>3. QED
      BY <2>8, <2>9, <3>1, <3>2 DEF EndPriority
  <2>12. r.kind = "queued" \/ (r.kind = "active" /\ th = <<"thread", i>>) \/ UnsafeContext(r.context)
    <3> SUFFICES ASSUME r.kind # "queued", ~(r.kind = "active" /\ th = <<"thread", i>>)
                 PROVE  UnsafeContext(r.context)
      OBVIOUS
    <3>1. PICK kind : Entered(c, kind)
      BY <2>1, <2>3, CallEntered
    <3>2. kind # "async"
      <4>1. topo.component[th[2]] = "active" /\ th = <<"thread", th[2]>>
        BY DEF ActiveThreads
      <4>2. SUFFICES ASSUME kind = "async" PROVE FALSE
        OBVIOUS
      <4>3. k \in 1..Len(stack[th]) /\ topo.owner[stack[th][k].port] = i
        BY <2>3, <2>5
      <4>4. Entered(stack[th][k], "async") /\ topo.component[i] # "queued"
        BY <2>3, <2>8, <3>1, <4>2
      <4>5. th = <<"thread", i>>
        BY <2>1, <4>3, <4>4, EnteredOwn
      <4>6. th[2] = i
        BY <4>5
      <4>7. QED
        BY <2>8, <4>1, <4>5, <4>6
    <3>3. kind \in Emitters(o)
      <4>1. c.port \in InPort
        BY <2>5 DEF Calls
      <4>2. kind \in SyncKind
        BY <2>1, <3>1, <4>1, InputSyncKindsType DEF Entered
      <4>3. QED
        BY <2>3, <2>4, <2>5, <3>1, <4>1, <4>2 DEF Emitters, Entered
    <3>4. Emitters(o) \subseteq {"sync", "guarded", "async"}
      BY DEF Emitters, SyncKind
    <3>5. QED
      BY <2>8, <3>2, <3>3, <3>4 DEF UnsafeContext
  <2>13. Severity(r, sink) >= 2
    <3>1. CASE r.kind = "passive"
      BY <2>12, <3>1 DEF Severity
    <3>2. CASE r.kind = "active"
      BY <2>10, <2>11, <2>12, <3>2 DEF Severity
    <3>3. CASE r.kind = "queued"
      BY <2>10, <3>3 DEF Severity
    <3>4. QED
      BY <2>8, <3>1, <3>2, <3>3 DEF ComponentKind
  <2>14. QED
    BY <2>6, <2>7, <2>8, <2>13 DEF Warned
<1>2. QED
  BY <1>1, ThreadAlways, RowsAlways, RuntimeAlways, PTL

-----------------------------------------------------------------------------
(* What the calls above a call lead to. *)

\* ReachedByCalls is the least set of handlers closed under calls.
LEMMA ReachedFacts ==
  ASSUME NEW t \in Topology, NEW H \in SUBSET Handler
  PROVE  /\ ReachedByCalls(t, H) \subseteq Handler
         /\ H \subseteq ReachedByCalls(t, H)
         /\ \A h \in ReachedByCalls(t, H) : NextHandlers(t, h) \subseteq ReachedByCalls(t, H)
         /\ \A C \in SUBSET Handler :
              H \subseteq C /\ (\A h \in C : NextHandlers(t, h) \subseteq C)
              => ReachedByCalls(t, H) \subseteq C
<1> DEFINE next == [h \in Handler |-> NextHandlers(t, h)]
<1>1. IsFiniteSet(Handler)
  BY NamesAssumption, FS_Union DEF Handler
<1>2. next \in [Handler -> SUBSET Handler] /\ \A h \in Handler : next[h] = NextHandlers(t, h)
  BY HopsType
<1>3. ReachedByCalls(t, H) = Closure(next, H)
  BY DEF ReachedByCalls
<1> HIDE DEF next
<1>4. /\ Closure(next, H) \subseteq Handler /\ H \subseteq Closure(next, H)
      /\ \A h \in Closure(next, H) : next[h] \subseteq Closure(next, H)
      /\ \A C \in SUBSET Handler :
           H \subseteq C /\ (\A h \in C : next[h] \subseteq C) => Closure(next, H) \subseteq C
  BY <1>1, <1>2, ClosureFacts
<1>5. \A h \in Closure(next, H) : NextHandlers(t, h) \subseteq Closure(next, H)
  BY <1>2, <1>4
<1>6. \A C \in SUBSET Handler :
        H \subseteq C /\ (\A h \in C : NextHandlers(t, h) \subseteq C) => Closure(next, H) \subseteq C
  BY <1>2, <1>4
<1>7. QED
  BY <1>3, <1>4, <1>5, <1>6

\* The calls above a call, none of them a message, stay among the handlers that its
\* own handler leads to.
LEMMA RunningReached ==
  ASSUME topo \in Topology, RtInv, NEW th \in Origin, NEW k \in 1..Len(stack[th]), Within(th, k),
         NEW H \in SUBSET Handler, stack[th][k].handler \in ReachedByCalls(topo, H)
  PROVE  Running(th).handler \in ReachedByCalls(topo, H)
<1>1. PICK m : m = Len(stack[th])
  OBVIOUS
<1>2. m \in Nat /\ k \in Nat /\ k \in 1..m /\ Depth(th) = m
  BY <1>1 DEF RtInv, RtType, Depth
<1>3. PICK S : S = {n \in 1..m : stack[th][n].handler \in ReachedByCalls(topo, H)}
  OBVIOUS
<1>4. ASSUME NEW n \in k..(m - 1), n \in S PROVE n + 1 \in S
  <2>1. n \in 1..(Len(stack[th]) - 1) /\ n + 1 \in 1..m /\ n + 1 \in (k + 1)..Depth(th)
    BY <1>1, <1>2
  <2>2. ~Message(th, n + 1)
    BY <2>1 DEF Within
  <2>3. PICK hop \in ThreadHops(topo, stack[th][n].handler) :
          hop.port = stack[th][n + 1].port /\ Entered(stack[th][n + 1], hop.kind)
    BY <2>1, <2>2, CallMade
  <2>4. stack[th][n + 1].handler \in NextHandlers(topo, stack[th][n].handler)
    BY <2>3 DEF NextHandlers, Entered
  <2>5. QED
    BY <1>3, <1>4, <2>1, <2>4, ReachedFacts
<1>5. k \in S
  BY <1>1, <1>3
<1>6. \A n \in k..m : n \in S
  BY ONLY <1>2, <1>4, <1>5, Climb
<1>7. m \in S
  BY <1>2, <1>6
<1>8. QED
  BY <1>2, <1>3, <1>7 DEF Running

\* RequeuePredicted always holds (async_queue_analyzer.py:703-752): when the handler of
\* one port leads its thread to post, at a lower priority, on the queue its message
\* came from, the pair of ports was found.
THEOREM RequeuePredictedHolds == DeploymentSpec => []RequeuePredicted
<1>1. ThreadInv /\ RowsInv /\ RtInv => RequeuePredicted
  <2> SUFFICES ASSUME ThreadInv, RowsInv, RtInv, status = "done", NEW th \in ActiveThreads,
                      NEW o \in OutPort, NEW q \in topo.wires[o], NEW k \in 1..Depth(th),
                      NEW p, p = stack[th][k].port,
                      Posts(th, o, q), Message(th, k), Within(th, k),
                      topo.owner[p] = topo.owner[q], PortPriority(q) < PortPriority(p)
               PROVE  <<p, q>> \in drops
    BY DEF RequeuePredicted
  <2>1. topo \in Topology /\ th \in Origin /\ k \in 1..Len(stack[th])
    BY ThreadsAreOrigins DEF ThreadInv, ThreadType, Threads, Depth
  <2>2. Entered(stack[th][k], "async") /\ p \in InPort
    BY <2>1, MessageEntered, CallEntered DEF Calls
  <2>3. p \in AsyncEntries /\ stack[th][k].handler \in FlowEntries(topo, p, "async")
    BY <2>2 DEF AsyncEntries, Entered
  <2>4. FlowEntries(topo, p, "async") \in SUBSET Handler
    BY <2>1, <2>2, FlowEntriesType DEF SyncKind
  <2>5. stack[th][k].handler \in ReachedByCalls(topo, FlowEntries(topo, p, "async"))
    BY <2>1, <2>3, <2>4, ReachedFacts
  <2>6. Running(th).handler \in OnThread(p)
    BY <2>1, <2>4, <2>5, RunningReached DEF OnThread
  <2>7. q \in AsyncEntries /\ q \in Destinations(topo, Running(th).handler)
    BY DEF Posts, QueueConnections, Connection, AsyncEntries, Destinations
  <2>8. <<p, q>> \in RequeueDrops
    BY <2>3, <2>6, <2>7 DEF RequeueDrops
  <2>9. QED
    BY <2>8 DEF RowsInv
<1>2. QED
  BY <1>1, ThreadAlways, RowsAlways, RuntimeAlways, PTL

-----------------------------------------------------------------------------
(* Sums of numbers. *)

\* Each element once for every unit of its number.
Units(S, f) == Pairs(S, [x \in S |-> 1..f[x]])

LEMMA UnitCount == ASSUME NEW n \in Nat PROVE IsFiniteSet(1..n) /\ Cardinality(1..n) = n
<1>1. 1 \in Int /\ n \in Int /\ (IF 1 > n THEN 0 ELSE n - 1 + 1) = n
  OBVIOUS
<1>2. QED
  BY <1>1, FS_Interval

LEMMA SumOfUnits ==
  ASSUME NEW S, IsFiniteSet(S), NEW f \in [S -> Nat]
  PROVE  /\ SumFunction(f) = Cardinality(Units(S, f)) /\ SumFunction(f) \in Nat
         /\ IsFiniteSet(Units(S, f))
<1>1. PICK B : B = [x \in S |-> 1..f[x]]
  OBVIOUS
<1>2. ASSUME NEW x \in S PROVE IsFiniteSet(B[x]) /\ Cardinality(B[x]) = f[x]
  <2>1. f[x] \in Nat /\ B[x] = 1..f[x]
    BY <1>1
  <2>2. QED
    BY <2>1, UnitCount
<1>3. SumFunction(f) = Cardinality(Pairs(S, B))
  BY <1>2, SumOfPairs
<1>4. IsFiniteSet(Pairs(S, B))
  BY <1>2, FinitePairs
<1>5. QED
  BY <1>1, <1>3, <1>4, FS_CardinalityType DEF Units

LEMMA SumOfNone == ASSUME NEW f, DOMAIN f = {} PROVE SumFunction(f) = 0
<1>1. SumFunction(f) = Cardinality(Pairs({}, f))
  BY SumOfPairs, FS_EmptySet
<1>2. Pairs({}, f) = {}
  BY DEF Pairs
<1>3. QED
  BY <1>1, <1>2, FS_EmptySet

\* One element of a sum, and the rest.
LEMMA SumApart ==
  ASSUME NEW S, IsFiniteSet(S), NEW f \in [S -> Nat], NEW x \in S
  PROVE  /\ SumFunction(f) = f[x] + SumFunction([y \in S \ {x} |-> f[y]])
         /\ SumFunction(f) >= f[x]
<1>1. PICK g, B : g = [y \in S \ {x} |-> f[y]] /\ B = [y \in S |-> 1..f[y]]
  OBVIOUS
<1>2. g \in [S \ {x} -> Nat] /\ IsFiniteSet(S \ {x})
  BY <1>1, FS_Subset
<1>3. ASSUME NEW y \in S PROVE IsFiniteSet(B[y]) /\ Cardinality(B[y]) = f[y]
  <2>1. f[y] \in Nat /\ B[y] = 1..f[y]
    BY <1>1
  <2>2. QED
    BY <2>1, UnitCount
<1>4. SumFunction(f) = Cardinality(Pairs(S, B))
  BY <1>3, SumOfPairs
<1>5. SumFunction(g) = Cardinality(Pairs(S \ {x}, B))
  <2>1. DOMAIN g = S \ {x} /\ \A y \in S \ {x} : g[y] = f[y]
    BY <1>1
  <2>2. QED
    BY <1>2, <1>3, <2>1, SumOfPairs
<1>6. Cardinality(Pairs(S, B)) = Cardinality(B[x]) + Cardinality(Pairs(S \ {x}, B))
  BY <1>3, PairsApart
<1>7. SumFunction(f) = f[x] + SumFunction(g)
  BY <1>3, <1>4, <1>5, <1>6
<1>8. SumFunction(g) \in Nat /\ f[x] \in Nat
  BY <1>2, SumOfUnits
<1>9. SumFunction(f) >= f[x]
  BY <1>7, <1>8
<1>10. QED
  BY <1>1, <1>7, <1>9

\* Sums over parts that cover a set come to the sum over the set at least.
LEMMA SumCovered ==
  ASSUME NEW C, IsFiniteSet(C), NEW f \in [C -> Nat], NEW K, IsFiniteSet(K),
         NEW D \in [K -> SUBSET C], \A c \in C : \E h \in K : c \in D[h],
         NEW g \in [K -> Nat], \A h \in K : g[h] = SumFunction([c \in D[h] |-> f[c]])
  PROVE  SumFunction(g) >= SumFunction(f)
<1>1. PICK U, A : U = [h \in K |-> Units(D[h], [c \in D[h] |-> f[c]])] /\ A = Units(C, f)
  OBVIOUS
<1>2. ASSUME NEW h \in K PROVE IsFiniteSet(U[h]) /\ Cardinality(U[h]) = g[h]
  <2>1. IsFiniteSet(D[h]) /\ [c \in D[h] |-> f[c]] \in [D[h] -> Nat]
    BY FS_Subset
  <2>2. QED
    BY <1>1, <2>1, SumOfUnits
<1>3. SumFunction(g) = Cardinality(Pairs(K, U)) /\ IsFiniteSet(Pairs(K, U))
  BY <1>2, SumOfPairs, FinitePairs
<1>4. SumFunction(f) = Cardinality(A) /\ IsFiniteSet(A)
  BY <1>1, SumOfUnits
<1>5. PICK e : e = [x \in Pairs(K, U) |-> x[2]]
  OBVIOUS
<1>6. ASSUME NEW h \in K, NEW u PROVE u \in U[h] <=> u \in A /\ u[1] \in D[h]
  <2>1. PICK W : W = [c \in D[h] |-> 1..[x \in D[h] |-> f[x]][c]]
    OBVIOUS
  <2>2. D[h] \subseteq C /\ U[h] = Pairs(D[h], W) /\ \A c \in D[h] : W[c] = 1..f[c]
    BY <1>1, <2>1 DEF Units
  <2>3. u \in U[h] <=> \E c \in D[h] : \E n \in 1..f[c] : u = <<c, n>>
    BY <2>2 DEF Pairs
  <2>4. u \in A <=> \E c \in C : \E n \in 1..f[c] : u = <<c, n>>
    BY <1>1 DEF Pairs, Units
  <2>5. QED
    BY <2>2, <2>3, <2>4
<1>7. e \in [Pairs(K, U) -> A]
  BY <1>5, <1>6 DEF Pairs
<1>8. ASSUME NEW u \in A PROVE \E x \in Pairs(K, U) : e[x] = u
  <2>1. u[1] \in C
    BY <1>1 DEF Units, Pairs
  <2>2. PICK h \in K : u[1] \in D[h]
    BY <2>1
  <2>3. <<h, u>> \in Pairs(K, U)
    BY <1>6, <2>2 DEF Pairs
  <2>4. QED
    BY <1>5, <2>3
<1>9. e \in Surjection(Pairs(K, U), A)
  BY <1>7, <1>8 DEF Surjection
<1>10. Cardinality(A) <= Cardinality(Pairs(K, U))
  BY <1>3, <1>9, FS_Surjection
<1>11. QED
  BY <1>3, <1>4, <1>10, FS_CardinalityType

-----------------------------------------------------------------------------
(* The rates. *)

\* A tick has a rate.
LEMMA TickHzType ==
  ASSUME topo \in Topology, facts \in Fact, NEW o \in OutPort, Ticks(o)
  PROVE  TickHz(o) \in Nat
<1>1. PICK i, base, divisors, index :
        /\ i = topo.owner[o] /\ base = DriverBaseHz(i) /\ divisors = DriverDivisors(i)
        /\ index = facts.rates.index[o]
  OBVIOUS
<1>2. i \in Instance /\ facts.rates \in RateFact
  BY <1>1 DEF Topology, Handler, Fact
<1>3. /\ base # None /\ divisors # None /\ index # None
      /\ index < Len(divisors) /\ divisors[index + 1] > 0
  BY <1>1 DEF Ticks
<1>4. index \in Nat
  BY <1>1, <1>2, <1>3 DEF RateFact, Optional
<1>5. base \in Nat
  <2>1. PICK timers : timers = Timers(i) \cap Known(facts.rates.timerHz)
    OBVIOUS
  <2>2. base = IF timers # {} THEN facts.rates.timerHz[CHOOSE t \in timers : TRUE]
               ELSE TheOnly(facts.rates.baseHz)
    BY <1>1, <2>1 DEF DriverBaseHz
  <2>3. facts.rates.timerHz \in [Instance -> Optional(Nat)] /\ facts.rates.baseHz \subseteq Nat
    BY <1>2 DEF RateFact
  <2>4. CASE timers # {}
    <3>1. PICK t \in timers : base = facts.rates.timerHz[t]
      BY <2>2, <2>4
    <3>2. t \in Instance
      BY <2>1, <2>3 DEF Known
    <3>3. QED
      BY <1>3, <2>3, <3>1, <3>2 DEF Optional
  <2>5. CASE timers = {}
    BY <1>3, <2>2, <2>3, <2>5 DEF TheOnly
  <2>6. QED
    BY <2>4, <2>5
<1>6. divisors \in Seq(Int)
  <2>1. facts.rates.dividers \in [DividerSet -> Optional(Seq(Int))]
    BY <1>2 DEF RateFact
  <2>2. PICK known : known = Known(facts.rates.dividers)
    OBVIOUS
  <2>3. known \subseteq DividerSet
    BY <2>1, <2>2 DEF Known
  <2>4. PICK used : used = {facts.rates.uses[i]} \cap known
    OBVIOUS
  <2>5. PICK d : d = TheOnly(IF used # {} THEN used ELSE known)
    OBVIOUS
  <2>6. divisors = IF d = None THEN None ELSE facts.rates.dividers[d]
    BY <1>1, <2>2, <2>4, <2>5 DEF DriverDivisors
  <2>7. d # None => d \in DividerSet
    BY <2>3, <2>4, <2>5 DEF TheOnly
  <2>8. QED
    BY <1>3, <2>1, <2>6, <2>7 DEF Optional
<1>7. PICK n : n = divisors[index + 1]
  OBVIOUS
<1>8. n \in Nat /\ n > 0
  <2>1. index + 1 \in 1..Len(divisors) /\ Len(divisors) \in Nat
    BY <1>3, <1>4, <1>6
  <2>2. n \in Int
    BY <1>6, <1>7, <2>1
  <2>3. QED
    BY <1>3, <1>7, <2>2
<1>9. TickHz(o) = base \div n
  BY <1>1, <1>7 DEF TickHz
<1>10. QED
  BY <1>5, <1>8, <1>9

\* The rates of a run, as far as the topology, the input and the groups decide them.
LEMMA RootsType ==
  ASSUME topo \in Topology, facts \in Fact, groupHz \in [Instance -> Optional(Nat)]
  PROVE  /\ Roots \subseteq OutPort /\ IsFiniteSet(Roots) /\ \A r \in Roots : RootHz(r) \in Nat
         /\ GroupTicks \subseteq OutPort /\ \A o \in GroupTicks : TickHz(o) \in Nat
<1>1. facts.rates.member \subseteq OutPort
  BY DEF Fact, RateFact
<1>2. Roots \subseteq OutPort /\ IsFiniteSet(Roots)
  BY <1>1, NamesAssumption, FS_Subset DEF Roots
<1>3. ASSUME NEW r \in Roots PROVE RootHz(r) \in Nat
  <2>1. topo.owner[r] \in Instance /\ groupHz[topo.owner[r]] # None
    BY <1>2 DEF Topology, Roots
  <2>2. QED
    BY <2>1 DEF RootHz, Optional
<1>4. GroupTicks \subseteq OutPort /\ \A o \in GroupTicks : TickHz(o) \in Nat
  BY TickHzType DEF GroupTicks, Drivers
<1>5. QED
  BY <1>2, <1>3, <1>4

LEMMA SameTicks ==
  ASSUME UNCHANGED <<topo, facts, groupHz>>
  PROVE  /\ Roots' = Roots /\ \A r : RootHz(r)' = RootHz(r)
         /\ \A r : TickHandlers(r)' = TickHandlers(r)
         /\ \A o : TickRate(o)' = TickRate(o)
<1>1. Roots' = Roots /\ \A r : RootHz(r)' = RootHz(r)
  BY DEF Roots, RootHz
<1>2. \A r : TickHandlers(r)' = TickHandlers(r)
  BY DEF TickHandlers
<1>3. \A S : SumHz(S)' = SumHz(S)
  BY <1>1 DEF SumHz
<1>4. \A o : TickHz(o)' = TickHz(o)
  BY DEF TickHz, DriverBaseHz, Timers, DriverDivisors
<1>5. GroupTicks' = GroupTicks
  BY DEF GroupTicks, Drivers, Ticks, DriverBaseHz, Timers, DriverDivisors
<1>6. ASSUME NEW o PROVE TickRate(o)' = TickRate(o)
  <2>1. {r \in Roots : \E h \in TickHandlers(r) : o \in OutputsFor(topo, h)}'
        = {r \in Roots : \E h \in TickHandlers(r) : o \in OutputsFor(topo, h)}
    BY <1>1, <1>2
  <2>2. QED
    BY <1>1, <1>3, <1>4, <1>5, <2>1 DEF TickRate
<1>7. QED
  BY <1>1, <1>2, <1>6

\* The handlers of a tick: those of the members, and whom they call.
LEMMA TickHandlersFacts ==
  ASSUME topo \in Topology, NEW r \in OutPort
  PROVE  /\ TickHandlers(r) \subseteq Handler
         /\ \A p \in topo.wires[r] : \A k \in InputSyncKinds(topo, p) :
              FlowEntries(topo, p, k) \subseteq TickHandlers(r)
         /\ \A h \in TickHandlers(r) : NextHandlers(topo, h) \subseteq TickHandlers(r)
         /\ \A C \in SUBSET Handler :
              /\ \A p \in topo.wires[r] : \A k \in InputSyncKinds(topo, p) :
                   FlowEntries(topo, p, k) \subseteq C
              /\ \A h \in C : NextHandlers(topo, h) \subseteq C
              => TickHandlers(r) \subseteq C
<1>1. PICK M : M = UNION {UNION {FlowEntries(topo, p, k) : k \in InputSyncKinds(topo, p)} :
                            p \in topo.wires[r]}
  OBVIOUS
<1>2. TickHandlers(r) = ReachedByCalls(topo, M)
  BY <1>1 DEF TickHandlers
<1>3. topo.wires[r] \subseteq InPort
  BY DEF Topology
<1>4. \A p \in topo.wires[r] : \A k \in InputSyncKinds(topo, p) : FlowEntries(topo, p, k) \subseteq M
  BY <1>1
<1>5. M \in SUBSET Handler
  BY <1>1, <1>3, InputSyncKindsType, FlowEntriesType
<1>6. \A C : (\A p \in topo.wires[r] : \A k \in InputSyncKinds(topo, p) :
                FlowEntries(topo, p, k) \subseteq C) => M \subseteq C
  BY <1>1
<1>7. /\ ReachedByCalls(topo, M) \subseteq Handler /\ M \subseteq ReachedByCalls(topo, M)
      /\ \A h \in ReachedByCalls(topo, M) : NextHandlers(topo, h) \subseteq ReachedByCalls(topo, M)
      /\ \A C \in SUBSET Handler :
           M \subseteq C /\ (\A h \in C : NextHandlers(topo, h) \subseteq C)
           => ReachedByCalls(topo, M) \subseteq C
  BY <1>5, ReachedFacts
<1>8. \A p \in topo.wires[r] : \A k \in InputSyncKinds(topo, p) :
        FlowEntries(topo, p, k) \subseteq TickHandlers(r)
  BY <1>2, <1>4, <1>7
<1>9. ASSUME NEW C \in SUBSET Handler,
             \A p \in topo.wires[r] : \A k \in InputSyncKinds(topo, p) :
               FlowEntries(topo, p, k) \subseteq C,
             \A h \in C : NextHandlers(topo, h) \subseteq C
      PROVE  TickHandlers(r) \subseteq C
  BY <1>2, <1>6, <1>7, <1>9
<1>10. QED
  BY <1>2, <1>7, <1>8, <1>9

\* A port is invoked by a tick: it is still to be looked at, or its handlers were.
Handled(r, p, k) ==
  \/ [root |-> r, port |-> p, kind |-> k] \in work
  \/ \A h \in FlowEntries(topo, p, k) : <<r, h, k>> \in seen

\* What the worklist finds happens in a tick.
Ticked ==
  /\ work \subseteq [root : Roots, port : InPort, kind : SyncKind]
  /\ \A x \in work : FlowEntries(topo, x.port, x.kind) \subseteq TickHandlers(x.root)
  /\ seen \subseteq Roots \X Handler \X SyncKind
  /\ reached \subseteq Roots \X InPort
  /\ offered \subseteq Roots \X OutPort
  /\ \A c \in offered : \E h \in TickHandlers(c[1]) : c[2] \in OutputsFor(topo, h)

\* What happens in a tick is found, or is still to be.
Followed ==
  /\ \A r \in Roots : \A p \in topo.wires[r] : \A k \in InputSyncKinds(topo, p) : Handled(r, p, k)
  /\ \A m \in seen : /\ \A o \in OutputsFor(topo, m[2]) : <<m[1], o>> \in offered
                     /\ \A hop \in ThreadHops(topo, m[2]) : Handled(m[1], hop.port, hop.kind)

RatesInv ==
  /\ groupHz \in [Instance -> Optional(Nat)] /\ consumed \in [Instance -> Optional(Nat)]
  /\ status \in {"inferring", "rooting"} => seen = {} /\ reached = {} /\ offered = {}
  /\ status = "propagating" => Ticked /\ Followed
  /\ status \in {"analyzing", "done"} => \A o \in OutPort : produced[o] = TickRate(o)

LEMMA RatesInit == ASSUME Init PROVE RatesInv
<1>1. /\ groupHz = [i \in Instance |-> None] /\ consumed = [i \in Instance |-> None]
      /\ status = "inferring" /\ seen = {} /\ reached = {} /\ offered = {}
  BY DEF Init, RateInit
<1>2. QED
  BY <1>1 DEF RatesInv, Optional

\* They stay when nothing about them changes.
LEMMA RatesStay ==
  ASSUME RatesInv, UNCHANGED inputVars,
         status' = status \/ status' = "refused" \/ (status = "analyzing" /\ status' = "done")
  PROVE  RatesInv'
<1>1. UNCHANGED <<topo, facts, groupHz, work, seen, reached, offered, produced, consumed>>
  BY DEF inputVars, rateVars, propagationVars
<1>2. Ticked => Ticked'
  BY <1>1, SameTicks DEF Ticked
<1>3. Followed => Followed'
  BY <1>1, SameTicks DEF Followed, Handled
<1>4. QED
  BY <1>1, <1>2, <1>3, SameTicks DEF RatesInv

LEMMA InferGroupsKeeps ==
  ASSUME topo \in Topology, facts \in Fact, RatesInv, InferGroups
  PROVE  RatesInv'
<1>1. PICK hz \in [facts.rates.groups -> Optional({TickHz(o) : o \in GroupTicks})] :
        groupHz' = [i \in Instance |-> IF i \in DOMAIN hz THEN hz[i] ELSE None]
  BY DEF InferGroups
<1>2. \A o \in GroupTicks : TickHz(o) \in Nat
  BY RootsType, TickHzType DEF GroupTicks, Drivers
<1>3. \A g \in DOMAIN hz : hz[g] \in Optional(Nat)
  BY <1>2 DEF Optional
<1>4. groupHz' \in [Instance -> Optional(Nat)]
  BY <1>1, <1>3 DEF Optional
<1>5. /\ status = "inferring" /\ status' = "rooting"
      /\ UNCHANGED <<seen, reached, offered, consumed>>
  BY DEF InferGroups, propagationVars
<1>6. QED
  BY <1>4, <1>5 DEF RatesInv

LEMMA StartPropagationKeeps ==
  ASSUME topo \in Topology, facts \in Fact, RatesInv, StartPropagation
  PROVE  RatesInv'
<1>1. /\ status = "rooting" /\ status' = "propagating"
      /\ UNCHANGED <<topo, facts, groupHz, seen, reached, offered, consumed>>
      /\ work' = UNION {UNION {Invocation(r, p) : p \in topo.wires[r]} : r \in Roots}
      /\ seen = {} /\ reached = {} /\ offered = {}
      /\ groupHz \in [Instance -> Optional(Nat)] /\ consumed \in [Instance -> Optional(Nat)]
  BY DEF StartPropagation, RatesInv
<1>2. Roots \subseteq OutPort
  BY <1>1, RootsType
<1>3. ASSUME NEW x
      PROVE  x \in work' <=>
               \E r \in Roots : \E p \in topo.wires[r] : \E k \in InputSyncKinds(topo, p) :
                 x = [root |-> r, port |-> p, kind |-> k]
  BY <1>1 DEF Invocation
<1>4. ASSUME NEW x \in work'
      PROVE  /\ x \in [root : Roots, port : InPort, kind : SyncKind]
             /\ FlowEntries(topo, x.port, x.kind) \subseteq TickHandlers(x.root)
  <2>1. PICK r, p, k : /\ r \in Roots /\ p \in topo.wires[r] /\ k \in InputSyncKinds(topo, p)
                        /\ x = [root |-> r, port |-> p, kind |-> k]
    BY <1>3
  <2>2. p \in InPort /\ r \in OutPort
    BY <1>2, <2>1 DEF Topology
  <2>3. k \in SyncKind
    BY <2>1, <2>2, InputSyncKindsType
  <2>4. QED
    BY <2>1, <2>2, <2>3, TickHandlersFacts
<1>5. Ticked'
  BY <1>1, <1>4, SameTicks DEF Ticked
<1>6. Followed'
  BY <1>1, <1>3, SameTicks DEF Followed, Handled
<1>7. QED
  BY <1>1, <1>5, <1>6 DEF RatesInv

\* One turn of the worklist keeps to the tick, and forgets nothing.
LEMMA PropagateTicked ==
  ASSUME topo \in Topology, facts \in Fact, RatesInv, NEW item \in work, Propagate(item)
  PROVE  Ticked'
<1>1. /\ status = "propagating" /\ UNCHANGED <<topo, facts, groupHz>>
      /\ reached' = reached \cup {<<item.root, item.port>>}
      /\ seen' = seen \cup {Marker(item, h) : h \in Fresh(item)}
      /\ offered' = offered \cup ({item.root} \X Outputs(item))
      /\ work' = (work \ {item}) \cup Onward(item)
  BY DEF Propagate
<1>2. Ticked /\ Roots \subseteq OutPort
  BY <1>1, RootsType DEF RatesInv
<1>3. PICK r, p, k : r = item.root /\ p = item.port /\ k = item.kind
  OBVIOUS
<1>4. /\ r \in Roots /\ r \in OutPort /\ p \in InPort /\ k \in SyncKind
      /\ FlowEntries(topo, p, k) \subseteq TickHandlers(r)
  BY <1>2, <1>3 DEF Ticked
<1>5. Fresh(item) \subseteq TickHandlers(r) /\ Fresh(item) \subseteq Handler
  BY <1>3, <1>4, TickHandlersFacts DEF Fresh
<1>6. \A o \in Outputs(item) : o \in OutPort /\ \E h \in TickHandlers(r) : o \in OutputsFor(topo, h)
  BY <1>5 DEF Outputs, OutputsFor, OutputPorts
<1>7. ASSUME NEW x \in Onward(item)
      PROVE  /\ x \in [root : Roots, port : InPort, kind : SyncKind]
             /\ FlowEntries(topo, x.port, x.kind) \subseteq TickHandlers(x.root)
  <2>1. PICK o, q, j : /\ o \in Outputs(item) /\ q \in topo.wires[o] /\ j \in InputSyncKinds(topo, q)
                        /\ x = [root |-> r, port |-> q, kind |-> j] /\ j # "async"
    BY <1>3 DEF Onward, Invocation
  <2>2. PICK h \in TickHandlers(r) : o \in OutputsFor(topo, h)
    BY <1>6, <2>1
  <2>3. q \in InPort
    BY <1>6, <2>1 DEF Topology
  <2>4. j \in SyncKind
    BY <2>1, <2>3, InputSyncKindsType
  <2>5. FlowEntries(topo, q, j) \subseteq NextHandlers(topo, h)
    <3>1. q \in Destinations(topo, h)
      BY <2>1, <2>2 DEF Destinations
    <3>2. [port |-> q, kind |-> j] \in ThreadHops(topo, h)
      BY <2>1, <3>1 DEF ThreadHops, OutwardHops
    <3>3. QED
      BY <3>2 DEF NextHandlers
  <2>6. NextHandlers(topo, h) \subseteq TickHandlers(r)
    BY <1>4, TickHandlersFacts
  <2>7. QED
    BY <1>4, <2>1, <2>3, <2>4, <2>5, <2>6
<1>8. ASSUME NEW x \in work'
      PROVE  /\ x \in [root : Roots, port : InPort, kind : SyncKind]
             /\ FlowEntries(topo, x.port, x.kind) \subseteq TickHandlers(x.root)
  BY <1>1, <1>2, <1>7 DEF Ticked
<1>9. seen' \subseteq Roots \X Handler \X SyncKind
  BY <1>1, <1>2, <1>3, <1>4, <1>5 DEF Ticked, Marker
<1>10. reached' \subseteq Roots \X InPort
  BY <1>1, <1>2, <1>3, <1>4 DEF Ticked
<1>11. offered' \subseteq Roots \X OutPort
  BY <1>1, <1>2, <1>3, <1>4, <1>6 DEF Ticked
<1>12. \A c \in offered' : \E h \in TickHandlers(c[1]) : c[2] \in OutputsFor(topo, h)
  BY <1>1, <1>2, <1>3, <1>6 DEF Ticked
<1>13. QED
  BY <1>1, <1>8, <1>9, <1>10, <1>11, <1>12, SameTicks DEF Ticked

LEMMA PropagateFollowed ==
  ASSUME topo \in Topology, facts \in Fact, RatesInv, NEW item \in work, Propagate(item)
  PROVE  Followed'
<1>1. /\ status = "propagating" /\ UNCHANGED <<topo, facts, groupHz>>
      /\ seen' = seen \cup {Marker(item, h) : h \in Fresh(item)}
      /\ offered' = offered \cup ({item.root} \X Outputs(item))
      /\ work' = (work \ {item}) \cup Onward(item)
  BY DEF Propagate
<1>2. Ticked /\ Followed
  BY <1>1 DEF RatesInv
<1>3. PICK r, p, k : r = item.root /\ p = item.port /\ k = item.kind
  OBVIOUS
<1>4. item = [root |-> r, port |-> p, kind |-> k]
  BY <1>2, <1>3 DEF Ticked
<1>5. ASSUME NEW s, NEW q, NEW j, Handled(s, q, j) PROVE Handled(s, q, j)'
  <2>1. CASE \A h \in FlowEntries(topo, q, j) : <<s, h, j>> \in seen
    BY <1>1, <2>1 DEF Handled
  <2>2. CASE [root |-> s, port |-> q, kind |-> j] \in work \ {item}
    BY <1>1, <2>2 DEF Handled
  <2>3. CASE [root |-> s, port |-> q, kind |-> j] = item
    <3>1. s = r /\ q = p /\ j = k
      BY <1>3, <2>3
    <3>2. \A h \in FlowEntries(topo, p, k) : <<r, h, k>> \in seen'
      BY <1>1, <1>3 DEF Fresh, Marker
    <3>3. QED
      BY <1>1, <3>1, <3>2 DEF Handled
  <2>4. QED
    BY <1>5, <2>1, <2>2, <2>3 DEF Handled
<1>6. ASSUME NEW m \in seen', NEW o \in OutputsFor(topo, m[2])
      PROVE  <<m[1], o>> \in offered'
  <2>1. CASE m \in seen
    BY <1>1, <1>2, <2>1 DEF Followed
  <2>2. CASE m \notin seen
    <3>1. PICK h \in Fresh(item) : m = <<r, h, k>>
      BY <1>1, <1>3, <2>2 DEF Marker
    <3>2. o \in Outputs(item) /\ m[1] = r
      BY <3>1 DEF Outputs
    <3>3. QED
      BY <1>1, <1>3, <3>2
  <2>3. QED
    BY <2>1, <2>2
<1>7. ASSUME NEW m \in seen', NEW hop \in ThreadHops(topo, m[2])
      PROVE  Handled(m[1], hop.port, hop.kind)'
  <2>1. CASE m \in seen
    BY <1>2, <1>5, <2>1 DEF Followed
  <2>2. CASE m \notin seen
    <3>1. PICK h \in Fresh(item) : m = <<r, h, k>>
      BY <1>1, <1>3, <2>2 DEF Marker
    <3>2. PICK o, q, j : /\ o \in OutputsFor(topo, h) /\ q \in topo.wires[o]
                          /\ j \in InputSyncKinds(topo, q)
                          /\ hop = [port |-> q, kind |-> j] /\ j # "async"
      BY <3>1 DEF ThreadHops, OutwardHops, Destinations
    <3>3. o \in Outputs(item)
      BY <3>1, <3>2 DEF Outputs
    <3>4. [root |-> r, port |-> q, kind |-> j] \in Onward(item)
      BY <1>3, <3>2, <3>3 DEF Onward, Invocation
    <3>5. m[1] = r /\ hop.port = q /\ hop.kind = j
      BY <3>1, <3>2
    <3>6. [root |-> m[1], port |-> hop.port, kind |-> hop.kind] \in work'
      BY <1>1, <3>4, <3>5
    <3>7. QED
      BY <3>6 DEF Handled
  <2>3. QED
    BY <2>1, <2>2
<1>8. \A s \in Roots : \A q \in topo.wires[s] : \A j \in InputSyncKinds(topo, q) : Handled(s, q, j)'
  BY <1>2, <1>5 DEF Followed
<1>9. QED
  BY <1>1, <1>6, <1>7, <1>8, SameTicks DEF Followed

LEMMA PropagateKeeps ==
  ASSUME topo \in Topology, facts \in Fact, RatesInv, NEW item \in work, Propagate(item)
  PROVE  RatesInv'
<1>1. status = "propagating" /\ UNCHANGED <<groupHz, consumed, status>>
  BY DEF Propagate
<1>2. QED
  BY <1>1, PropagateTicked, PropagateFollowed DEF RatesInv

\* Once nothing is left to look at, an output is offered by the ticks that reach it.
LEMMA OfferedExactly ==
  ASSUME topo \in Topology, facts \in Fact, RatesInv, status = "propagating", work = {},
         NEW r \in Roots, NEW o \in OutPort
  PROVE  <<r, o>> \in offered <=> \E h \in TickHandlers(r) : o \in OutputsFor(topo, h)
<1>1. Ticked /\ Followed /\ r \in OutPort
  BY RootsType DEF RatesInv
<1>2. PICK T : T = {h \in Handler : \E k : <<r, h, k>> \in seen}
  OBVIOUS
<1>3. \A p, k : Handled(r, p, k) => FlowEntries(topo, p, k) \cap Handler \subseteq T
  BY <1>2 DEF Handled
<1>4. \A p \in topo.wires[r] : \A k \in InputSyncKinds(topo, p) : FlowEntries(topo, p, k) \subseteq T
  BY <1>1, <1>3, TickHandlersFacts DEF Followed
<1>5. ASSUME NEW h \in T PROVE NextHandlers(topo, h) \subseteq T
  <2>1. PICK k : <<r, h, k>> \in seen
    BY <1>2
  <2>2. \A hop \in ThreadHops(topo, h) : Handled(r, hop.port, hop.kind)
    BY <1>1, <2>1 DEF Followed
  <2>3. NextHandlers(topo, h) \subseteq Handler
    BY <1>2, HopsType
  <2>4. QED
    BY <1>3, <2>2, <2>3 DEF NextHandlers
<1>6. T \in SUBSET Handler
  BY <1>2
<1>7. TickHandlers(r) \subseteq T
  BY <1>1, <1>4, <1>5, <1>6, TickHandlersFacts
<1>8. ASSUME NEW h \in TickHandlers(r), o \in OutputsFor(topo, h) PROVE <<r, o>> \in offered
  <2>1. PICK k : <<r, h, k>> \in seen
    BY <1>2, <1>7
  <2>2. QED
    BY <1>1, <1>8, <2>1 DEF Followed
<1>9. <<r, o>> \in offered => \E h \in TickHandlers(r) : o \in OutputsFor(topo, h)
  BY <1>1 DEF Ticked
<1>10. QED
  BY <1>8, <1>9

LEMMA FinishRatesKeeps ==
  ASSUME topo \in Topology, facts \in Fact, RatesInv, FinishRates
  PROVE  RatesInv'
<1>1. /\ status = "propagating" /\ work = {} /\ status' = "analyzing"
      /\ UNCHANGED <<topo, facts, groupHz>>
  BY DEF FinishRates
<1>2. Roots \subseteq OutPort /\ IsFiniteSet(Roots) /\ \A r \in Roots : RootHz(r) \in Nat
  BY RootsType DEF RatesInv
<1>3. ASSUME NEW o \in OutPort PROVE produced'[o] = TickRate(o)
  <2>1. produced'[o] = IF o \in Roots THEN RootHz(o)
                       ELSE IF o \in GroupTicks THEN TickHz(o)
                       ELSE SumHz({r \in Roots : <<r, o>> \in offered})
    BY DEF FinishRates
  <2>2. {r \in Roots : <<r, o>> \in offered}
        = {r \in Roots : \E h \in TickHandlers(r) : o \in OutputsFor(topo, h)}
    BY <1>1, OfferedExactly
  <2>3. QED
    BY <2>1, <2>2 DEF TickRate
<1>4. ASSUME NEW i \in Instance PROVE consumed'[i] \in Optional(Nat)
  <2>1. PICK entries : entries = {c \in reached : topo.owner[c[2]] = i /\ c[2] \in facts.rates.drains}
    OBVIOUS
  <2>2. consumed'[i] = IF topo.component[i] # "queued" \/ entries = {} THEN None
                       ELSE SumFunction([c \in entries |-> RootHz(c[1])])
    BY <2>1 DEF FinishRates
  <2>3. entries \subseteq Roots \X InPort
    BY <1>1, <2>1 DEF RatesInv, Ticked
  <2>4. IsFiniteSet(entries)
    BY <1>2, <2>3, NamesAssumption, FS_Product, FS_Subset
  <2>5. [c \in entries |-> RootHz(c[1])] \in [entries -> Nat]
    BY <1>2, <2>3
  <2>6. SumFunction([c \in entries |-> RootHz(c[1])]) \in Nat
    BY <2>4, <2>5, SumOfUnits
  <2>7. QED
    BY <2>2, <2>6 DEF Optional
<1>5. consumed' \in [Instance -> Optional(Nat)]
  <2>1. DOMAIN consumed' = Instance /\ consumed' = [i \in DOMAIN consumed' |-> consumed'[i]]
    BY DEF FinishRates
  <2>2. QED
    BY <1>4, <2>1
<1>6. \A o \in OutPort : produced'[o] = TickRate(o)'
  BY <1>1, <1>3, SameTicks
<1>7. QED
  BY <1>1, <1>5, <1>6 DEF RatesInv

LEMMA RatesStep ==
  ASSUME ThreadInv, RatesInv, [Next]_vars
  PROVE  RatesInv'
<1>1. topo \in Topology /\ facts \in Fact
  BY DEF ThreadInv, ThreadType
<1>2. CASE InferRates
  <2>1. CASE RefuseRates
    <3>1. UNCHANGED inputVars /\ status' = "refused"
      BY <2>1 DEF RefuseRates, inputVars, rateVars
    <3>2. QED
      BY <3>1, RatesStay
  <2>2. QED
    BY <1>1, <1>2, <2>1, InferGroupsKeeps, StartPropagationKeeps, FinishRatesKeeps, PropagateKeeps
    DEF InferRates, RatesNext
<1>3. CASE FindDrops
  <2>1. UNCHANGED inputVars /\ status = "analyzing" /\ status' = "done"
    BY <1>3 DEF FindDrops, Analyzed
  <2>2. QED
    BY <2>1, RatesStay
<1>4. CASE Refuse
  <2>1. UNCHANGED inputVars /\ status' = "refused"
    BY <1>4 DEF Refuse
  <2>2. QED
    BY <2>1, RatesStay
<1>5. CASE Take \/ Recall \/ Ask \/ AskCaller \/ Resolve \/ Count \/ UNCHANGED vars
  <2>1. UNCHANGED inputVars /\ status' = status
    BY <1>5 DEF Take, Recall, Ask, AskCaller, Resolve, Return, Count, vars
  <2>2. QED
    BY <2>1, RatesStay
<1>6. QED
  BY <1>2, <1>3, <1>4, <1>5 DEF Next

\* A tick takes the rate its group has.
LEMMA RatesAlways == DeploymentSpec => []RatesInv
<1>1. DeploymentInit => RatesInv
  BY RatesInit DEF DeploymentInit
<1>2. ThreadInv /\ RatesInv /\ [AnalyzeThenRun]_<<vars, stack, wants>> => RatesInv'
  BY RatesStep, AnalysisSteps
<1>3. QED
  BY <1>1, <1>2, ThreadAlways, PTL DEF DeploymentSpec

\* TicksPredicted always holds (rate_groups.py:183-242): while a rate group's tick
\* runs, what the running handler may invoke has a rate, and no less than the group's.
THEOREM TicksPredictedHolds == DeploymentSpec => []TicksPredicted
<1>1. ThreadInv /\ RatesInv /\ RtInv => TicksPredicted
  <2> SUFFICES ASSUME ThreadInv, RatesInv, RtInv, status = "done", NEW th \in ActiveThreads,
                      NEW k \in 1..(Depth(th) - 1), NEW root \in OutPort, InTick(th, k, root),
                      NEW o \in OutputsFor(topo, Running(th).handler),
                      o \notin facts.rates.member, o \notin GroupTicks
               PROVE  produced[o] # None /\ produced[o] >= RootHz(root)
    BY DEF TicksPredicted
  <2>1. topo \in Topology /\ facts \in Fact /\ th \in Origin /\ Depth(th) = Len(stack[th])
    BY ThreadsAreOrigins DEF ThreadInv, ThreadType, Threads, Depth
  <2>2. Len(stack[th]) \in Nat /\ k \in Nat /\ k + 1 \in 1..Len(stack[th])
    BY <2>1 DEF RtInv, RtType
  <2>3. PICK n : n = k + 1
    OBVIOUS
  <2>4. n \in 1..Len(stack[th]) /\ Within(th, n)
    BY <2>1, <2>2, <2>3 DEF InTick, Within
  <2>5. PICK c : c = stack[th][n]
    OBVIOUS
  <2>6. PICK kind : Entered(c, kind)
    BY <2>1, <2>4, <2>5, CallEntered
  <2>7. PICK M : M = UNION {UNION {FlowEntries(topo, p, j) : j \in InputSyncKinds(topo, p)} :
                              p \in topo.wires[root]}
    OBVIOUS
  <2>8. c.port \in topo.wires[root] /\ c.handler \in M
    BY <2>3, <2>5, <2>6, <2>7 DEF InTick, Entered
  <2>9. M \in SUBSET Handler /\ TickHandlers(root) = ReachedByCalls(topo, M)
    <3>1. topo.wires[root] \subseteq InPort
      BY <2>1 DEF Topology
    <3>2. M \subseteq Handler
      BY <2>1, <2>7, <3>1, InputSyncKindsType, FlowEntriesType
    <3>3. QED
      BY <2>7, <3>2 DEF TickHandlers
  <2>10. Running(th).handler \in TickHandlers(root)
    <3>1. c.handler \in ReachedByCalls(topo, M)
      BY <2>1, <2>8, <2>9, ReachedFacts
    <3>2. QED
      BY <2>1, <2>4, <2>5, <2>9, <3>1, RunningReached
  <2>11. PICK S : S = {r \in Roots : \E h \in TickHandlers(r) : o \in OutputsFor(topo, h)}
    OBVIOUS
  <2>12. root \in S /\ o \notin Roots /\ o \in OutPort
    BY <2>10, <2>11 DEF InTick, Roots, OutputsFor, OutputPorts
  <2>13. produced[o] = SumFunction([r \in S |-> RootHz(r)])
    BY <2>11, <2>12 DEF RatesInv, TickRate, SumHz
  <2>14. IsFiniteSet(S) /\ [r \in S |-> RootHz(r)] \in [S -> Nat]
    BY <2>1, <2>11, RootsType, FS_Subset DEF RatesInv
  <2>15. produced[o] >= RootHz(root) /\ produced[o] \in Nat
    <3>1. PICK f : f = [r \in S |-> RootHz(r)]
      OBVIOUS
    <3>2. SumFunction(f) >= f[root] /\ f[root] = RootHz(root)
      BY <2>12, <2>14, <3>1, SumApart
    <3>3. SumFunction(f) \in Nat
      BY <2>14, <3>1, SumOfUnits
    <3>4. QED
      BY <2>13, <3>1, <3>2, <3>3
  <2>16. QED
    BY <2>15, NoneApart
<1>2. QED
  BY <1>1, ThreadAlways, RatesAlways, RuntimeAlways, PTL

-----------------------------------------------------------------------------
(* The rates of the queues. *)

\* What the connections of a set bring, each output at its rate.
Rated(rates, C) == {c \in C : rates[c[1]] # None}
RateOf(rates, C) ==
  [hz |-> SumFunction([c \in Rated(rates, C) |-> rates[c[1]]]),
   unknown |-> \E c \in C : rates[c[1]] = None]

LEMMA RateOfNone == \A rates : RateOf(rates, {}) = NoRate
<1> SUFFICES ASSUME NEW rates PROVE RateOf(rates, {}) = NoRate
  OBVIOUS
<1>1. PICK f : f = [c \in Rated(rates, {}) |-> rates[c[1]]]
  OBVIOUS
<1>2. DOMAIN f = {}
  BY <1>1 DEF Rated
<1>3. SumFunction(f) = 0
  BY <1>2, SumOfNone
<1>4. QED
  BY <1>1, <1>3 DEF RateOf, NoRate

LEMMA AddRateIs ==
  ASSUME NEW n, NEW u, NEW hz
  PROVE  AddRate([hz |-> n, unknown |-> u], hz)
         = IF hz = None THEN [hz |-> n, unknown |-> TRUE] ELSE [hz |-> n + hz, unknown |-> u]
<1>1. PICK total : total = [hz |-> n, unknown |-> u]
  OBVIOUS
<1>2. total.hz = n /\ total.unknown = u /\ DOMAIN total = {"hz", "unknown"}
  BY <1>1
<1>3. [total EXCEPT !.unknown = TRUE] = [hz |-> n, unknown |-> TRUE]
  <2>1. \A b : [total EXCEPT !.unknown = b] = [hz |-> n, unknown |-> b]
    BY <1>1
  <2>2. QED
    BY ONLY <2>1
<1>4. PICK m : m = n + hz
  OBVIOUS
<1>5. [total EXCEPT !.hz = m] = [hz |-> m, unknown |-> u]
  BY <1>1
<1>6. [total EXCEPT !.hz = @ + hz] = [total EXCEPT !.hz = m]
  BY <1>2, <1>4
<1>7. QED
  BY <1>1, <1>3, <1>4, <1>5, <1>6 DEF AddRate

\* One connection more.
LEMMA RateOfMore ==
  ASSUME NEW rates, NEW C, IsFiniteSet(C), NEW c, c \notin C,
         \A x \in C \cup {c} : rates[x[1]] \in Optional(Nat)
  PROVE  RateOf(rates, C \cup {c}) = AddRate(RateOf(rates, C), rates[c[1]])
<1>1. PICK K, f, hz, u : /\ K = Rated(rates, C) /\ f = [x \in K |-> rates[x[1]]]
                         /\ hz = rates[c[1]] /\ u = (\E x \in C : rates[x[1]] = None)
  OBVIOUS
<1>2. RateOf(rates, C) = [hz |-> SumFunction(f), unknown |-> u]
  BY <1>1 DEF RateOf
<1>3. CASE hz = None
  <2>1. Rated(rates, C \cup {c}) = K
    BY <1>1, <1>3 DEF Rated
  <2>2. RateOf(rates, C \cup {c}) = [hz |-> SumFunction(f), unknown |-> TRUE]
    BY <1>1, <1>3, <2>1 DEF RateOf
  <2>3. AddRate(RateOf(rates, C), hz) = [hz |-> SumFunction(f), unknown |-> TRUE]
    <3>1. PICK n : n = SumFunction(f)
      OBVIOUS
    <3>2. AddRate([hz |-> n, unknown |-> u], hz) = [hz |-> n, unknown |-> TRUE]
      BY ONLY <1>3, AddRateIs
    <3>3. QED
      BY <1>2, <3>1, <3>2
  <2>4. QED
    BY <1>1, <2>2, <2>3
<1>4. CASE hz # None
  <2>1. PICK g : g = [x \in K \cup {c} |-> rates[x[1]]]
    OBVIOUS
  <2>2. Rated(rates, C \cup {c}) = K \cup {c} /\ K \subseteq C
    BY <1>1, <1>4 DEF Rated
  <2>3. IsFiniteSet(K \cup {c}) /\ (K \cup {c}) \ {c} = K
    BY <2>2, FS_Subset, FS_AddElement
  <2>4. \A x \in K \cup {c} : rates[x[1]] \in Nat
    BY <1>1, <1>4, <2>2 DEF Rated, Optional
  <2>5. g \in [K \cup {c} -> Nat] /\ g[c] = hz
    BY <1>1, <2>1, <2>4
  <2>6. [x \in (K \cup {c}) \ {c} |-> g[x]] = f
    BY <1>1, <2>1, <2>3
  <2>7. SumFunction(g) = hz + SumFunction(f)
    BY <2>3, <2>5, <2>6, SumApart
  <2>8. SumFunction(f) \in Nat /\ hz \in Nat
    <3>1. IsFiniteSet(K) /\ f \in [K -> Nat]
      BY <1>1, <2>2, <2>4, FS_Subset
    <3>2. QED
      BY <2>5, <3>1, SumOfUnits
  <2>9. RateOf(rates, C \cup {c})
        = [hz |-> SumFunction(g), unknown |-> \E x \in C \cup {c} : rates[x[1]] = None]
    BY <2>1, <2>2 DEF RateOf
  <2>10. (\E x \in C \cup {c} : rates[x[1]] = None) = u
    BY <1>1, <1>4
  <2>11. AddRate(RateOf(rates, C), hz) = [hz |-> SumFunction(f) + hz, unknown |-> u]
    <3>1. PICK n : n = SumFunction(f)
      OBVIOUS
    <3>2. AddRate([hz |-> n, unknown |-> u], hz) = [hz |-> n + hz, unknown |-> u]
      BY ONLY <1>4, AddRateIs
    <3>3. QED
      BY <1>2, <3>1, <3>2
  <2>12. SumFunction(g) = SumFunction(f) + hz
    BY <2>7, <2>8
  <2>13. QED
    BY <1>1, <2>9, <2>10, <2>11, <2>12
<1>5. QED
  BY <1>3, <1>4

\* The connections counted, to an instance and to a message kind.
CountedTo(i) == {c \in Done : topo.owner[c[2]] = i}
CountedAs(h) == {c \in Done : h \in QueueEntries(c[2])}

CountInv ==
  /\ status \in {"inferring", "rooting", "propagating"} => Done = {}
  /\ received = [i \in Instance |-> RateOf(produced, CountedTo(i))]
  /\ entered = [h \in Handler |-> RateOf(produced, CountedAs(h))]

LEMMA TickRateType ==
  ASSUME topo \in Topology, facts \in Fact, groupHz \in [Instance -> Optional(Nat)],
         NEW o \in OutPort
  PROVE  TickRate(o) \in Optional(Nat)
<1>1. /\ IsFiniteSet(Roots) /\ \A r \in Roots : RootHz(r) \in Nat
      /\ \A x \in GroupTicks : TickHz(x) \in Nat
  BY RootsType
<1>2. ASSUME NEW S \in SUBSET Roots PROVE SumHz(S) \in Optional(Nat)
  <2>1. IsFiniteSet(S) /\ [r \in S |-> RootHz(r)] \in [S -> Nat]
    BY <1>1, FS_Subset
  <2>2. SumFunction([r \in S |-> RootHz(r)]) \in Nat
    BY <2>1, SumOfUnits
  <2>3. QED
    BY <2>2 DEF SumHz, Optional
<1>3. {r \in Roots : \E h \in TickHandlers(r) : o \in OutputsFor(topo, h)} \in SUBSET Roots
  OBVIOUS
<1>4. QED
  BY <1>1, <1>2, <1>3 DEF TickRate, Optional

LEMMA CountInit == ASSUME Init PROVE CountInv
<1>1. /\ todo = Connections /\ received = [i \in Instance |-> NoRate]
      /\ entered = [h \in Handler |-> NoRate]
  BY DEF Init, Connections
<1>2. Done = {}
  BY <1>1 DEF Done
<1>3. (\A i : CountedTo(i) = {}) /\ (\A h : CountedAs(h) = {})
  BY <1>2 DEF CountedTo, CountedAs
<1>4. QED
  BY <1>1, <1>2, <1>3, RateOfNone DEF CountInv

\* The rates change before anything is counted only.
LEMMA RatesFixed ==
  ASSUME CountInv, [Next]_vars
  PROVE  UNCHANGED produced \/ Done = {}
BY DEF CountInv, Next, vars, inputVars, rateVars, InferRates, RatesNext, InferGroups,
       StartPropagation, Propagate, RefuseRates, FinishRates, Take, Recall, Ask, AskCaller, Resolve,
       Return, Count, FindDrops, Refuse

LEMMA CountStep ==
  ASSUME ThreadInv, RatesInv, CountInv, [Next]_vars
  PROVE  CountInv'
<1>1. /\ UNCHANGED <<topo, facts>> /\ topo \in Topology /\ facts \in Fact
      /\ groupHz \in [Instance -> Optional(Nat)]
  BY InputStays DEF ThreadInv, ThreadType, RatesInv
<1>2. \A p : QueueEntries(p)' = QueueEntries(p)
  BY <1>1 DEF QueueEntries
<1>3. CASE Count
  <2>1. PICK c, i, hz : c = current /\ i = topo.owner[c[2]] /\ hz = produced[c[1]]
    OBVIOUS
  <2>2. /\ status = "analyzing" /\ status' = status /\ UNCHANGED produced
        /\ received' = [received EXCEPT ![i] = AddRate(@, hz)]
        /\ entered' = [h \in Handler |-> IF h \in QueueEntries(c[2]) THEN AddRate(entered[h], hz)
                                         ELSE entered[h]]
    BY <1>3, <2>1 DEF Count, Asked, inputVars, rateVars
  <2>3. Done' = Done \cup {c} /\ c \in Connections /\ c \notin Done /\ Done \subseteq Connections
    BY <1>3, <2>1, DoneStep DEF Done
  <2>4. IsFiniteSet(Done) /\ \A x \in Done \cup {c} : produced[x[1]] \in Optional(Nat)
    <3>1. Connections \subseteq Connection /\ IsFiniteSet(Connection)
      BY NamesAssumption, FS_Product DEF Connections, QueueConnections, Connection
    <3>2. \A x \in Connections : x[1] \in OutPort
      BY <1>1, ConnectionEnds
    <3>3. QED
      BY <1>1, <2>2, <2>3, <3>1, <3>2, FS_Subset, TickRateType DEF RatesInv
  <2>5. ASSUME NEW C \in SUBSET Done
        PROVE  RateOf(produced, C \cup {c}) = AddRate(RateOf(produced, C), hz)
    <3>1. IsFiniteSet(C) /\ c \notin C /\ \A x \in C \cup {c} : produced[x[1]] \in Optional(Nat)
      BY <2>3, <2>4, FS_Subset
    <3>2. QED
      BY <2>1, <3>1, RateOfMore
  <2>6. ASSUME NEW j \in Instance PROVE received'[j] = RateOf(produced, CountedTo(j)')
    <3>1. CountedTo(j)' = IF j = i THEN CountedTo(j) \cup {c} ELSE CountedTo(j)
      BY <1>1, <2>1, <2>3 DEF CountedTo
    <3>2. CountedTo(j) \in SUBSET Done
      BY DEF CountedTo
    <3>3. received[j] = RateOf(produced, CountedTo(j)) /\ j \in DOMAIN received
      BY DEF CountInv
    <3>4. received'[j] = IF j = i THEN AddRate(received[j], hz) ELSE received[j]
      BY <2>2, <3>3
    <3>5. QED
      BY <2>5, <3>1, <3>2, <3>3, <3>4
  <2>7. ASSUME NEW h \in Handler PROVE entered'[h] = RateOf(produced, CountedAs(h)')
    <3>1. CountedAs(h)' = IF h \in QueueEntries(c[2]) THEN CountedAs(h) \cup {c} ELSE CountedAs(h)
      BY <1>2, <2>3 DEF CountedAs
    <3>2. CountedAs(h) \in SUBSET Done
      BY DEF CountedAs
    <3>3. entered[h] = RateOf(produced, CountedAs(h))
      BY DEF CountInv
    <3>4. entered'[h] = IF h \in QueueEntries(c[2]) THEN AddRate(entered[h], hz) ELSE entered[h]
      BY <2>2
    <3>5. QED
      BY <2>5, <3>1, <3>2, <3>3, <3>4
  <2>8. received' = [j \in Instance |-> received'[j]] /\ entered' = [h \in Handler |-> entered'[h]]
    <3>1. received = [j \in Instance |-> received[j]]
      BY DEF CountInv
    <3>2. QED
      BY <2>2, <3>1
  <2>9. QED
    BY <2>2, <2>6, <2>7, <2>8 DEF CountInv
<1>4. CASE ~Count
  <2>1. Done' = Done /\ UNCHANGED <<received, entered>>
    BY <1>4, DoneStep DEF Next, vars, queueVars, InferRates, Take, Recall, Ask, AskCaller, Resolve,
                          Return, FindDrops, Refuse
  <2>2. \A i : CountedTo(i)' = CountedTo(i)
    BY <1>1, <2>1 DEF CountedTo
  <2>3. \A h : CountedAs(h)' = CountedAs(h)
    BY <1>2, <2>1 DEF CountedAs
  <2>4. \A C \in SUBSET Done : RateOf(produced', C) = RateOf(produced, C)
    <3>1. CASE UNCHANGED produced
      BY <3>1
    <3>2. CASE Done = {}
      BY <3>2, RateOfNone
    <3>3. QED
      BY <3>1, <3>2, RatesFixed
  <2>5. (\A i : CountedTo(i) \in SUBSET Done) /\ (\A h : CountedAs(h) \in SUBSET Done)
    BY DEF CountedTo, CountedAs
  <2>6. \A i : RateOf(produced', CountedTo(i)') = RateOf(produced, CountedTo(i))
    BY <2>2, <2>4, <2>5
  <2>7. \A h : RateOf(produced', CountedAs(h)') = RateOf(produced, CountedAs(h))
    BY <2>3, <2>4, <2>5
  <2>8. received' = [i \in Instance |-> RateOf(produced', CountedTo(i)')]
    BY <2>1, <2>6 DEF CountInv
  <2>9. entered' = [h \in Handler |-> RateOf(produced', CountedAs(h)')]
    BY <2>1, <2>7 DEF CountInv
  <2>10. status' \in {"inferring", "rooting", "propagating"}
         => status \in {"inferring", "rooting", "propagating"}
    BY DEF Next, vars, InferRates, RatesNext, InferGroups, StartPropagation, Propagate,
       RefuseRates, FinishRates, Take, Recall, Ask, AskCaller, Resolve, Return, Count, FindDrops,
       Refuse
  <2>11. QED
    BY <2>1, <2>8, <2>9, <2>10 DEF CountInv
<1>5. QED
  BY <1>3, <1>4

LEMMA CountAlways == DeploymentSpec => []CountInv
<1>1. DeploymentInit => CountInv
  BY CountInit DEF DeploymentInit
<1>2. ThreadInv /\ RatesInv /\ CountInv /\ [AnalyzeThenRun]_<<vars, stack, wants>> => CountInv'
  BY CountStep, AnalysisSteps
<1>3. QED
  BY <1>1, <1>2, ThreadAlways, RatesAlways, PTL DEF DeploymentSpec

\* The message kinds of a port are handlers of its instance.
LEMMA QueueEntriesType ==
  ASSUME topo \in Topology, NEW p \in InPort
  PROVE  /\ QueueEntries(p) # {} /\ QueueEntries(p) \subseteq Handler
         /\ \A h \in QueueEntries(p) : topo.owner[h] = topo.owner[p]
BY DEF QueueEntries, CommandsOf, Handler

\* Every output at the rate of the ticks.
TickRates == [o \in OutPort |-> TickRate(o)]

\* After the last connection a total is the sum over the connections it is about.
LEMMA TotalsRight ==
  ASSUME ThreadInv, RatesInv, CountInv, Analyzed
  PROVE  /\ \A i \in Instance :
              received[i] = RateOf(TickRates, {c \in Connections : topo.owner[c[2]] = i})
         /\ \A h \in Handler :
              entered[h] = RateOf(TickRates, {c \in Connections : h \in QueueEntries(c[2])})
<1>1. Done = Connections /\ status = "analyzing" /\ topo \in Topology
  BY NoneApart DEF Done, Analyzed, ThreadInv, ThreadType
<1>2. PICK rates : rates = TickRates
  OBVIOUS
<1>3. \A c \in Connections : produced[c[1]] = rates[c[1]]
  BY <1>1, <1>2, ConnectionEnds DEF RatesInv, TickRates
<1>4. ASSUME NEW C \in SUBSET Connections PROVE RateOf(produced, C) = RateOf(rates, C)
  <2>1. \A c \in C : produced[c[1]] = rates[c[1]]
    BY <1>3
  <2>2. Rated(produced, C) = Rated(rates, C) /\ Rated(rates, C) \subseteq C
    BY <2>1 DEF Rated
  <2>3. [c \in Rated(produced, C) |-> produced[c[1]]] = [c \in Rated(rates, C) |-> rates[c[1]]]
    BY <2>1, <2>2
  <2>4. (\E c \in C : produced[c[1]] = None) = (\E c \in C : rates[c[1]] = None)
    BY <2>1
  <2>5. QED
    BY <2>3, <2>4 DEF RateOf
<1>5. ASSUME NEW i \in Instance
      PROVE  received[i] = RateOf(rates, {c \in Connections : topo.owner[c[2]] = i})
  BY <1>1, <1>4 DEF CountInv, CountedTo
<1>6. ASSUME NEW h \in Handler
      PROVE  entered[h] = RateOf(rates, {c \in Connections : h \in QueueEntries(c[2])})
  BY <1>1, <1>4 DEF CountInv, CountedAs
<1>7. QED
  BY <1>2, <1>5, <1>6

\* What fills a queue from a set of connections is their rate, if all is known.
LEMMA FillsIs ==
  ASSUME topo \in Topology, NEW C \in SUBSET Connections
  PROVE  Fills(C) = Total(RateOf(TickRates, C))
<1>1. PICK rates : rates = TickRates
  OBVIOUS
<1>2. \A c \in C : rates[c[1]] = TickRate(c[1])
  BY <1>1, ConnectionEnds DEF TickRates
<1>3. PICK n, u : /\ n = SumFunction([c \in Rated(rates, C) |-> rates[c[1]]])
                  /\ u = (\E c \in C : rates[c[1]] = None)
  OBVIOUS
<1>4. RateOf(rates, C) = [hz |-> n, unknown |-> u]
  BY <1>3 DEF RateOf
<1>5. Total(RateOf(rates, C)) = IF u THEN None ELSE n
  BY <1>4 DEF Total
<1>6. CASE u
  <2>1. \E c \in C : TickRate(c[1]) = None
    BY <1>2, <1>3, <1>6
  <2>2. QED
    BY <1>1, <1>5, <1>6, <2>1 DEF Fills
<1>7. CASE ~u
  <2>1. \A c \in C : TickRate(c[1]) # None
    BY <1>2, <1>3, <1>7
  <2>2. Rated(rates, C) = C
    BY <1>2, <2>1 DEF Rated
  <2>3. [c \in Rated(rates, C) |-> rates[c[1]]] = [c \in C |-> TickRate(c[1])]
    BY <1>2, <2>2
  <2>4. Fills(C) = SumFunction([c \in C |-> TickRate(c[1])])
    BY <2>1 DEF Fills
  <2>5. QED
    BY <1>1, <1>3, <1>5, <1>7, <2>3, <2>4
<1>8. u \in BOOLEAN
  BY <1>3
<1>9. QED
  BY <1>6, <1>7, <1>8

\* The connections to the message kinds of an instance's queue.
LEMMA SourcesAre ==
  ASSUME topo \in Topology, NEW i \in Instance
  PROVE  /\ Sources(i, Groups(i)) = {c \in Connections : topo.owner[c[2]] = i}
         /\ \A h \in Groups(i) : h \in Handler /\ \A c \in Connections :
              h \in QueueEntries(c[2]) => topo.owner[c[2]] = i
<1>1. \A c \in Connections : c[2] \in InPort
  BY ConnectionEnds
<1>2. Groups(i) = UNION {QueueEntries(c[2]) : c \in {x \in Connections : topo.owner[x[2]] = i}}
  BY DEF Groups, Connections
<1>3. ASSUME NEW c \in Connections, topo.owner[c[2]] = i
      PROVE  QueueEntries(c[2]) \cap Groups(i) # {}
  BY <1>1, <1>2, <1>3, QueueEntriesType
<1>4. Sources(i, Groups(i)) = {c \in Connections : topo.owner[c[2]] = i}
  BY <1>3 DEF Sources, Connections
<1>5. ASSUME NEW h \in Groups(i)
      PROVE  /\ h \in Handler
             /\ \A c \in Connections : h \in QueueEntries(c[2]) => topo.owner[c[2]] = i
  <2>1. PICK x \in Connections : topo.owner[x[2]] = i /\ h \in QueueEntries(x[2])
    BY <1>2
  <2>2. h \in Handler /\ topo.owner[h] = i
    BY <1>1, <2>1, QueueEntriesType
  <2>3. QED
    BY <1>1, <2>2, QueueEntriesType
<1>6. QED
  BY <1>4, <1>5

\* Where all is known, the total is the sum.
LEMMA RateOfKnown ==
  ASSUME NEW rates, NEW C, \A c \in C : rates[c[1]] # None
  PROVE  /\ RateOf(rates, C).hz = SumFunction([c \in C |-> rates[c[1]]])
         /\ Total(RateOf(rates, C)) = SumFunction([c \in C |-> rates[c[1]]])
<1>1. Rated(rates, C) = C
  BY DEF Rated
<1>2. PICK n : n = SumFunction([c \in C |-> rates[c[1]]])
  OBVIOUS
<1>3. RateOf(rates, C) = [hz |-> n, unknown |-> \E c \in C : rates[c[1]] = None]
  BY <1>1, <1>2 DEF RateOf
<1>4. RateOf(rates, C).hz = n /\ ~RateOf(rates, C).unknown
  BY <1>3
<1>5. QED
  BY <1>2, <1>4 DEF Total

\* The message kinds that do not drop hold at least what their connections bring.
LEMMA KeptAtLeast ==
  ASSUME ThreadInv, RatesInv, CountInv, Analyzed, NEW i \in Instance, FilteredTotal(i) # None
  PROVE  /\ Fills(Sources(i, Kept(i))) \in Nat /\ FilteredTotal(i) \in Nat
         /\ FilteredTotal(i) >= Fills(Sources(i, Kept(i)))
<1>1. topo \in Topology /\ facts \in Fact /\ groupHz \in [Instance -> Optional(Nat)]
  BY DEF ThreadInv, ThreadType, RatesInv
<1>2. PICK rates, K, S : /\ rates = TickRates
                         /\ K = Kept(i) /\ S = Sources(i, Kept(i))
  OBVIOUS
<1>3. PICK As : As = [h \in K |-> {c \in Connections : h \in QueueEntries(c[2])}]
  OBVIOUS
<1>4. K \subseteq Handler /\ IsFiniteSet(K)
  <2>1. K \subseteq Groups(i) /\ Groups(i) \subseteq Handler
    BY <1>1, <1>2, SourcesAre DEF Kept
  <2>2. IsFiniteSet(Handler)
    BY NamesAssumption, FS_Union DEF Handler
  <2>3. QED
    BY <2>1, <2>2, FS_Subset
<1>5. S \subseteq Connections /\ IsFiniteSet(S)
  <2>1. Connections \subseteq Connection /\ IsFiniteSet(Connection)
    BY NamesAssumption, FS_Product DEF Connections, QueueConnections, Connection
  <2>2. S \subseteq Connections
    BY <1>2 DEF Sources, Connections
  <2>3. QED
    BY <2>1, <2>2, FS_Subset
<1>6. \A h \in K : As[h] \subseteq S
  <2> SUFFICES ASSUME NEW h \in K, NEW c \in As[h] PROVE c \in S
    OBVIOUS
  <2>1. c \in Connections /\ h \in QueueEntries(c[2]) /\ h \in Groups(i)
    BY <1>2, <1>3 DEF Kept
  <2>2. topo.owner[c[2]] = i
    BY <1>1, <2>1, SourcesAre
  <2>3. QED
    BY <1>2, <2>1, <2>2 DEF Sources, Connections
<1>7. \A c \in S : \E h \in K : c \in As[h]
  BY <1>2, <1>3, <1>5 DEF Sources
<1>8. \A h \in K : entered[h] = RateOf(rates, As[h])
  BY <1>2, <1>3, <1>4, TotalsRight
<1>9. /\ \A h \in K : ~entered[h].unknown
      /\ FilteredTotal(i) = SumFunction([h \in K |-> entered[h].hz])
  BY <1>2 DEF FilteredTotal
<1>10. ASSUME NEW h \in K, NEW c \in As[h] PROVE rates[c[1]] # None
  <2>1. RateOf(rates, As[h]).unknown = (\E x \in As[h] : rates[x[1]] = None)
    BY DEF RateOf
  <2>2. QED
    BY <1>8, <1>9, <2>1
<1>11. \A c \in S : rates[c[1]] # None
  BY <1>7, <1>10
<1>12. PICK f, g : f = [c \in S |-> rates[c[1]]] /\ g = [h \in K |-> entered[h].hz]
  OBVIOUS
<1>13. f \in [S -> Nat]
  <2>1. \A c \in S : rates[c[1]] \in Optional(Nat)
    BY <1>1, <1>2, <1>5, ConnectionEnds, TickRateType DEF TickRates
  <2>2. \A c \in S : rates[c[1]] \in Nat
    BY <1>11, <2>1 DEF Optional
  <2>3. QED
    BY <1>12, <2>2
<1>14. ASSUME NEW h \in K PROVE g[h] = SumFunction([c \in As[h] |-> f[c]]) /\ g[h] \in Nat
  <2>1. As[h] \subseteq S /\ IsFiniteSet(As[h])
    BY <1>5, <1>6, FS_Subset
  <2>2. PICK e : e = [c \in As[h] |-> rates[c[1]]]
    OBVIOUS
  <2>3. e = [c \in As[h] |-> f[c]]
    BY <1>12, <2>1, <2>2
  <2>4. e \in [As[h] -> Nat]
    BY <1>13, <2>1, <2>3
  <2>5. SumFunction(e) \in Nat
    BY <2>1, <2>4, SumOfUnits
  <2>6. RateOf(rates, As[h]).hz = SumFunction([c \in As[h] |-> rates[c[1]]])
    BY <1>10, RateOfKnown
  <2>7. g[h] = SumFunction(e)
    BY <1>8, <1>12, <2>2, <2>6
  <2>8. QED
    BY <2>3, <2>5, <2>7
<1>15. g \in [K -> Nat] /\ As \in [K -> SUBSET S]
  BY <1>3, <1>6, <1>12, <1>14
<1>16. SumFunction(g) >= SumFunction(f)
  BY <1>4, <1>5, <1>7, <1>13, <1>14, <1>15, SumCovered
<1>17. Fills(S) = SumFunction(f)
  <2>1. Fills(S) = Total(RateOf(rates, S))
    BY <1>1, <1>2, <1>5, FillsIs
  <2>2. Total(RateOf(rates, S)) = SumFunction([c \in S |-> rates[c[1]]])
    BY <1>11, RateOfKnown
  <2>3. QED
    BY <1>12, <2>1, <2>2
<1>18. SumFunction(f) \in Nat /\ SumFunction(g) \in Nat
  BY <1>4, <1>5, <1>13, <1>15, SumOfUnits
<1>19. FilteredTotal(i) = SumFunction(g)
  BY <1>9, <1>12
<1>20. QED
  BY <1>2, <1>16, <1>17, <1>18, <1>19

\* FillTimesHonest always holds (async_queue_analyzer.py:759-961): the net rate of a
\* row is that of all its producers, each at the sum of the ticks that reach it, and
\* of a row without its dropping ports never less than what the producers left bring.
THEOREM FillTimesHonestHolds == DeploymentSpec => []FillTimesHonest
<1>1. ThreadInv /\ RatesInv /\ CountInv => FillTimesHonest
  <2> SUFFICES ASSUME ThreadInv, RatesInv, CountInv, Analyzed, NEW i \in Instance
               PROVE  /\ RowFill(i)
                         = FillRate(facts.size[i], Fills(Sources(i, Groups(i))), consumed[i])
                      /\ Kept(i) # {} /\ FilteredFill(i) # None =>
                           LET left == FillRate(facts.size[i], Fills(Sources(i, Kept(i))), consumed[i])
                           IN  left # None /\ FilteredFill(i) >= left
    BY DEF FillTimesHonest
  <2>1. topo \in Topology /\ consumed \in [Instance -> Optional(Nat)]
    BY DEF ThreadInv, ThreadType, RatesInv
  <2>2. Total(received[i]) = Fills(Sources(i, Groups(i)))
    <3>1. PICK C : C = {c \in Connections : topo.owner[c[2]] = i}
      OBVIOUS
    <3>2. C \in SUBSET Connections /\ Sources(i, Groups(i)) = C
      BY <2>1, <3>1, SourcesAre
    <3>3. received[i] = RateOf(TickRates, C)
      BY <3>1, TotalsRight
    <3>4. QED
      BY <2>1, <3>2, <3>3, FillsIs
  <2>3. RowFill(i) = FillRate(facts.size[i], Fills(Sources(i, Groups(i))), consumed[i])
    BY <2>2 DEF RowFill
  <2>4. ASSUME FilteredFill(i) # None
        PROVE  LET left == FillRate(facts.size[i], Fills(Sources(i, Kept(i))), consumed[i])
               IN  left # None /\ FilteredFill(i) >= left
    <3>1. PICK size, all, drain : /\ size = facts.size[i] /\ all = FilteredTotal(i)
                                  /\ drain = consumed[i]
      OBVIOUS
    <3>2. size # None /\ all # None /\ drain # None
      BY <2>4, <3>1 DEF FilteredFill, FillRate
    <3>3. PICK some : some = Fills(Sources(i, Kept(i)))
      OBVIOUS
    <3>4. some \in Nat /\ all \in Nat /\ all >= some
      BY <3>1, <3>2, <3>3, KeptAtLeast
    <3>5. drain \in Nat
      BY <2>1, <3>1, <3>2 DEF Optional
    <3>6. FilteredFill(i) = IF all <= drain THEN 0 ELSE all - drain
      BY <3>1, <3>2 DEF FilteredFill, FillRate
    <3>7. FillRate(size, some, drain) = IF some <= drain THEN 0 ELSE some - drain
      BY <3>2, <3>4, NoneApart DEF FillRate
    <3>8. FillRate(size, some, drain) \in Nat /\ FilteredFill(i) >= FillRate(size, some, drain)
      BY <3>4, <3>5, <3>6, <3>7
    <3>9. QED
      BY <3>1, <3>3, <3>8, NoneApart
  <2>5. QED
    BY <2>3, <2>4
<1>2. QED
  BY <1>1, ThreadAlways, RatesAlways, CountAlways, PTL
=============================================================================
