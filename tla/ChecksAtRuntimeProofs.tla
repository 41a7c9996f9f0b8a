------------------------ MODULE ChecksAtRuntimeProofs ------------------------
(***************************************************************************)
(* What is proved of the check suite and of the deployment it speaks       *)
(* about: a run that mentions no skipped check guessed nothing, and what   *)
(* threads do to each other at run time was reported.                      *)
(***************************************************************************)
EXTENDS ChecksAtRuntime, FprimeRuntimeProofs

-----------------------------------------------------------------------------
(* Numbers and finite sets. *)

\* A finite nonempty set of numbers has a least and a greatest one.
LEMMA Extremes ==
  ASSUME NEW S \in SUBSET Nat, IsFiniteSet(S), S # {}
  PROVE  /\ Max(S) \in S /\ \A y \in S : y <= Max(S)
         /\ Min(S) \in S /\ \A y \in S : Min(S) <= y
<1> DEFINE Upto(i) == {j \in S : j <= i}
           From(i) == {j \in S : i <= j}
<1>1. \A T \in SUBSET SUBSET S : T # {} => \E X \in T : \A Y \in T : <<Y, X>> \notin StrictSubsetOrdering(S)
  <2> SUFFICES ASSUME NEW T \in SUBSET SUBSET S, T # {}
               PROVE  \E X \in T : \A Y \in T : <<Y, X>> \notin StrictSubsetOrdering(S)
    OBVIOUS
  <2>1. T \subseteq FiniteSubsetsOf(S)
    BY FS_Subset DEF FiniteSubsetsOf
  <2>2. QED
    BY ONLY T # {}, IsFiniteSet(S), <2>1, FS_StrictSubsetOrderingWellFounded, WFMin
<1>2. PICK m \in S : \A i \in S : <<Upto(i), Upto(m)>> \notin StrictSubsetOrdering(S)
  <2> DEFINE T == {Upto(i) : i \in S}
  <2>1. T \in SUBSET SUBSET S /\ T # {}
    OBVIOUS
  <2>2. PICK X \in T : \A Y \in T : <<Y, X>> \notin StrictSubsetOrdering(S)
    BY <1>1, <2>1
  <2>3. QED
    BY <2>2
<1>3. PICK n \in S : \A i \in S : <<From(i), From(n)>> \notin StrictSubsetOrdering(S)
  <2> DEFINE T == {From(i) : i \in S}
  <2>1. T \in SUBSET SUBSET S /\ T # {}
    OBVIOUS
  <2>2. PICK X \in T : \A Y \in T : <<Y, X>> \notin StrictSubsetOrdering(S)
    BY <1>1, <2>1
  <2>3. QED
    BY <2>2
<1>4. m \in Nat /\ n \in Nat
  OBVIOUS
<1>5. ASSUME NEW i \in S, ~(m <= i) PROVE FALSE
  <2>1. m <= m /\ \A j \in S : j <= i => j <= m
    BY <1>4, <1>5
  <2>2. Upto(i) \subseteq Upto(m) /\ m \in Upto(m) /\ m \notin Upto(i)
    BY <1>5, <2>1
  <2>3. QED
    BY <1>2, <2>2 DEF StrictSubsetOrdering
<1>6. ASSUME NEW i \in S, ~(i <= n) PROVE FALSE
  <2>1. n <= n /\ \A j \in S : i <= j => n <= j
    BY <1>4, <1>6
  <2>2. From(i) \subseteq From(n) /\ n \in From(n) /\ n \notin From(i)
    BY <1>6, <2>1
  <2>3. QED
    BY <1>3, <2>2 DEF StrictSubsetOrdering
<1>7. (\A y \in S : m <= y) /\ (\A y \in S : n >= y) /\ \A y \in S : n >= y => y <= n
  BY <1>4, <1>5, <1>6
<1>8. Min(S) \in S /\ \A y \in S : Min(S) <= y
  BY <1>7 DEF Min
<1>9. Max(S) \in S /\ \A y \in S : Max(S) >= y
  BY <1>7 DEF Max
<1>10. \A a, b \in Nat : a >= b => b <= a
  OBVIOUS
<1>11. QED
  BY <1>8, <1>9, <1>10

\* A finite set has two elements when it has more than one, and only then.
LEMMA TwoElements ==
  ASSUME NEW S, IsFiniteSet(S)
  PROVE  Cardinality(S) > 1 <=> \E a, b \in S : a # b
<1>1. Cardinality(S) \in Nat
  BY FS_CardinalityType
<1>2. ASSUME NEW a \in S, NEW b \in S, a # b PROVE Cardinality(S) > 1
  <2>1. Cardinality(S) # 0
    BY FS_EmptySet
  <2>2. Cardinality(S) # 1
    <3>1. ASSUME NEW x, S = {x} PROVE FALSE
      BY <1>2, <3>1
    <3>2. QED
      BY <3>1, FS_Singleton
  <2>3. QED
    BY <1>1, <2>1, <2>2
<1>3. ASSUME Cardinality(S) > 1, \A a, b \in S : a = b PROVE FALSE
  <2>1. S # {}
    BY <1>3, FS_EmptySet
  <2>2. PICK a \in S : S = {a}
    BY <1>3, <2>1
  <2>3. Cardinality(S) = 1
    BY <2>2, FS_Singleton
  <2>4. QED
    BY <1>3, <2>3
<1>4. QED
  BY <1>2, <1>3

-----------------------------------------------------------------------------
(* Chains of calls. *)

\* The chains of n handlers: calls lead from each to the next, and none but the
\* last occurs twice.
ChainsOf(X, S, callees, n) ==
  {c \in Seq(X) : /\ Len(c) = n /\ c[1] \in S
                  /\ \A k \in 1..(n - 1) : c[k + 1] \in callees[c[k]]
                  /\ \A j, k \in 1..(n - 1) : j # k => c[j] # c[k]}

\* The chains with one more handler.
Grown(C, callees, n) ==
  UNION { {Append(c, h) : h \in callees[c[n - 1]]} : c \in {x \in C : Simple(x)} }

\* A chain grows by one callee of its last handler, unless it came back.
LEMMA ChainsGrow ==
  ASSUME NEW X, NEW S \in SUBSET X, NEW callees \in [X -> SUBSET X], NEW n \in Nat, n > 1
  PROVE  ChainsOf(X, S, callees, n) = Grown(ChainsOf(X, S, callees, n - 1), callees, n)
<1>1. PICK m \in Nat : m = n - 1 /\ n = m + 1 /\ m > 0
  <2>1. n - 1 \in Nat /\ n = (n - 1) + 1 /\ n - 1 > 0
    OBVIOUS
  <2>2. QED
    BY <2>1
<1>2. ASSUME NEW c \in ChainsOf(X, S, callees, m), Simple(c), NEW h \in callees[c[m]]
      PROVE  Append(c, h) \in ChainsOf(X, S, callees, m + 1)
  <2>1. /\ c \in Seq(X) /\ Len(c) = m /\ c[1] \in S /\ DOMAIN c = 1..m /\ c[m] \in X
        /\ \A k \in 1..(m - 1) : c[k + 1] \in callees[c[k]]
        /\ \A j, k \in 1..m : j # k => c[j] # c[k]
    BY <1>1, <1>2 DEF ChainsOf, Simple
  <2>2. PICK r : r = Append(c, h)
    OBVIOUS
  <2>3. /\ r \in Seq(X) /\ Len(r) = m + 1 /\ r[m + 1] = h /\ \A k \in 1..m : r[k] = c[k]
    BY <1>2, <2>1, <2>2
  <2>4. \A k \in 1..m : r[k + 1] \in callees[r[k]]
    <3>1. ASSUME NEW k \in 1..m PROVE r[k + 1] \in callees[r[k]]
      <4>1. CASE k = m
        BY <1>2, <2>3, <4>1
      <4>2. CASE k # m
        <5>1. k \in 1..(m - 1) /\ k + 1 \in 1..m
          BY <4>2
        <5>2. QED
          BY <2>1, <2>3, <5>1
      <4>3. QED
        BY <4>1, <4>2
    <3>2. QED
      BY <3>1
  <2>5. (m + 1) - 1 = m /\ 1 \in 1..m
    BY <1>1
  <2>6. /\ r[1] \in S
        /\ \A k \in 1..((m + 1) - 1) : r[k + 1] \in callees[r[k]]
        /\ \A j, k \in 1..((m + 1) - 1) : j # k => r[j] # r[k]
    BY <2>1, <2>3, <2>4, <2>5
  <2>7. r \in ChainsOf(X, S, callees, m + 1)
    BY <2>3, <2>6 DEF ChainsOf
  <2>8. QED
    BY <2>2, <2>7
<1>3. ASSUME NEW r \in ChainsOf(X, S, callees, m + 1)
      PROVE  \E c \in ChainsOf(X, S, callees, m) :
               Simple(c) /\ \E h \in callees[c[m]] : r = Append(c, h)
  <2>1. /\ r \in Seq(X) /\ Len(r) = m + 1 /\ r[1] \in S /\ (m + 1) - 1 = m
        /\ \A k \in 1..m : r[k + 1] \in callees[r[k]]
        /\ \A j, k \in 1..m : j # k => r[j] # r[k]
    <3>1. (m + 1) - 1 = m
      OBVIOUS
    <3>2. QED
      BY <1>3, <3>1 DEF ChainsOf
  <2>2. PICK c : c = SubSeq(r, 1, Len(r) - 1)
    OBVIOUS
  <2>3. /\ c \in Seq(X) /\ Len(c) = m /\ DOMAIN c = 1..m
        /\ \A k \in 1..m : c[k] = r[k]
    <3>1. r # <<>>
      BY <2>1
    <3>2. /\ c \in Seq(X) /\ Len(c) = m
          /\ \A k \in 1..Len(c) : c[k] = r[k]
      BY <2>1, <2>2, <3>1, FrontFacts
    <3>3. QED
      BY <3>2
  <2>4. /\ 1 \in 1..m /\ m \in 1..m
        /\ \A k \in 1..(m - 1) : k \in 1..m /\ k + 1 \in 1..m
    BY <1>1
  <2>5. c \in ChainsOf(X, S, callees, m)
    BY <2>1, <2>3, <2>4 DEF ChainsOf
  <2>6. Simple(c)
    BY <2>1, <2>3 DEF Simple
  <2>7. r[m + 1] \in callees[c[m]] /\ r[m + 1] \in X
    BY <2>1, <2>3, <2>4
  <2>8. r = Append(c, r[m + 1])
    <3>1. PICK a : a = Append(c, r[m + 1])
      OBVIOUS
    <3>2. /\ a \in Seq(X) /\ Len(a) = m + 1 /\ a[m + 1] = r[m + 1]
          /\ \A k \in 1..m : a[k] = c[k]
      BY <2>3, <2>7, <3>1
    <3>3. ASSUME NEW k \in 1..(m + 1) PROVE r[k] = a[k]
      <4>1. k \in 1..m \/ k = m + 1
        OBVIOUS
      <4>2. QED
        BY <2>3, <3>2, <4>1
    <3>4. QED
      BY <2>1, <3>1, <3>2, <3>3, SeqEqual
  <2>9. QED
    BY <2>5, <2>6, <2>7, <2>8
<1>4. PICK D : D = ChainsOf(X, S, callees, m)
  OBVIOUS
<1>5. \A r : r \in Grown(D, callees, n) <=>
              \E c \in D : Simple(c) /\ \E h \in callees[c[n - 1]] : r = Append(c, h)
  BY DEF Grown
<1>6. \A r : r \in ChainsOf(X, S, callees, n) <=> r \in Grown(D, callees, n)
  <2>1. ASSUME NEW r \in ChainsOf(X, S, callees, n) PROVE r \in Grown(D, callees, n)
    BY <1>1, <1>3, <1>4, <1>5, <2>1
  <2>2. ASSUME NEW r \in Grown(D, callees, n) PROVE r \in ChainsOf(X, S, callees, n)
    <3>1. PICK c \in D : Simple(c) /\ \E h \in callees[c[n - 1]] : r = Append(c, h)
      BY <1>5, <2>2
    <3>2. PICK h \in callees[c[m]] : r = Append(c, h)
      BY <1>1, <3>1
    <3>3. c \in ChainsOf(X, S, callees, m) /\ n = m + 1
      BY <1>1, <1>4
    <3>4. QED
      BY <1>2, <3>1, <3>2, <3>3
  <2>3. QED
    BY <2>1, <2>2
<1>7. ChainsOf(X, S, callees, n) = Grown(D, callees, n)
  BY <1>6
<1>8. QED
  BY <1>1, <1>4, <1>7

\* Chains computes them.
LEMMA ChainsAreChains ==
  ASSUME NEW X, NEW S \in SUBSET X, NEW callees \in [X -> SUBSET X], MaxChain \in Nat \ {0}
  PROVE  /\ DOMAIN Chains(S, callees) = 1..(MaxChain + 1)
         /\ \A n \in 1..(MaxChain + 1) : Chains(S, callees)[n] = ChainsOf(X, S, callees, n)
<1> DEFINE Lengths == 1..(MaxChain + 1)
           G(f) == [n \in Lengths |-> IF n = 1 THEN {<<h>> : h \in S} ELSE Grown(f[n - 1], callees, n)]
           L == [n \in Lengths |-> ChainsOf(X, S, callees, n)]
<1>1. PICK F : F = Chains(S, callees)
  OBVIOUS
<1>2. \A n \in Lengths : n # 1 => n \in Nat /\ n > 1 /\ n - 1 \in Lengths
  OBVIOUS
<1>3. ChainsOf(X, S, callees, 1) = {<<h>> : h \in S}
  <2>1. ASSUME NEW h \in S PROVE <<h>> \in ChainsOf(X, S, callees, 1)
    <3>1. <<h>> \in Seq(X) /\ Len(<<h>>) = 1 /\ <<h>>[1] = h /\ 1..(1 - 1) = {}
      OBVIOUS
    <3>2. QED
      BY <3>1 DEF ChainsOf
  <2>2. ASSUME NEW c \in ChainsOf(X, S, callees, 1) PROVE c \in {<<h>> : h \in S}
    <3>1. c \in Seq(X) /\ Len(c) = 1 /\ c[1] \in S
      BY <2>2 DEF ChainsOf
    <3>2. c = <<c[1]>>
      BY <3>1
    <3>3. QED
      BY <3>1, <3>2
  <2>3. QED
    BY <2>1, <2>2
<1>4. L = G(L)
  <2>1. ASSUME NEW n \in Lengths
        PROVE  L[n] = IF n = 1 THEN {<<h>> : h \in S} ELSE Grown(L[n - 1], callees, n)
    <3>1. CASE n = 1
      BY <1>3, <3>1
    <3>2. CASE n # 1
      <4>1. n \in Nat /\ n > 1 /\ L[n - 1] = ChainsOf(X, S, callees, n - 1)
        BY <1>2, <3>2
      <4>2. L[n] = ChainsOf(X, S, callees, n)
        OBVIOUS
      <4>3. ChainsOf(X, S, callees, n) = Grown(ChainsOf(X, S, callees, n - 1), callees, n)
        BY <4>1, ChainsGrow
      <4>4. L[n] = Grown(L[n - 1], callees, n)
        BY ONLY <4>1, <4>2, <4>3
      <4>5. QED
        BY <3>2, <4>4
    <3>3. QED
      BY <3>1, <3>2
  <2>2. QED
    BY <2>1
<1>5. F = CHOOSE f : f = G(f)
  BY <1>1 DEF Chains, Grown
<1>6. F = G(F)
  BY <1>4, <1>5
<1>7. ASSUME NEW n0 \in Lengths, F[n0] # L[n0] PROVE FALSE
  <2> DEFINE Bad == {n \in Lengths : F[n] # L[n]}
  <2>1. Bad \in SUBSET Nat /\ Bad # {} /\ IsFiniteSet(Bad)
    <3>1. 1 \in Int /\ MaxChain + 1 \in Int /\ Lengths \subseteq Nat
      OBVIOUS
    <3>2. IsFiniteSet(Lengths)
      BY <3>1, FS_Interval
    <3>3. Bad \in SUBSET Lengths /\ Bad # {}
      BY <1>7
    <3>4. QED
      BY <3>1, <3>2, <3>3, FS_Subset
  <2>2. Min(Bad) \in Bad /\ \A n \in Bad : Min(Bad) <= n
    BY <2>1, Extremes
  <2>3. PICK n \in Lengths : F[n] # L[n] /\ \A k \in Lengths : F[k] # L[k] => n <= k
    BY <2>2
  <2>4. F[n] = IF n = 1 THEN {<<h>> : h \in S} ELSE Grown(F[n - 1], callees, n)
    BY <1>6
  <2>5. L[n] = IF n = 1 THEN {<<h>> : h \in S} ELSE Grown(L[n - 1], callees, n)
    BY <1>4
  <2>6. n # 1 => F[n - 1] = L[n - 1]
    <3>1. n # 1 => n - 1 \in Lengths /\ ~(n <= n - 1)
      OBVIOUS
    <3>2. QED
      BY <2>3, <3>1
  <2>7. QED
    BY <2>3, <2>4, <2>5, <2>6
<1>8. DOMAIN F = Lengths
  BY <1>6
<1>9. QED
  BY <1>1, <1>7, <1>8

-----------------------------------------------------------------------------
(* The check suite. *)

\* Labels that leave some out and invent none.
Under == {L \in [InPort -> SUBSET Origin] : \A p \in InPort : L[p] \subseteq full[p]}

\* A check ran to its end: nothing it asked for raised, and it reported what it
\* does under the labels of the topology.
Ran(c) ==
  /\ ~OutputsRaise(c) /\ (AsksLabels(c) => ~raising)
  /\ findings[c] \in Run(c, full)

\* Until a check is skipped the labels, once computed, are those of the topology,
\* and every check ran; what is reported of mutexes never rests on invented labels.
ChecksInv ==
  /\ topo \in Topologies /\ facts \in Facts
  /\ full = ThreadsReaching(topo) /\ raising = LabelsRaise(topo)
  /\ labels \in Under /\ next \in 1..13 /\ DOMAIN findings = CheckId
  /\ \A c \in {"priority-inversion-window", "cpu-affinity"} :
       findings[c] = {} \/ \E L \in Under : findings[c] \in Run(c, L)
  /\ skipped = {} =>
       /\ computed => labels = full /\ ~raising
       /\ \A k \in 1..(next - 1) : Selected(CHECKS[k]) => Ran(CHECKS[k])

\* The checks are twelve different ones.
LEMMA CheckFacts ==
  /\ DOMAIN CHECKS = 1..12 /\ Len(CHECKS) = 12 /\ \A k \in 1..12 : CHECKS[k] \in CheckId
  /\ \A j, k \in 1..12 : CHECKS[j] = CHECKS[k] => j = k
<1>1. DOMAIN CHECKS = 1..12 /\ Len(CHECKS) = 12
  BY DEF CHECKS
<1>2. \A k \in 1..12 : CHECKS[k] \in CheckId
  BY <1>1 DEF CheckId
<1>3. \A j, k \in 1..12 : CHECKS[j] = CHECKS[k] => j = k
  BY DEF CHECKS
<1>4. QED
  BY <1>1, <1>2, <1>3

\* The names behind a topology and its facts.
LEMMA InputTypes ==
  ASSUME topo \in Topologies, facts \in Facts
  PROVE  /\ topo \in Topology /\ facts \in Fact
         /\ topo.owner \in [Handler \cup OutPort -> Instance]
BY TopologiesAssumption, TopologyChecksAssumption DEF Topology

\* The labels of a topology are sets of origins.
LEMMA FullUnder ==
  ASSUME topo \in Topologies, full = ThreadsReaching(topo)
  PROVE  full \in Under
<1>1. topo \in Topology
  BY TopologiesAssumption
<1>2. DOMAIN full = InPort /\ full = [p \in InPort |-> full[p]]
  BY DEF ThreadsReaching
<1>3. ASSUME NEW p \in InPort PROVE full[p] \subseteq Origin
  <2>1. full[p] = {s.label : s \in {x \in OriginSeeds(topo) : p \in PortsReached(topo, x)}}
    BY <1>1, ThreadsReachingDef
  <2>2. QED
    BY <1>1, <2>1, OriginSeedsType DEF Seed
<1>4. QED
  BY <1>2, <1>3 DEF Under

\* An exception leaves labels out.
LEMMA PartialUnder ==
  ASSUME full \in Under, NEW L \in PartialLabels
  PROVE  L \in Under
<1>1. PICK some \in SUBSET {x \in InPort \X Origin : x[2] \in full[x[1]]} :
        L = [p \in InPort |-> {x[2] : x \in {y \in some : y[1] = p}}]
  BY DEF PartialLabels
<1>2. QED
  BY <1>1 DEF Under

\* A check that does not ask for labels reports the same under all of them.
LEMMA LabelsUnused ==
  ASSUME NEW c \in CheckId, ~AsksLabels(c), NEW L, NEW M
  PROVE  Run(c, L) = Run(c, M)
<1>1. CASE c = "priority-inversion-window"
  <2>1. \A i : GuardedPorts(i) = {}
    BY <1>1 DEF AsksLabels, GuardedPorts
  <2>2. \A i : Contenders(L, i) = Contenders(M, i)
    BY <2>1 DEF Contenders
  <2>3. PriorityInversionWindow(L) = PriorityInversionWindow(M)
    BY <2>2 DEF PriorityInversionWindow
  <2>4. QED
    BY <1>1, <2>3 DEF Run
<1>2. CASE c = "cpu-affinity"
  <2>1. \A i : GuardedPorts(i) = {}
    BY <1>2 DEF AsksLabels, GuardedPorts
  <2>2. \A i : Contenders(L, i) = Contenders(M, i)
    BY <2>1 DEF Contenders
  <2>3. CpuAffinity(L) = CpuAffinity(M)
    BY <2>2 DEF CpuAffinity
  <2>4. QED
    BY <1>2, <2>3 DEF Run
<1>3. CASE c = "data-race"
  <2>1. \A e \in Entries : e.kind # "async" => facts.reads[e.handler] = {} /\ facts.writes[e.handler] = {}
    BY <1>3 DEF AsksLabels
  <2>2. ASSUME NEW i, NEW m PROVE Accesses(L, i, m) = Accesses(M, i, m)
    <3>1. ASSUME NEW e \in Entries, m \in facts.writes[e.handler] \/ m \in facts.reads[e.handler], NEW w
          PROVE  Access(L, e, w) = Access(M, e, w)
      <4>1. e.kind = "async"
        BY <2>1, <3>1
      <4>2. QED
        BY <4>1 DEF Access
    <3>2. PICK W : W = {e \in Entries : Owner(e) = i /\ m \in facts.writes[e.handler]}
      OBVIOUS
    <3>3. PICK V : V = {e \in Entries : Owner(e) = i /\ m \in facts.reads[e.handler]}
      OBVIOUS
    <3>4. {Access(L, e, TRUE) : e \in W} = {Access(M, e, TRUE) : e \in W}
      BY <3>1, <3>2
    <3>5. {Access(L, e, FALSE) : e \in V} = {Access(M, e, FALSE) : e \in V}
      BY <3>1, <3>3
    <3>6. QED
      BY <3>2, <3>3, <3>4, <3>5 DEF Accesses
  <2>3. DataRace(L) = DataRace(M)
    BY <2>2 DEF DataRace
  <2>4. QED
    BY <1>3, <2>3 DEF Run
<1>4. CASE c = "rate-group"
  <2>1. \A i \in Instance : RateGroup(i) => Members(i) = {}
    BY <1>4 DEF AsksLabels
  <2>2. RateGroupBudget(L) = {} /\ RateGroupBudget(M) = {}
    BY <2>1 DEF RateGroupBudget
  <2>3. QED
    BY <1>4, <2>2 DEF Run
<1>5. CASE c \notin {"priority-inversion-window", "cpu-affinity", "data-race", "rate-group"}
  <2>1. c \in {"unconnected-port-invoked", "sync-cycle", "ping-coverage", "buffer-ownership",
               "stack-depth", "fatal-path", "queue-overflow", "cmd-tlm-paths"}
    <3>1. PICK k \in 1..12 : c = CHECKS[k]
      BY CheckFacts DEF CheckId
    <3>2. QED
      BY <1>5, <3>1 DEF CHECKS
  <2>2. QED
    BY <2>1 DEF Run
<1>6. QED
  BY <1>1, <1>2, <1>3, <1>4, <1>5

\* A suite begins with nothing computed and nothing found.
LEMMA ChecksBegin == Init => ChecksInv
<1> SUFFICES ASSUME Init PROVE ChecksInv
  OBVIOUS
<1>1. full \in Under
  BY FullUnder DEF Init
<1>2. labels \in Under
  BY DEF Init, Under
<1>3. \A c \in {"priority-inversion-window", "cpu-affinity"} : findings[c] = {}
  <2>1. CHECKS[1] = "priority-inversion-window" /\ CHECKS[12] = "cpu-affinity"
    BY DEF CHECKS
  <2>2. QED
    BY <2>1, CheckFacts DEF Init
<1>4. 1..(1 - 1) = {} /\ 1 \in 1..13
  OBVIOUS
<1>5. QED
  BY <1>2, <1>3, <1>4 DEF Init, ChecksInv

\* What a step keeps while the input does.
LEMMA SameInput ==
  ASSUME UNCHANGED inputVars
  PROVE  /\ UNCHANGED <<topo, facts, selected, full, raising>>
         /\ Under' = Under
         /\ \A c : (Selected(c)' <=> Selected(c)) /\ (OutputsRaise(c)' <=> OutputsRaise(c))
                   /\ (AsksLabels(c)' <=> AsksLabels(c))
         /\ \A c, L : Run(c, L)' = Run(c, L)
<1>1. topo' = topo /\ facts' = facts /\ selected' = selected /\ full' = full /\ raising' = raising
  BY DEF inputVars
<1>2. Under' = Under /\ Entries' = Entries /\ \A c : Selected(c)' <=> Selected(c)
  BY <1>1 DEF Under, Entries, Selected
<1>3. \A L : /\ PriorityInversionWindow(L)' = PriorityInversionWindow(L)
             /\ CpuAffinity(L)' = CpuAffinity(L)
  BY <1>1 DEF PriorityInversionWindow, CpuAffinity, Contenders, GuardedPorts
<1>4. \A L : DataRace(L)' = DataRace(L)
  BY <1>1 DEF DataRace, Accesses, Access, Entries, Owner, IsRace, IsSynchronized, RaceSeverity, Locked
<1>5. UnconnectedPortInvoked' = UnconnectedPortInvoked
  BY <1>1, <1>2 DEF UnconnectedPortInvoked, Owner, Unwired
<1>6. SyncCycle' = SyncCycle
  BY <1>1 DEF SyncCycle, ModulesOf, SyncPaths, SyncSuccessors, PurelySync, Entries
<1>7. PingCoverage' = PingCoverage /\ BufferOwnership' = BufferOwnership
  BY <1>1 DEF PingCoverage, BufferOwnership, OfType, Inputs, ReachedByType
<1>8. StackDepth' = StackDepth
  BY <1>1 DEF StackDepth, ThreadEntries, ThreadSuccessors, Owner, Entries
<1>9. \A L : RateGroupBudget(L)' = RateGroupBudget(L)
  BY <1>1 DEF RateGroupBudget, RateGroup, Members, SchedOutputs, OfType, Inputs, GuardedPorts
<1>10. FatalPath' = FatalPath /\ CommandTelemetryPaths' = CommandTelemetryPaths
  BY <1>1 DEF FatalPath, CommandTelemetryPaths, Entries, Owner, OfType
<1>11. QueueOverflow' = QueueOverflow
  BY <1>1 DEF QueueOverflow, QueuedCount, Queued, CallChains, Links, Wires, Posts, Entries, Owner,
              MapThenSumSet, MapThenFoldSet
<1>12. \A c, L : Run(c, L)' = Run(c, L)
  BY <1>3, <1>4, <1>5, <1>6, <1>7, <1>8, <1>9, <1>10, <1>11 DEF Run
<1>13. \A c : AskedOutputs(c)' = AskedOutputs(c)
  BY <1>1 DEF AskedOutputs, Unwired, Entries, Owner, ThreadEntries, ThreadSuccessors,
              CallChains, Links, Wires
<1>14. \A c : OutputsRaise(c)' <=> OutputsRaise(c)
  BY <1>1, <1>13 DEF OutputsRaise
<1>15. \A c : AsksLabels(c)' <=> AsksLabels(c)
  BY <1>1, <1>2, <1>5 DEF AsksLabels, RateGroup, Members, SchedOutputs, OfType, Inputs, GuardedPorts
<1>16. QED
  BY <1>1, <1>2, <1>12, <1>14, <1>15

\* Every step of the suite keeps its invariant.
LEMMA ChecksStep ==
  ASSUME ChecksInv, Next
  PROVE  ChecksInv'
<1>1. UNCHANGED inputVars /\ next \in 1..12 /\ next' = next + 1
  <2>1. UNCHANGED inputVars /\ ~Finished /\ next' = next + 1
    BY DEF Next, Deselected, NoFlowMap, Report, Fail
  <2>2. QED
    BY <2>1, CheckFacts DEF ChecksInv, Finished
<1>2. PICK c : c = CHECKS[next] /\ c = Check /\ c \in CheckId
  BY <1>1, CheckFacts DEF Check
<1>3. /\ topo' = topo /\ facts' = facts /\ full' = full /\ raising' = raising
      /\ topo \in Topologies /\ facts \in Facts
      /\ full = ThreadsReaching(topo) /\ raising = LabelsRaise(topo) /\ full \in Under
      /\ next' \in 1..13 /\ Under' = Under
  BY <1>1, SameInput, FullUnder DEF ChecksInv
<1>4. labels' \in Under
  BY <1>3, PartialUnder DEF ChecksInv, Next, Deselected, NoFlowMap, Report, Fail
<1>5. /\ DOMAIN findings' = CheckId
      /\ \A d \in CheckId \ {c} : findings'[d] = findings[d]
      /\ findings'[c] = findings[c] \/ findings'[c] \in Run(c, labels')
  BY <1>2 DEF ChecksInv, Next, Deselected, NoFlowMap, Report, Fail
<1>6. \A d \in {"priority-inversion-window", "cpu-affinity"} :
        findings'[d] = {} \/ \E L \in Under : findings'[d] \in Run(d, L)
  <2>1. "priority-inversion-window" \in CheckId /\ "cpu-affinity" \in CheckId
    <3>1. CHECKS[1] = "priority-inversion-window" /\ CHECKS[12] = "cpu-affinity"
      BY DEF CHECKS
    <3>2. QED
      BY <3>1, CheckFacts
  <2>2. QED
    BY <1>4, <1>5, <2>1 DEF ChecksInv
<1>7. ASSUME skipped' = {}
      PROVE  /\ computed' => labels' = full /\ ~raising
             /\ \A k \in 1..(next' - 1) : Selected(CHECKS[k]) => Ran(CHECKS[k])'
  <2>1. Deselected \/ Report
    BY <1>7 DEF Next, NoFlowMap, Fail
  <2>2. /\ skipped = {} /\ (computed => labels = full /\ ~raising)
        /\ \A k \in 1..(next - 1) : Selected(CHECKS[k]) => Ran(CHECKS[k])
    BY <1>7, <2>1 DEF ChecksInv, Deselected, Report
  <2>3. computed' => labels' = full /\ ~raising
    BY <2>1, <2>2 DEF Deselected, Report
  <2>4. ASSUME NEW k \in 1..(next - 1), Selected(CHECKS[k]) PROVE Ran(CHECKS[k])'
    <3>1. k \in 1..12 /\ k # next
      BY <1>1
    <3>2. CHECKS[k] \in CheckId \ {c}
      BY <1>1, <1>2, <3>1, CheckFacts
    <3>3. PICK d : d = CHECKS[k]
      OBVIOUS
    <3>4. findings'[d] = findings[d] /\ Ran(d)
      BY <1>5, <2>2, <2>4, <3>2, <3>3
    <3>5. Ran(d)'
      BY <1>1, <1>3, <3>4, SameInput DEF Ran
    <3>6. QED
      BY <3>3, <3>5
  <2>5. ASSUME Selected(c) PROVE Ran(c)'
    <3>1. Report
      BY <1>2, <2>1, <2>5 DEF Deselected
    <3>2. /\ ~OutputsRaise(c) /\ findings'[c] \in Run(c, labels')
          /\ AsksLabels(c) => ~raising /\ labels' = full
      BY <1>2, <2>2, <3>1 DEF Report, ChecksInv
    <3>3. findings'[c] \in Run(c, full)
      <4>1. CASE AsksLabels(c)
        BY <3>2, <4>1
      <4>2. CASE ~AsksLabels(c)
        <5>1. Run(c, labels') = Run(c, full)
          BY <1>2, <4>2, LabelsUnused
        <5>2. QED
          BY <3>2, <5>1
      <4>3. QED
        BY <4>1, <4>2
    <3>4. QED
      BY <1>1, <1>3, <3>2, <3>3, SameInput DEF Ran
  <2>6. next' - 1 = next /\ \A k \in 1..next : k \in 1..(next - 1) \/ k = next
    BY <1>1
  <2>7. ASSUME NEW k \in 1..(next' - 1), Selected(CHECKS[k]) PROVE Ran(CHECKS[k])'
    BY <1>2, <2>4, <2>5, <2>6, <2>7
  <2>8. QED
    BY <2>3, <2>7
<1>8. skipped' = {} => /\ computed' => labels' = full' /\ ~raising'
                      /\ \A k \in 1..(next' - 1) : Selected(CHECKS[k])' => Ran(CHECKS[k])'
  BY <1>1, <1>3, <1>7, SameInput
<1>9. \A d \in {"priority-inversion-window", "cpu-affinity"} :
        findings'[d] = {} \/ \E L \in Under' : findings'[d] \in Run(d, L)'
  BY <1>1, <1>3, <1>6, SameInput
<1>10. QED
  BY <1>3, <1>4, <1>5, <1>8, <1>9 DEF ChecksInv

\* What a finished run of all the checks rests on.
LEMMA AllRan ==
  ASSUME ChecksInv, Finished, selected = {}, skipped = {}
  PROVE  \A k \in 1..12 : Ran(CHECKS[k])
<1>1. next = 13 /\ 13 - 1 = 12
  BY CheckFacts DEF Finished, ChecksInv
<1>2. QED
  BY <1>1 DEF ChecksInv, Selected

\* A full run that skipped no check guessed nothing.  Either a port is guarded, and
\* the labels were computed and did not raise; or every handler a thread can reach
\* begins the thread, and stack-depth asks for it, or is called under "sync", and
\* sync-cycle does.
LEMMA GuessedNothing ==
  ASSUME ChecksInv
  PROVE  NothingSkippedNothingGuessed
<1> SUFFICES ASSUME Finished, selected = {}, skipped = {}, raising PROVE FALSE
  BY DEF NothingSkippedNothingGuessed
<1>1. \A k \in 1..12 : Ran(CHECKS[k])
  BY AllRan
<1>2. topo \in Topology /\ MaxChain \in Nat \ {0}
  BY InputTypes, TopologyChecksAssumption DEF ChecksInv
<1>3. \A p \in InPort : "guarded" \notin InputSyncKinds(topo, p)
  <2>1. CHECKS[1] = "priority-inversion-window"
    BY DEF CHECKS
  <2>2. ~AsksLabels("priority-inversion-window")
    BY <1>1, <2>1 DEF Ran
  <2>3. QED
    BY <2>2 DEF AsksLabels, GuardedEntries
<1>4. PICK s \in OriginSeeds(topo) : \E h \in ReachableFrom(topo, SeedHandlers(topo, s)) : Unresolved(topo, h)
  BY DEF ChecksInv, LabelsRaise
<1> DEFINE Asked == AskedOutputs("sync-cycle") \cup AskedOutputs("stack-depth")
<1>5. \A h \in Asked : ~Unresolved(topo, h)
  <2>1. CHECKS[3] = "sync-cycle" /\ CHECKS[7] = "stack-depth"
    BY DEF CHECKS
  <2>2. ~OutputsRaise("sync-cycle") /\ ~OutputsRaise("stack-depth")
    BY <1>1, <2>1 DEF Ran
  <2>3. QED
    BY <2>2 DEF OutputsRaise
<1>6. ASSUME NEW p \in InPort, "sync" \in InputSyncKinds(topo, p), NEW h \in FlowEntries(topo, p, "sync")
      PROVE  h \in Asked
  <2>1. h \in Handler
    BY <1>2, <1>6, FlowEntriesType DEF SyncKind
  <2>2. PICK e : e = [port |-> p, kind |-> "sync", handler |-> h]
    OBVIOUS
  <2>3. e \in Entries /\ e.kind = "sync" /\ e.handler = h
    BY <1>6, <2>1, <2>2 DEF Entries, Entry, SyncKind
  <2>4. h \in AskedOutputs("sync-cycle")
    BY <2>3 DEF AskedOutputs
  <2>5. QED
    BY <2>4
<1>7. ASSUME NEW p \in InPort, IsOwnThread(topo, topo.owner[p]), "async" \in InputSyncKinds(topo, p),
             NEW h \in FlowEntries(topo, p, "async")
      PROVE  h \in Asked
  <2>1. h \in Handler /\ topo.owner[p] \in Instance
    BY <1>2, <1>7, FlowEntriesType DEF SyncKind, Topology, Handler
  <2>2. PICK i, e : i = topo.owner[p] /\ e = [port |-> p, kind |-> "async", handler |-> h]
    OBVIOUS
  <2>3. e \in Entries /\ e.kind = "async" /\ e.handler = h /\ Owner(e) = i /\ i \in Instance
    BY <1>7, <2>1, <2>2 DEF Entries, Entry, SyncKind, Owner
  <2>4. h \in ThreadEntries(i)
    BY <2>3 DEF ThreadEntries
  <2>5. PICK callees : callees = [x \in Handler |-> ThreadSuccessors(x)]
    OBVIOUS
  <2>6. callees \in [Handler -> SUBSET Handler] /\ ThreadEntries(i) \in SUBSET Handler
    BY <1>2, <2>5, HopsType DEF ThreadSuccessors, ThreadEntries, Entries, Entry
  <2>7. 1 \in 1..MaxChain /\ 1 \in 1..(MaxChain + 1) /\ 1..(1 - 1) = {}
    BY <1>2
  <2>8. Chains(ThreadEntries(i), callees)[1] = ChainsOf(Handler, ThreadEntries(i), callees, 1)
    BY <1>2, <2>6, <2>7, ChainsAreChains
  <2>9. <<h>> \in ChainsOf(Handler, ThreadEntries(i), callees, 1) /\ <<h>>[1] = h
    BY <2>1, <2>4, <2>7 DEF ChainsOf
  <2>10. h \in AskedOutputs("stack-depth")
    BY <1>7, <2>2, <2>3, <2>5, <2>7, <2>8, <2>9 DEF AskedOutputs
  <2>11. QED
    BY <2>10
<1>8. s \in Seed /\ SeedHandlers(topo, s) \in SUBSET Handler
  BY <1>2, OriginSeedsType, FlowEntriesType DEF Seed, SeedHandlers
<1>9. SeedHandlers(topo, s) \subseteq Asked
  <2>1. CASE s \in ThreadSeeds(topo)
    BY <1>7, <2>1 DEF ThreadSeeds, SeedHandlers
  <2>2. CASE s \in ExternalSeeds(topo)
    <3>1. s.port \in InPort /\ s.kind \in InputSyncKinds(topo, s.port) \ {"async"}
      BY <2>2 DEF ExternalSeeds
    <3>2. s.kind = "sync"
      BY <1>2, <1>3, <3>1, InputSyncKindsType DEF SyncKind
    <3>3. QED
      BY <1>6, <3>1, <3>2 DEF SeedHandlers
  <2>3. QED
    BY <1>4, <2>1, <2>2 DEF OriginSeeds
<1>10. ASSUME NEW x \in Handler PROVE NextHandlers(topo, x) \subseteq Asked \cap Handler
  <2>1. ASSUME NEW hop \in ThreadHops(topo, x) PROVE FlowEntries(topo, hop.port, hop.kind) \subseteq Asked
    <3>1. hop \in [port : InPort, kind : SyncKind] /\ hop \in OutwardHops(topo, x) /\ hop.kind # "async"
      BY <1>2, HopsType DEF ThreadHops
    <3>2. hop.kind \in InputSyncKinds(topo, hop.port)
      BY <3>1 DEF OutwardHops
    <3>3. hop.kind = "sync"
      BY <1>3, <3>1, <3>2 DEF SyncKind
    <3>4. QED
      BY <1>6, <3>1, <3>2, <3>3
  <2>2. QED
    BY <1>2, <2>1, HopsType DEF NextHandlers
<1>11. ReachableFrom(topo, SeedHandlers(topo, s)) \subseteq Asked \cap Handler
  <2>1. PICK C : C = Asked \cap Handler
    OBVIOUS
  <2>2. /\ C \in SUBSET Handler /\ SeedHandlers(topo, s) \subseteq C
        /\ \A x \in C : NextHandlers(topo, x) \subseteq C
    BY <1>8, <1>9, <1>10, <2>1
  <2>3. QED
    BY <1>2, <1>8, <2>1, <2>2, ReachLeast
<1>12. QED
  BY <1>4, <1>5, <1>11

\* Threads that contend under labels that invent none reach a guarded port.
LEMMA ContendersReal ==
  ASSUME full \in Under, NEW L \in Under, NEW i
  PROVE  Contenders(L, i) \subseteq Takes(i) /\ Contenders(L, i) \subseteq Instance
<1>1. SUFFICES ASSUME NEW p \in GuardedPorts(i), NEW l \in LabelsOf(L, p), l[1] = "thread"
               PROVE  l[2] \in Takes(i) /\ l[2] \in Instance
  BY DEF Contenders, RealThreads
<1>2. p \in InPort
  BY DEF GuardedPorts, GuardedEntries
<1>3. l \in L[p]
  BY <1>1 DEF LabelsOf, UnknownThread
<1>4. l \in full[p] /\ l \in Origin
  BY <1>2, <1>3 DEF Under
<1>5. l \in RealThreads(UNION {full[q] : q \in GuardedPorts(i)})
  BY <1>1, <1>4 DEF RealThreads
<1>6. QED
  BY <1>1, <1>4, <1>5 DEF Takes, Origin

\* What is known of instances is a finite set of numbers.
LEMMA KnownFacts ==
  ASSUME NEW attribute \in [Instance -> Nat \cup {None}], NEW I \in SUBSET Instance
  PROVE  /\ Known(attribute, I) \in SUBSET Nat /\ IsFiniteSet(Known(attribute, I))
         /\ \A n \in Known(attribute, I) : \E i \in I : attribute[i] = n
<1>1. IsFiniteSet(I)
  BY NamesAssumption, FS_Subset
<1>2. IsFiniteSet({attribute[i] : i \in I})
  BY <1>1, FiniteImage
<1>3. IsFiniteSet(Known(attribute, I))
  BY <1>2, FS_Subset DEF Known
<1>4. QED
  BY <1>3 DEF Known

\* Contention that is reported is that of two threads that reach guarded ports of
\* the instance.
LEMMA ContentionIsReal ==
  ASSUME ChecksInv
  PROVE  ContentionReal
<1>1. /\ topo \in Topology /\ facts \in Fact /\ full \in Under
      /\ facts.priority \in [Instance -> Nat \cup {None}] /\ facts.cpu \in [Instance -> Nat \cup {None}]
  BY InputTypes, FullUnder DEF ChecksInv, Fact
<1>2. ASSUME NEW w \in findings["priority-inversion-window"]
      PROVE  \E a, b \in Takes(w[1]) : /\ {facts.priority[a], facts.priority[b]} \subseteq Nat
                                       /\ facts.priority[a] = facts.priority[b] + w[2]
  <2>1. PICK L \in Under : findings["priority-inversion-window"] = PriorityInversionWindow(L)
    BY <1>2 DEF ChecksInv, Run
  <2>2. PICK i \in Instance : w = <<i, Max(Known(facts.priority, Contenders(L, i)))
                                       - Min(Known(facts.priority, Contenders(L, i)))>>
                              /\ Cardinality(Known(facts.priority, Contenders(L, i))) > 1
    BY <1>2, <2>1 DEF PriorityInversionWindow
  <2>3. PICK K : K = Known(facts.priority, Contenders(L, i))
    OBVIOUS
  <2>4. Contenders(L, i) \subseteq Takes(i) /\ Contenders(L, i) \subseteq Instance
    BY <1>1, ContendersReal
  <2>5. /\ K \in SUBSET Nat /\ IsFiniteSet(K)
        /\ \A n \in K : \E j \in Contenders(L, i) : facts.priority[j] = n
    BY <1>1, <2>3, <2>4, KnownFacts
  <2>6. K # {}
    BY <2>2, <2>3, FS_EmptySet
  <2>7. Max(K) \in K /\ Min(K) \in K /\ Min(K) <= Max(K)
    BY <2>5, <2>6, Extremes
  <2>8. PICK a, b \in Contenders(L, i) : facts.priority[a] = Max(K) /\ facts.priority[b] = Min(K)
    BY <2>5, <2>7
  <2>9. Max(K) \in Nat /\ Min(K) \in Nat /\ Max(K) = Min(K) + (Max(K) - Min(K))
    <3>1. PICK m, n : m = Max(K) /\ n = Min(K)
      OBVIOUS
    <3>2. m \in Nat /\ n \in Nat
      BY <2>5, <2>7, <3>1
    <3>3. m = n + (m - n)
      BY <3>2
    <3>4. QED
      BY <3>1, <3>2, <3>3
  <2>10. w[1] = i /\ w[2] = Max(K) - Min(K)
    BY <2>2, <2>3
  <2>11. QED
    BY <2>4, <2>8, <2>9, <2>10
<1>3. ASSUME NEW i \in findings["cpu-affinity"]
      PROVE  \E a, b \in Takes(i) : {facts.cpu[a], facts.cpu[b]} \subseteq Nat /\ facts.cpu[a] # facts.cpu[b]
  <2>1. PICK L \in Under : findings["cpu-affinity"] = CpuAffinity(L)
    BY <1>3 DEF ChecksInv, Run
  <2>2. Cardinality(Known(facts.cpu, Contenders(L, i))) > 1
    BY <1>3, <2>1 DEF CpuAffinity
  <2>3. Contenders(L, i) \subseteq Takes(i) /\ Contenders(L, i) \subseteq Instance
    BY <1>1, ContendersReal
  <2>4. /\ Known(facts.cpu, Contenders(L, i)) \in SUBSET Nat
        /\ IsFiniteSet(Known(facts.cpu, Contenders(L, i)))
        /\ \A n \in Known(facts.cpu, Contenders(L, i)) : \E j \in Contenders(L, i) : facts.cpu[j] = n
    BY <1>1, <2>3, KnownFacts
  <2>5. PICK m, n \in Known(facts.cpu, Contenders(L, i)) : m # n
    BY <2>2, <2>4, TwoElements
  <2>6. QED
    BY <2>3, <2>4, <2>5
<1>4. QED
  BY <1>2, <1>3 DEF ContentionReal

-----------------------------------------------------------------------------
(* The checks, then the deployment. *)

\* The inductive invariant of the checks and the deployment.
DeploymentInv == ChecksInv /\ RtInv

\* It holds always.
LEMMA DeploymentInvariant == DeploymentSpec => []DeploymentInv
<1>0. MaxStack \in Nat
  BY FprimeRuntimeAssumption
<1>1. DeploymentInit => DeploymentInv
  BY <1>0, ChecksBegin, RuntimeBegins DEF DeploymentInit, DeploymentInv
<1>2. DeploymentInv /\ [CheckThenRun]_<<vars, stack, wants, posted>> => DeploymentInv'
  <2> SUFFICES ASSUME DeploymentInv, [CheckThenRun]_<<vars, stack, wants, posted>> PROVE DeploymentInv'
    OBVIOUS
  <2>0. ChecksInv /\ RtInv /\ topo \in Topology
    BY TopologiesAssumption DEF DeploymentInv, ChecksInv
  <2>1. ASSUME UNCHANGED vars PROVE ChecksInv' /\ UNCHANGED topo
    <3>1. UNCHANGED inputVars /\ UNCHANGED suiteVars /\ UNCHANGED topo
      BY <2>1 DEF vars, inputVars
    <3>2. UNCHANGED inputVars => \A c : Ran(c)' <=> Ran(c)
      BY <3>1, SameInput DEF Ran, suiteVars
    <3>3. ChecksInv'
      BY <2>0, <3>1, <3>2, SameInput DEF ChecksInv, suiteVars
    <3>4. QED
      BY <3>1, <3>3
  <2>2. ASSUME UNCHANGED topo, UNCHANGED <<stack, wants>> PROVE RtInv'
    BY <2>0, <2>2, RuntimeStays
  <2>3. CASE Next /\ UNCHANGED <<stack, wants, posted>>
    <3>1. ChecksInv'
      BY <2>0, <2>3, ChecksStep
    <3>2. UNCHANGED topo
      BY <2>3 DEF Next, Deselected, NoFlowMap, Report, Fail, inputVars
    <3>3. QED
      BY <2>2, <2>3, <3>1, <3>2 DEF DeploymentInv
  <2>4. CASE RunStep /\ UNCHANGED vars
    <3>1. RtInv'
      BY <1>0, <2>0, <2>1, <2>4, RuntimeStep DEF RunStep
    <3>2. QED
      BY <2>1, <2>4, <3>1 DEF DeploymentInv
  <2>5. CASE (\E th \in ActiveThreads : PostToItself(th)) /\ UNCHANGED vars
    BY <2>1, <2>2, <2>5 DEF PostToItself, DeploymentInv
  <2>6. CASE UNCHANGED <<vars, stack, wants, posted>>
    BY <2>1, <2>2, <2>6 DEF DeploymentInv
  <2>7. QED
    BY <2>3, <2>4, <2>5, <2>6 DEF CheckThenRun
<1>3. QED
  BY <1>1, <1>2, PTL DEF DeploymentSpec

-----------------------------------------------------------------------------
(* What a deployment in which every queue has a thread does, in the words of the *)
(* checks.                                                                       *)

\* A call of a thread entered a port under a kind; it holds the mutex if that is
\* guarded, and its handler is on the thread of its instance if it is async.
EnteredAs(th, c, e) ==
  /\ e \in Entries /\ e.port = c.port /\ e.handler = c.handler
  /\ c.locks = IF e.kind = "guarded" THEN {topo.owner[c.port]} ELSE {}
  /\ e.kind = "async" => th = <<"thread", topo.owner[c.port]>>

\* Where a port was entered.
LEMMA EnteredEntry ==
  ASSUME topo \in Topology, NEW c \in Calls, NEW kind, Entered(c, kind)
  PROVE  /\ [port |-> c.port, kind |-> kind, handler |-> c.handler] \in Entries
         /\ c.port \in InPort /\ c.handler \in Handler /\ topo.owner[c.port] \in Instance
         /\ topo.owner[c.handler] = topo.owner[c.port]
<1>1. c.port \in InPort /\ c.handler \in Handler
  BY DEF Calls
<1>2. /\ kind \in InputSyncKinds(topo, c.port)
      /\ c.handler \in FlowEntries(topo, c.port, kind)
  BY DEF Entered
<1>3. kind \in SyncKind
  BY <1>1, <1>2, InputSyncKindsType
<1>4. topo.owner[c.port] \in Instance
  BY <1>1 DEF Topology, Handler
<1>5. topo.owner[c.handler] = topo.owner[c.port]
  BY <1>2 DEF FlowEntries, CommandsOf
<1>6. QED
  BY <1>1, <1>2, <1>3, <1>4, <1>5 DEF Entries, Entry

\* A thread that serves a port is among its labels.
LEMMA ServesFull ==
  ASSUME topo \in Topology, full = ThreadsReaching(topo), NEW th, NEW p \in InPort, NEW H,
         Serves(topo, th, p, H)
  PROVE  th \in full[p]
<1>1. Serves(topo, th, p, H)
  OBVIOUS
<1>2. full[p] = {s.label : s \in {x \in OriginSeeds(topo) : p \in PortsReached(topo, x)}}
  BY ThreadsReachingDef
<1>3. QED
  BY <1>1, <1>2 DEF Serves

\* The calls in progress on a thread: what each was entered as, and how the next
\* came about.
LEMMA CallFacts ==
  ASSUME DeploymentInv, NoQueued, NEW th \in Origin
  PROVE  /\ Len(stack[th]) \in Nat /\ Len(stack[th]) <= MaxStack
         /\ \A k \in 1..Len(stack[th]) :
              /\ stack[th][k] \in Calls /\ stack[th][k].port \in InPort
              /\ stack[th][k].handler \in Handler
              /\ topo.owner[stack[th][k].port] \in Instance
              /\ topo.owner[stack[th][k].handler] = topo.owner[stack[th][k].port]
              /\ th \in full[stack[th][k].port]
              /\ \E e : EnteredAs(th, stack[th][k], e)
         /\ Len(stack[th]) > 0 /\ th[1] = "thread" =>
              /\ th = <<"thread", topo.owner[stack[th][1].port]>>
              /\ [port |-> stack[th][1].port, kind |-> "async", handler |-> stack[th][1].handler] \in Entries
         /\ \A k \in 1..(Len(stack[th]) - 1) :
              \E hop \in ThreadHops(topo, stack[th][k].handler) :
                /\ hop.port = stack[th][k + 1].port
                /\ hop.kind \in InputSyncKinds(topo, hop.port)
                /\ stack[th][k + 1].handler \in FlowEntries(topo, hop.port, hop.kind)
<1>1. ChecksInv /\ RtInv /\ topo \in Topology
  BY InputTypes DEF DeploymentInv, ChecksInv
<1>2. WellCalled(th) /\ NoQueued /\ stack[th] \in Seq(Calls)
  BY <1>1 DEF RtInv, NoQueued, RtType
<1>3. PICK s, m : s = stack[th] /\ m = Len(s)
  OBVIOUS
<1>4. m \in Nat /\ m <= MaxStack /\ \A k \in 1..m : s[k] \in Calls
  BY <1>2, <1>3 DEF WellCalled
<1>5. \A k \in 1..m : Serves(topo, th, s[k].port, {s[k].handler})
  BY <1>2, <1>3 DEF WellCalled
<1>6. m > 0 => Begins(th, s[1])
  BY <1>2, <1>3 DEF WellCalled
<1>7. \A k \in 1..(m - 1) : Continues(s[k], s[k + 1])
  BY <1>2, <1>3 DEF WellCalled
<1>8. ASSUME NEW k \in 1..(m - 1)
      PROVE  \E hop \in ThreadHops(topo, s[k].handler) : hop.port = s[k + 1].port /\ Entered(s[k + 1], hop.kind)
  <2>1. k + 1 \in 1..m
    BY <1>4
  <2>2. s[k + 1] \in Calls /\ Continues(s[k], s[k + 1])
    BY <1>4, <1>7, <2>1
  <2>3. topo.owner[s[k + 1].port] \in Instance
    BY <1>1, <2>2 DEF Calls, Topology, Handler
  <2>4. topo.component[topo.owner[s[k + 1].port]] # "queued"
    BY <1>2, <2>3 DEF NoQueued
  <2>5. PICK hop \in ThreadHops(topo, s[k].handler) : hop.port = s[k + 1].port /\ Entered(s[k + 1], hop.kind)
    BY <2>2, <2>4 DEF Continues
  <2>6. QED
    BY <2>5
<1>9. ASSUME NEW k \in 1..m
      PROVE  \E kind : /\ Entered(s[k], kind)
                       /\ kind = "async" => th = <<"thread", topo.owner[s[k].port]>>
  <2>1. CASE k = 1
    <3>1. Begins(th, s[1])
      BY <1>4, <1>6, <2>1
    <3>2. QED
      BY <2>1, <3>1 DEF Begins
  <2>2. CASE k # 1
    <3>1. PICK j \in 1..(m - 1) : k = j + 1
      <4>1. k - 1 \in 1..(m - 1) /\ k = (k - 1) + 1
        BY <1>4, <2>2
      <4>2. QED
        BY <4>1
    <3>2. PICK hop \in ThreadHops(topo, s[j].handler) : hop.port = s[k].port /\ Entered(s[k], hop.kind)
      BY <1>8, <3>1
    <3>3. hop.kind # "async"
      BY DEF ThreadHops
    <3>4. QED
      BY <3>2, <3>3
  <2>3. QED
    BY <2>1, <2>2
<1>10. ASSUME NEW k \in 1..m
       PROVE  /\ s[k] \in Calls /\ s[k].port \in InPort /\ s[k].handler \in Handler
              /\ topo.owner[s[k].port] \in Instance
              /\ topo.owner[s[k].handler] = topo.owner[s[k].port]
              /\ th \in full[s[k].port]
              /\ \E e : EnteredAs(th, s[k], e)
  <2>1. s[k] \in Calls
    BY <1>4
  <2>2. PICK kind : Entered(s[k], kind) /\ (kind = "async" => th = <<"thread", topo.owner[s[k].port]>>)
    BY <1>9
  <2>3. PICK e : e = [port |-> s[k].port, kind |-> kind, handler |-> s[k].handler]
    OBVIOUS
  <2>4. /\ e \in Entries /\ s[k].port \in InPort /\ s[k].handler \in Handler
        /\ topo.owner[s[k].port] \in Instance /\ topo.owner[s[k].handler] = topo.owner[s[k].port]
    BY <1>1, <2>1, <2>2, <2>3, EnteredEntry
  <2>5. EnteredAs(th, s[k], e)
    BY <2>2, <2>3, <2>4 DEF EnteredAs, Entered
  <2>6. Serves(topo, th, s[k].port, {s[k].handler})
    BY <1>5
  <2>7. th \in full[s[k].port]
    BY <1>1, <2>4, <2>6, ServesFull DEF ChecksInv
  <2>8. QED
    BY <2>1, <2>4, <2>5, <2>7
<1>11. ASSUME m > 0, th[1] = "thread"
       PROVE  /\ th = <<"thread", topo.owner[s[1].port]>>
              /\ [port |-> s[1].port, kind |-> "async", handler |-> s[1].handler] \in Entries
  <2>1. Begins(th, s[1]) /\ s[1] \in Calls
    BY <1>4, <1>6, <1>11
  <2>2. th # <<"external", s[1].port>>
    BY <1>11
  <2>3. th = <<"thread", topo.owner[s[1].port]>> /\ Entered(s[1], "async")
    BY <2>1, <2>2 DEF Begins
  <2>4. QED
    BY <1>1, <2>1, <2>3, EnteredEntry
<1>12. ASSUME NEW k \in 1..(m - 1)
       PROVE  \E hop \in ThreadHops(topo, s[k].handler) :
                /\ hop.port = s[k + 1].port
                /\ hop.kind \in InputSyncKinds(topo, hop.port)
                /\ s[k + 1].handler \in FlowEntries(topo, hop.port, hop.kind)
  <2>1. PICK hop \in ThreadHops(topo, s[k].handler) : hop.port = s[k + 1].port /\ Entered(s[k + 1], hop.kind)
    BY <1>8
  <2>2. QED
    BY <2>1 DEF Entered
<1>13. QED
  BY <1>3, <1>4, <1>10, <1>11, <1>12

\* What a thread waits for.
LEMMA WantFacts ==
  ASSUME DeploymentInv, NoQueued, NEW th \in Origin,
         NEW p \in wants[th]
  PROVE  /\ wants[th] = {p} /\ p \in InPort /\ "guarded" \in InputSyncKinds(topo, p)
         /\ topo.owner[p] \in Instance /\ th \in full[p]
<1>1. ChecksInv /\ RtInv /\ topo \in Topology
  BY InputTypes DEF DeploymentInv, ChecksInv
<1>2. WellWanted(th) /\ p \in InPort /\ NoQueued
  BY <1>1 DEF RtInv, RtType, NoQueued
<1>3. Serving(th) = th
  <2>1. topo \in Topology
    BY <1>1
  <2>2. th \in Origin
    OBVIOUS
  <2>3. QED
    BY <1>1, <1>2, <2>2, TopCall
<1>4. /\ wants[th] = {p} /\ "guarded" \in InputSyncKinds(topo, p)
      /\ Serves(topo, th, p, FlowEntries(topo, p, "guarded"))
  BY <1>2, <1>3 DEF WellWanted
<1>5. th \in full[p]
  BY <1>1, <1>2, <1>4, ServesFull DEF ChecksInv
<1>6. topo.owner[p] \in Instance
  BY <1>1, <1>2 DEF Topology, Handler
<1>7. QED
  BY <1>2, <1>4, <1>5, <1>6

\* A trusted run reports what every check does under the labels of the topology.
LEMMA TrustedFacts ==
  ASSUME DeploymentInv, Trusted
  PROVE  /\ topo \in Topology /\ facts \in Fact /\ full \in Under
         /\ NoQueued
         /\ findings["priority-inversion-window"] = PriorityInversionWindow(full)
         /\ findings["cpu-affinity"] = CpuAffinity(full)
         /\ findings["data-race"] = DataRace(full)
         /\ findings["rate-group"] = RateGroupBudget(full)
         /\ findings["stack-depth"] = StackDepth
         /\ findings["queue-overflow"] = QueueOverflow
         /\ findings["sync-cycle"] \in SyncCycle
<1>1. \A k \in 1..12 : findings[CHECKS[k]] \in Run(CHECKS[k], full)
  BY AllRan DEF DeploymentInv, Trusted, Ran
<1>2. /\ CHECKS[1] = "priority-inversion-window" /\ CHECKS[12] = "cpu-affinity"
      /\ CHECKS[5] = "data-race" /\ CHECKS[8] = "rate-group" /\ CHECKS[7] = "stack-depth"
      /\ CHECKS[10] = "queue-overflow" /\ CHECKS[3] = "sync-cycle"
  BY DEF CHECKS
<1>3. /\ findings["priority-inversion-window"] \in Run("priority-inversion-window", full)
      /\ findings["cpu-affinity"] \in Run("cpu-affinity", full)
      /\ findings["data-race"] \in Run("data-race", full)
      /\ findings["rate-group"] \in Run("rate-group", full)
      /\ findings["stack-depth"] \in Run("stack-depth", full)
      /\ findings["queue-overflow"] \in Run("queue-overflow", full)
      /\ findings["sync-cycle"] \in Run("sync-cycle", full)
  BY <1>1, <1>2
<1>4. topo \in Topology /\ facts \in Fact /\ full \in Under
  BY InputTypes, FullUnder DEF DeploymentInv, ChecksInv
<1>5. QED
  BY <1>3, <1>4 DEF Run, Trusted

-----------------------------------------------------------------------------
(* Races. *)

\* There are finitely many entries and origins.
LEMMA FiniteEntries == IsFiniteSet(Entries) /\ IsFiniteSet(Origin \cup UnknownThread)
<1>1. IsFiniteSet(Handler) /\ IsFiniteSet(SyncKind)
  <2>1. IsFiniteSet(Handler)
    BY NamesAssumption, FS_Union DEF Handler
  <2>2. IsFiniteSet({"sync"}) /\ IsFiniteSet({"sync"} \cup {"guarded"})
    BY FS_Singleton, FS_AddElement
  <2>3. IsFiniteSet(({"sync"} \cup {"guarded"}) \cup {"async"})
    BY <2>2, FS_AddElement
  <2>4. SyncKind = ({"sync"} \cup {"guarded"}) \cup {"async"}
    BY DEF SyncKind
  <2>5. QED
    BY <2>1, <2>3, <2>4
<1>2. IsFiniteSet(Entries)
  <2>1. IsFiniteSet(InPort \X SyncKind)
    BY <1>1, NamesAssumption, FS_Product
  <2>2. IsFiniteSet((InPort \X SyncKind) \X Handler)
    BY <1>1, <2>1, FS_Product
  <2>3. PICK S : S = (InPort \X SyncKind) \X Handler
    OBVIOUS
  <2>4. PICK f : f = [x \in S |-> [port |-> x[1][1], kind |-> x[1][2], handler |-> x[2]]]
    OBVIOUS
  <2>5. IsFiniteSet({f[x] : x \in S})
    BY <2>2, <2>3, FiniteImage
  <2>6. ASSUME NEW e \in Entry PROVE e \in {f[x] : x \in S}
    <3>1. <<<<e.port, e.kind>>, e.handler>> \in S
      BY <2>3 DEF Entry
    <3>2. f[<<<<e.port, e.kind>>, e.handler>>] = e
      BY <2>4, <3>1 DEF Entry
    <3>3. QED
      BY <3>1, <3>2
  <2>7. Entries \in SUBSET {f[x] : x \in S}
    BY <2>6 DEF Entries
  <2>8. QED
    BY <2>5, <2>7, FS_Subset
<1>3. IsFiniteSet(Origin \cup UnknownThread)
  <2>1. IsFiniteSet({"thread"} \X Instance) /\ IsFiniteSet({"external"} \X InPort)
    BY NamesAssumption, FS_Singleton, FS_Product
  <2>2. IsFiniteSet(Origin)
    BY <2>1, FS_Union DEF Origin
  <2>3. QED
    BY <2>2, FS_AddElement DEF UnknownThread
<1>4. QED
  BY <1>2, <1>3

\* Accesses are finitely many, by finitely many threads.
LEMMA FiniteAccesses ==
  ASSUME topo \in Topology, full \in Under, NEW i, NEW m
  PROVE  /\ IsFiniteSet(Accesses(full, i, m))
         /\ \A T \in SUBSET Accesses(full, i, m) : IsFiniteSet(ThreadsOf(T))
<1>1. ASSUME NEW E \in SUBSET Entries, NEW w
      PROVE  IsFiniteSet({Access(full, e, w) : e \in E})
  <2>1. IsFiniteSet(E)
    BY FiniteEntries, FS_Subset
  <2>2. PICK f : f = [e \in E |-> Access(full, e, w)]
    OBVIOUS
  <2>3. IsFiniteSet({f[e] : e \in E})
    BY <2>1, FiniteImage
  <2>4. {f[e] : e \in E} = {Access(full, e, w) : e \in E}
    BY <2>2
  <2>5. QED
    BY <2>3, <2>4
<1>2. PICK W, D : /\ W = {e \in Entries : Owner(e) = i /\ m \in facts.writes[e.handler]}
                  /\ D = {e \in Entries : Owner(e) = i /\ m \in facts.reads[e.handler]}
  OBVIOUS
<1>3. Accesses(full, i, m) = {Access(full, e, TRUE) : e \in W} \cup {Access(full, e, FALSE) : e \in D}
  BY <1>2 DEF Accesses
<1>4. IsFiniteSet({Access(full, e, TRUE) : e \in W}) /\ IsFiniteSet({Access(full, e, FALSE) : e \in D})
  BY <1>1, <1>2
<1>5. IsFiniteSet(Accesses(full, i, m))
  BY <1>3, <1>4, FS_Union
<1>6. ASSUME NEW e \in Entries, NEW w PROVE Access(full, e, w).threads \subseteq Origin \cup UnknownThread
  <2>1. e.port \in InPort /\ topo.owner[e.port] \in Instance
    BY DEF Entries, Entry, Topology, Handler
  <2>2. LabelsOf(full, e.port) \subseteq Origin \cup UnknownThread
    BY <2>1 DEF LabelsOf, Under
  <2>3. <<"thread", Owner(e)>> \in Origin
    BY <2>1 DEF Owner, Origin
  <2>4. QED
    BY <2>2, <2>3 DEF Access
<1>7. \A a \in Accesses(full, i, m) : a.threads \subseteq Origin \cup UnknownThread
  BY <1>2, <1>3, <1>6
<1>8. ASSUME NEW T \in SUBSET Accesses(full, i, m) PROVE IsFiniteSet(ThreadsOf(T))
  <2>1. ThreadsOf(T) \in SUBSET (Origin \cup UnknownThread)
    BY <1>7 DEF ThreadsOf
  <2>2. QED
    BY <2>1, FiniteEntries, FS_Subset
<1>9. QED
  BY <1>5, <1>8

\* A handler that touches a member is among its accesses, under a thread that runs it.
LEMMA AccessFound ==
  ASSUME NEW th, NEW c, NEW e, EnteredAs(th, c, e), th \in full[c.port],
         NEW m, NEW w \in BOOLEAN,
         m \in IF w THEN facts.writes[c.handler] ELSE facts.reads[c.handler]
  PROVE  /\ Access(full, e, w) \in Accesses(full, topo.owner[c.port], m)
         /\ th \in Access(full, e, w).threads
<1>1. Owner(e) = topo.owner[c.port] /\ e \in Entries /\ e.handler = c.handler /\ e.port = c.port
  BY DEF EnteredAs, Owner
<1>2. Access(full, e, w) \in Accesses(full, topo.owner[c.port], m)
  BY <1>1 DEF Accesses
<1>3. th \in Access(full, e, w).threads
  BY <1>1 DEF EnteredAs, Access, LabelsOf
<1>4. QED
  BY <1>2, <1>3

\* Two threads that meet in a member were reported.
LEMMA RacesFound ==
  ASSUME DeploymentInv
  PROVE  RacesPredicted
<1> SUFFICES ASSUME Trusted, NEW th \in Threads, NEW u \in Threads, NEW m \in Member, Racing(th, u, m)
             PROVE  /\ ~SynchronizedApart(topo.owner[Running(th).port], m) => RaceReported(th, m)
                    /\ /\ m \in facts.writes[Running(th).handler] \cap facts.writes[Running(u).handler]
                       /\ Running(th).handler # Running(u).handler
                       /\ Running(th).locks \cup Running(u).locks = {}
                       /\ facts.locks[Running(th).handler] \cup facts.locks[Running(u).handler] = {}
                       => <<topo.owner[Running(th).port], m, "warning">> \in findings["data-race"]
  BY DEF RacesPredicted
<1>1. PICK a, b, i : a = Running(th) /\ b = Running(u) /\ i = topo.owner[a.port]
  OBVIOUS
<1>2. /\ th # u /\ topo.owner[b.port] = i /\ m \in Touches(a.handler) /\ m \in Touches(b.handler)
      /\ m \in facts.writes[a.handler] \cup facts.writes[b.handler]
      /\ Len(stack[th]) > 0 /\ Len(stack[u]) > 0
      /\ a = stack[th][Len(stack[th])] /\ b = stack[u][Len(stack[u])]
  BY <1>1 DEF Racing, Depth, Running
<1>3. /\ topo \in Topology /\ full \in Under /\ findings["data-race"] = DataRace(full)
      /\ NoQueued
  BY TrustedFacts
<1>4. th \in Origin /\ u \in Origin
  BY ThreadsAreOrigins
<1>5. th \in full[a.port] /\ i \in Instance /\ \E e : EnteredAs(th, a, e)
  <2>1. Len(stack[th]) \in 1..Len(stack[th])
    BY <1>2, <1>3, <1>4, CallFacts
  <2>2. \A k \in 1..Len(stack[th]) :
          /\ topo.owner[stack[th][k].port] \in Instance
          /\ th \in full[stack[th][k].port]
          /\ \E e : EnteredAs(th, stack[th][k], e)
    BY <1>3, <1>4, CallFacts
  <2>3. QED
    BY <1>1, <1>2, <2>1, <2>2
<1>6. u \in full[b.port] /\ \E e : EnteredAs(u, b, e)
  <2>1. Len(stack[u]) \in 1..Len(stack[u])
    BY <1>2, <1>3, <1>4, CallFacts
  <2>2. QED
    BY <1>2, <1>3, <1>4, <2>1, CallFacts
<1>7. PICK d, e : EnteredAs(th, a, d) /\ EnteredAs(u, b, e)
  BY <1>5, <1>6
<1>8. PICK x \in BOOLEAN, y \in BOOLEAN :
        /\ m \in IF x THEN facts.writes[a.handler] ELSE facts.reads[a.handler]
        /\ m \in IF y THEN facts.writes[b.handler] ELSE facts.reads[b.handler]
        /\ x \/ y
        /\ m \in facts.writes[a.handler] \cap facts.writes[b.handler] => x /\ y
  BY <1>2 DEF Touches
<1>9. PICK A, p, q : /\ A = Accesses(full, i, m)
                     /\ p = Access(full, d, x) /\ q = Access(full, e, y)
  OBVIOUS
<1>10. p \in A /\ th \in p.threads /\ q \in A /\ u \in q.threads
  BY <1>1, <1>2, <1>5, <1>6, <1>7, <1>8, <1>9, AccessFound
<1>11. /\ p.kind = d.kind /\ p.handler = a.handler /\ p.writes = x
       /\ q.kind = e.kind /\ q.handler = b.handler /\ q.writes = y
  BY <1>7, <1>9 DEF Access, EnteredAs
<1>12. p.kind # "async" \/ q.kind # "async"
  BY <1>1, <1>2, <1>7, <1>11 DEF EnteredAs
<1>13. IsFiniteSet(A) /\ \A T \in SUBSET A : IsFiniteSet(ThreadsOf(T))
  BY <1>3, <1>9, FiniteAccesses
<1>14. ASSUME NEW T \in SUBSET A, p \in T, q \in T PROVE Cardinality(ThreadsOf(T)) > 1
  <2>1. th \in ThreadsOf(T) /\ u \in ThreadsOf(T)
    BY <1>10, <1>14 DEF ThreadsOf
  <2>2. QED
    BY <1>2, <1>13, <2>1, TwoElements
<1>15. ASSUME \E r \in A : ~Guarded(r) /\ ~Locked(r)
       PROVE  <<i, m, RaceSeverity(A)>> \in findings["data-race"]
  <2>1. ~IsSynchronized(A)
    BY <1>10, <1>12, <1>15 DEF IsSynchronized, Locked
  <2>2. Cardinality(ThreadsOf(A)) > 1
    BY <1>10, <1>14
  <2>3. p.writes \/ q.writes
    BY <1>8, <1>11
  <2>4. IsRace(A)
    BY <1>10, <2>1, <2>2, <2>3 DEF IsRace
  <2>5. PICK s \in Instance \X Member : s[1] = i /\ s[2] = m
    <3>1. <<i, m>> \in Instance \X Member /\ <<i, m>>[1] = i /\ <<i, m>>[2] = m
      BY <1>5
    <3>2. QED
      BY <3>1
  <2>6. s \in {z \in Instance \X Member : IsRace(Accesses(full, z[1], z[2]))}
    BY <1>9, <2>4, <2>5
  <2>7. <<s[1], s[2], RaceSeverity(Accesses(full, s[1], s[2]))>> \in DataRace(full)
    BY <2>6 DEF DataRace
  <2>8. QED
    BY <1>3, <1>9, <2>5, <2>7
<1>16. ASSUME ~SynchronizedApart(i, m) PROVE RaceReported(th, m)
  <2>1. PICK f \in Entries : /\ topo.owner[f.port] = i /\ m \in Touches(f.handler)
                             /\ f.kind # "guarded" /\ facts.locks[f.handler] = {}
    BY <1>16 DEF SynchronizedApart
  <2>2. PICK w \in BOOLEAN : m \in IF w THEN facts.writes[f.handler] ELSE facts.reads[f.handler]
    BY <2>1 DEF Touches
  <2>3. Access(full, f, w) \in A
    BY <1>9, <2>1, <2>2 DEF Accesses, Owner
  <2>4. ~Guarded(Access(full, f, w)) /\ ~Locked(Access(full, f, w))
    BY <2>1 DEF Access, Guarded, Locked
  <2>5. <<i, m, RaceSeverity(A)>> \in findings["data-race"]
    BY <1>15, <2>3, <2>4
  <2>6. RaceSeverity(A) \in {"warning", "info"}
    BY DEF RaceSeverity
  <2>7. QED
    BY <1>1, <2>5, <2>6 DEF RaceReported
<1>17. ASSUME m \in facts.writes[a.handler] \cap facts.writes[b.handler], a.handler # b.handler,
              a.locks \cup b.locks = {}, facts.locks[a.handler] \cup facts.locks[b.handler] = {}
       PROVE  <<i, m, "warning">> \in findings["data-race"]
  <2>1. p.writes /\ q.writes /\ p # q
    BY <1>8, <1>11, <1>17
  <2>2. d.kind # "guarded" /\ e.kind # "guarded"
    BY <1>7, <1>17 DEF EnteredAs
  <2>3. ~Guarded(p) /\ ~Locked(p) /\ ~Guarded(q) /\ ~Locked(q)
    BY <1>11, <1>17, <2>2 DEF Guarded, Locked
  <2>4. PICK W : W = {r \in A : r.writes /\ ~Guarded(r) /\ ~Locked(r)}
    OBVIOUS
  <2>5. p \in W /\ q \in W /\ W \in SUBSET A
    BY <1>10, <2>1, <2>3, <2>4
  <2>6. IsFiniteSet(W) /\ Cardinality(ThreadsOf(W)) > 1
    BY <1>13, <1>14, <2>5, FS_Subset
  <2>7. Cardinality(W) > 1
    BY <2>1, <2>5, <2>6, TwoElements
  <2>8. RaceSeverity(A) = "warning"
    BY <2>4, <2>6, <2>7 DEF RaceSeverity
  <2>9. QED
    BY <1>10, <1>15, <2>3, <2>8
<1>18. QED
  BY <1>1, <1>16, <1>17

-----------------------------------------------------------------------------
(* Contention. *)

\* A thread that reaches a guarded port contends for its mutex.
LEMMA Contends ==
  ASSUME NEW q \in InPort, "guarded" \in InputSyncKinds(topo, q), NEW j, <<"thread", j>> \in full[q]
  PROVE  j \in Contenders(full, topo.owner[q])
<1>1. q \in GuardedPorts(topo.owner[q])
  BY DEF GuardedPorts, GuardedEntries
<1>2. <<"thread", j>> \in RealThreads(UNION {LabelsOf(full, p) : p \in GuardedPorts(topo.owner[q])})
  BY <1>1 DEF RealThreads, LabelsOf
<1>3. PICK l : l = <<"thread", j>> /\ l[2] = j
  <2>1. <<"thread", j>>[2] = j
    OBVIOUS
  <2>2. QED
    BY <2>1
<1>4. l[2] \in Contenders(full, topo.owner[q])
  BY <1>2, <1>3 DEF Contenders
<1>5. QED
  BY <1>3, <1>4

\* What is known of two contenders is known, and spans a window when it differs.
LEMMA KnownOfBoth ==
  ASSUME NEW attribute \in [Instance -> Nat \cup {None}], NEW I \in SUBSET Instance,
         NEW j \in I, NEW l \in I, attribute[j] \in Nat, attribute[l] \in Nat, attribute[j] # attribute[l]
  PROVE  LET K == Known(attribute, I)
         IN  /\ Cardinality(K) > 1
             /\ attribute[j] - attribute[l] \in (-(Max(K) - Min(K)))..(Max(K) - Min(K))
<1>1. PICK K : K = Known(attribute, I)
  OBVIOUS
<1>2. K \in SUBSET Nat /\ IsFiniteSet(K)
  BY <1>1, KnownFacts
<1>3. attribute[j] \in K /\ attribute[l] \in K
  <2>1. None \notin Nat
    BY TopologyChecksAssumption
  <2>2. QED
    BY <1>1, <2>1 DEF Known
<1>4. Cardinality(K) > 1
  BY <1>2, <1>3, TwoElements
<1>5. /\ Max(K) \in K /\ Min(K) \in K
      /\ attribute[j] <= Max(K) /\ attribute[l] <= Max(K)
      /\ Min(K) <= attribute[j] /\ Min(K) <= attribute[l]
  BY <1>2, <1>3, Extremes
<1>6. ASSUME NEW a \in Nat, NEW b \in Nat, NEW n \in Nat, NEW o \in Nat,
             a <= n, b <= n, o <= a, o <= b
      PROVE  a - b \in (-(n - o))..(n - o)
  BY <1>6
<1>7. Max(K) \in Nat /\ Min(K) \in Nat
  BY <1>2, <1>5
<1>8. attribute[j] - attribute[l] \in (-(Max(K) - Min(K)))..(Max(K) - Min(K))
  BY <1>5, <1>6, <1>7
<1>9. QED
  BY <1>1, <1>4, <1>8

\* A thread that holds a mutex reached a guarded port of the instance.
LEMMA HolderFacts ==
  ASSUME DeploymentInv, NoQueued, NEW u \in Origin,
         NEW k \in 1..Len(stack[u]), NEW i \in stack[u][k].locks
  PROVE  LET q == stack[u][k].port
         IN  /\ q \in InPort /\ "guarded" \in InputSyncKinds(topo, q)
             /\ topo.owner[q] = i /\ u \in full[q]
<1>1. PICK c : c = stack[u][k]
  OBVIOUS
<1>2. c.port \in InPort /\ u \in full[c.port] /\ \E e : EnteredAs(u, c, e)
  BY <1>1, CallFacts
<1>3. PICK e : EnteredAs(u, c, e)
  BY <1>2
<1>4. e.kind = "guarded" /\ topo.owner[c.port] = i
  BY <1>1, <1>3 DEF EnteredAs
<1>5. "guarded" \in InputSyncKinds(topo, c.port)
  BY <1>3, <1>4 DEF EnteredAs, Entries
<1>6. QED
  BY <1>1, <1>2, <1>4, <1>5

\* Threads that block each other at different priorities or on different CPUs, and
\* rate groups that stall, were reported.
LEMMA ContentionFound ==
  ASSUME DeploymentInv
  PROVE  ContentionPredicted
<1> SUFFICES ASSUME Trusted PROVE ContentionPredicted
  BY DEF ContentionPredicted
<1>1. /\ topo \in Topology /\ facts \in Fact /\ full \in Under
      /\ NoQueued
      /\ findings["priority-inversion-window"] = PriorityInversionWindow(full)
      /\ findings["cpu-affinity"] = CpuAffinity(full)
      /\ findings["rate-group"] = RateGroupBudget(full)
  BY TrustedFacts
<1>2. /\ facts.priority \in [Instance -> Nat \cup {None}] /\ facts.cpu \in [Instance -> Nat \cup {None}]
  BY <1>1 DEF Fact
<1>3. ASSUME NEW th \in ActiveThreads, NEW u \in (Blockers(th) \cap ActiveThreads) \ {th}
      PROVE  LET i == CHOOSE x \in Wanted(th) : TRUE
             IN  /\ /\ facts.priority[th[2]] \in Nat /\ facts.priority[u[2]] \in Nat
                    /\ facts.priority[th[2]] # facts.priority[u[2]]
                    => \E w \in findings["priority-inversion-window"] :
                         /\ w[1] = i
                         /\ facts.priority[th[2]] - facts.priority[u[2]] \in (-w[2])..w[2]
                 /\ /\ facts.cpu[th[2]] \in Nat /\ facts.cpu[u[2]] \in Nat
                    /\ facts.cpu[th[2]] # facts.cpu[u[2]]
                    => i \in findings["cpu-affinity"]
  <2>1. PICK j \in Instance, l \in Instance : th = <<"thread", j>> /\ u = <<"thread", l>>
    BY DEF ActiveThreads
  <2>2. th \in Origin /\ u \in Origin /\ th[2] = j /\ u[2] = l
    BY <2>1 DEF Origin
  <2>3. Wanted(th) \cap Held(u) # {}
    BY DEF Blockers
  <2>4. PICK p \in wants[th] : topo.owner[p] \in Held(u)
    BY <2>3 DEF Wanted
  <2>5. /\ wants[th] = {p} /\ p \in InPort /\ "guarded" \in InputSyncKinds(topo, p)
        /\ topo.owner[p] \in Instance /\ th \in full[p]
    BY <1>1, <2>2, WantFacts
  <2>6. PICK i : i = topo.owner[p]
    OBVIOUS
  <2>7. Wanted(th) = {i} /\ i \in Instance
    BY <2>5, <2>6 DEF Wanted
  <2>8. i = CHOOSE x \in Wanted(th) : TRUE
    BY <2>7
  <2>9. PICK k \in 1..Len(stack[u]) : i \in stack[u][k].locks
    BY <2>4, <2>6 DEF Held
  <2>10. PICK q : q = stack[u][k].port
    OBVIOUS
  <2>11. q \in InPort /\ "guarded" \in InputSyncKinds(topo, q) /\ topo.owner[q] = i /\ u \in full[q]
    BY <1>1, <2>2, <2>9, <2>10, HolderFacts
  <2>12. j \in Contenders(full, i) /\ l \in Contenders(full, i)
    BY <2>1, <2>5, <2>6, <2>11, Contends
  <2>13. Contenders(full, i) \in SUBSET Instance
    BY <1>1, ContendersReal
  <2>14. ASSUME facts.priority[j] \in Nat, facts.priority[l] \in Nat, facts.priority[j] # facts.priority[l]
         PROVE  \E w \in findings["priority-inversion-window"] :
                  w[1] = i /\ facts.priority[j] - facts.priority[l] \in (-w[2])..w[2]
    <3>1. PICK K : K = Known(facts.priority, Contenders(full, i))
      OBVIOUS
    <3>2. /\ Cardinality(K) > 1
          /\ facts.priority[j] - facts.priority[l] \in (-(Max(K) - Min(K)))..(Max(K) - Min(K))
      BY <1>2, <2>12, <2>13, <2>14, <3>1, KnownOfBoth
    <3>3. <<i, Max(K) - Min(K)>> \in findings["priority-inversion-window"]
      BY <1>1, <2>7, <3>1, <3>2 DEF PriorityInversionWindow
    <3>4. QED
      BY <3>2, <3>3
  <2>15. ASSUME facts.cpu[j] \in Nat, facts.cpu[l] \in Nat, facts.cpu[j] # facts.cpu[l]
         PROVE  i \in findings["cpu-affinity"]
    <3>1. Cardinality(Known(facts.cpu, Contenders(full, i))) > 1
      BY <1>2, <2>12, <2>13, <2>15, KnownOfBoth
    <3>2. QED
      BY <1>1, <2>7, <3>1 DEF CpuAffinity
  <2>16. QED
    BY <2>2, <2>8, <2>14, <2>15
<1>4. ASSUME NEW th \in Threads, NEW u \in Threads, NEW p \in wants[th], Stalled(th, p, u)
      PROVE  <<th[2], p>> \in findings["rate-group"]
  <2>1. /\ th \in Origin /\ u \in Origin /\ th[1] = "thread" /\ RateGroup(th[2])
        /\ p \in Members(th[2]) /\ u # th
    BY <1>4, ThreadsAreOrigins DEF Stalled
  <2>2. PICK k \in 1..Len(stack[u]) : stack[u][k].port = p
    BY <1>4 DEF Stalled, Depth
  <2>3. u \in full[p]
    BY <1>1, <2>1, <2>2, CallFacts
  <2>4. PICK j \in Instance : th = <<"thread", j>> /\ th[2] = j
    BY <2>1 DEF Origin
  <2>5. u \in LabelsOf(full, p) \ {<<"thread", j>>}
    BY <2>1, <2>3, <2>4 DEF LabelsOf
  <2>6. <<j, p>> \in RateGroupBudget(full)
    BY <2>1, <2>4, <2>5 DEF RateGroupBudget
  <2>7. QED
    BY <1>1, <2>4, <2>6
<1>5. QED
  BY <1>3, <1>4 DEF ContentionPredicted

-----------------------------------------------------------------------------
(* Recursion and depth. *)

\* A function over an initial segment of the numbers is a sequence.
LEMMA FunctionSeq ==
  ASSUME NEW S, NEW k \in Nat, NEW q \in [1..k -> S]
  PROVE  q \in Seq(S) /\ Len(q) = k
<1>1. q \in Seq(S)
  BY SeqDef
<1>2. DOMAIN q = 1..Len(q) /\ Len(q) \in Nat /\ DOMAIN q = 1..k
  BY <1>1, LenProperties
<1>3. QED
  BY <1>1, <1>2

\* The handlers of a thread's calls from j to k, in order.
LEMMA Segment ==
  ASSUME DeploymentInv, NoQueued, NEW th \in Origin,
         NEW j \in 1..Len(stack[th]), NEW k \in 1..Len(stack[th]), j <= k
  PROVE  \E c \in Seq(Handler) :
           /\ Len(c) = k - j + 1 /\ DOMAIN c = 1..(k - j + 1) /\ k - j + 1 \in 1..MaxStack
           /\ \A n \in 1..(k - j + 1) : /\ c[n] = stack[th][j + n - 1].handler
                                        /\ j + n - 1 \in j..k /\ j + n - 1 \in 1..Len(stack[th])
           /\ \A n \in j..k : n - j + 1 \in 1..(k - j + 1) /\ c[n - j + 1] = stack[th][n].handler
<1>1. PICK s, m : s = stack[th] /\ m = Len(s)
  OBVIOUS
<1>2. m \in Nat /\ m <= MaxStack /\ MaxStack \in Nat /\ \A n \in 1..m : s[n].handler \in Handler
  BY <1>1, CallFacts, ChecksAtRuntimeAssumption, FprimeRuntimeAssumption
<1>3. j \in Nat /\ k \in Nat /\ 1 <= j /\ k <= m
  BY <1>1, <1>2
<1>4. PICK o : o = k - j + 1
  OBVIOUS
<1>5. /\ o \in Nat /\ o \in 1..MaxStack
      /\ \A n \in 1..o : j + n - 1 \in j..k /\ j + n - 1 \in 1..m
      /\ \A n \in j..k : n - j + 1 \in 1..o /\ j + (n - j + 1) - 1 = n
  BY <1>2, <1>3, <1>4
<1>6. PICK c : c = [n \in 1..o |-> s[j + n - 1].handler]
  OBVIOUS
<1>7. c \in [1..o -> Handler] /\ \A n \in 1..o : c[n] = s[j + n - 1].handler
  BY <1>2, <1>5, <1>6
<1>8. c \in Seq(Handler) /\ Len(c) = o /\ DOMAIN c = 1..o
  BY <1>5, <1>7, FunctionSeq
<1>9. \A n \in j..k : n - j + 1 \in 1..o /\ c[n - j + 1] = s[n].handler
  BY <1>5, <1>7
<1>10. /\ Len(c) = k - j + 1 /\ DOMAIN c = 1..(k - j + 1) /\ k - j + 1 \in 1..MaxStack
       /\ \A n \in 1..(k - j + 1) : /\ c[n] = stack[th][j + n - 1].handler
                                    /\ j + n - 1 \in j..k /\ j + n - 1 \in 1..Len(stack[th])
       /\ \A n \in j..k : n - j + 1 \in 1..(k - j + 1) /\ c[n - j + 1] = stack[th][n].handler
  BY <1>1, <1>4, <1>5, <1>7, <1>8, <1>9
<1>11. QED
  BY <1>8, <1>10

\* A call that is not the first follows from the one below it.
LEMMA CallBelow ==
  ASSUME DeploymentInv, NoQueued, NEW th \in Origin,
         NEW n \in 1..(Len(stack[th]) - 1)
  PROVE  /\ stack[th][n + 1].handler \in NextHandlers(topo, stack[th][n].handler)
         /\ PurelySync(stack[th][n + 1].port) =>
              stack[th][n + 1].handler \in SyncSuccessors(stack[th][n].handler)
<1>1. PICK b, d : b = stack[th][n] /\ d = stack[th][n + 1]
  OBVIOUS
<1>2. PICK hop \in ThreadHops(topo, b.handler) :
        /\ hop.port = d.port /\ hop.kind \in InputSyncKinds(topo, hop.port)
        /\ d.handler \in FlowEntries(topo, hop.port, hop.kind)
  BY <1>1, CallFacts
<1>3. d.handler \in NextHandlers(topo, b.handler)
  BY <1>2 DEF NextHandlers
<1>4. hop.port \in Destinations(topo, b.handler)
  BY DEF ThreadHops, OutwardHops
<1>5. PurelySync(d.port) => d.handler \in SyncSuccessors(b.handler)
  BY <1>2, <1>4 DEF PurelySync, SyncSuccessors
<1>6. QED
  BY <1>1, <1>3, <1>5

\* A thread that recurses through sync ports does so around a cycle that was
\* reported, or around one through the same modules.
LEMMA RecursionFound ==
  ASSUME DeploymentInv
  PROVE  RecursionPredicted
<1> SUFFICES ASSUME Trusted, NEW th \in Threads, NEW j \in 1..Depth(th), NEW k \in 1..Depth(th),
                    Recurses(th, j, k)
             PROVE  \E c \in findings["sync-cycle"] : ModulesOf(c) = ModulesOf(Around(th, j, k))
  BY DEF RecursionPredicted
<1>1. /\ topo \in Topology /\ findings["sync-cycle"] \in SyncCycle
      /\ NoQueued
  BY TrustedFacts
<1>2. th \in Origin /\ j \in 1..Len(stack[th]) /\ k \in 1..Len(stack[th])
  BY ThreadsAreOrigins DEF Depth
<1>3. PICK s, o : s = stack[th] /\ o = k - j + 1
  OBVIOUS
<1>4. /\ j < k /\ s[j].handler = s[k].handler
      /\ \A n \in (j + 1)..k : PurelySync(s[n].port)
      /\ \A n, x \in j..(k - 1) : n # x => s[n].handler # s[x].handler
  BY <1>3 DEF Recurses
<1>5. Len(s) \in Nat /\ j \in Nat /\ k \in Nat /\ j <= k /\ k <= Len(s) /\ 1 <= j
  BY <1>1, <1>2, <1>3, <1>4, CallFacts
<1>6. PICK c \in Seq(Handler) :
        /\ Len(c) = o /\ DOMAIN c = 1..o /\ o \in 1..MaxStack
        /\ \A n \in 1..o : c[n] = s[j + n - 1].handler /\ j + n - 1 \in j..k /\ j + n - 1 \in 1..Len(s)
        /\ \A n \in j..k : n - j + 1 \in 1..o /\ c[n - j + 1] = s[n].handler
  BY <1>1, <1>2, <1>3, <1>5, Segment
<1>7. PICK S, callees : /\ S = {e.handler : e \in {x \in Entries : x.kind = "sync"}}
                        /\ callees = [h \in Handler |-> SyncSuccessors(h)]
  OBVIOUS
<1>8. S \in SUBSET Handler /\ callees \in [Handler -> SUBSET Handler]
  <2>1. S \in SUBSET Handler
    BY <1>7 DEF Entries, Entry
  <2>2. ASSUME NEW h \in Handler PROVE SyncSuccessors(h) \subseteq Handler
    <3>1. Destinations(topo, h) \subseteq InPort
      BY <1>1 DEF Destinations, OutputsFor, OutputPorts, Topology
    <3>2. QED
      BY <1>1, <3>1, FlowEntriesType DEF SyncSuccessors, SyncKind
  <2>3. QED
    BY <1>7, <2>1, <2>2
<1>9. 1 \in 1..o /\ o \in 1..o /\ o # 1 /\ j + 1 - 1 = j /\ j + o - 1 = k
  BY <1>3, <1>4, <1>5
<1>10. c[1] = s[j].handler /\ c[o] = s[k].handler
  BY <1>6, <1>9
<1>11. c[1] \in S
  <2>1. PICK e : EnteredAs(th, s[k], e)
    BY <1>1, <1>2, <1>3, CallFacts
  <2>2. PurelySync(s[k].port)
    BY <1>4, <1>5
  <2>3. e \in Entries /\ e.kind = "sync" /\ e.handler = s[k].handler
    BY <2>1, <2>2 DEF EnteredAs, Entries, PurelySync
  <2>4. QED
    BY <1>4, <1>7, <1>10, <2>3
<1>12. ASSUME NEW n \in 1..(o - 1) PROVE c[n + 1] \in callees[c[n]]
  <2>1. PICK x : x = j + n - 1
    OBVIOUS
  <2>2. /\ n \in 1..o /\ n + 1 \in 1..o /\ x \in 1..(Len(s) - 1)
        /\ x + 1 \in (j + 1)..k /\ j + (n + 1) - 1 = x + 1
    BY <1>3, <1>5, <1>6, <2>1
  <2>3. c[n] = s[x].handler /\ c[n + 1] = s[x + 1].handler /\ c[n] \in Handler
    <3>1. c[n] = s[j + n - 1].handler /\ c[n + 1] = s[j + (n + 1) - 1].handler
      BY <1>6, <2>2
    <3>2. c[n] \in Handler
      BY <1>6, <2>2
    <3>3. QED
      BY <2>1, <2>2, <3>1, <3>2
  <2>4. PurelySync(s[x + 1].port)
    BY <1>4, <2>2
  <2>5. s[x + 1].handler \in SyncSuccessors(s[x].handler)
    BY <1>1, <1>2, <1>3, <2>2, <2>4, CallBelow
  <2>6. QED
    BY <1>7, <2>3, <2>5
<1>13. ASSUME NEW a \in 1..(o - 1), NEW b \in 1..(o - 1), a # b PROVE c[a] # c[b]
  <2>1. PICK x, y : x = j + a - 1 /\ y = j + b - 1
    OBVIOUS
  <2>2. a \in 1..o /\ b \in 1..o /\ x \in j..(k - 1) /\ y \in j..(k - 1) /\ x # y
    <3>1. o = k - j + 1 /\ j \in Nat /\ k \in Nat /\ j < k
      BY <1>3, <1>4, <1>5
    <3>2. QED
      BY <1>13, <2>1, <3>1
  <2>3. c[a] = s[x].handler /\ c[b] = s[y].handler
    BY <1>6, <2>1, <2>2
  <2>4. s[x].handler # s[y].handler
    BY <1>4, <2>2
  <2>5. QED
    BY <2>3, <2>4
<1>14. c \in ChainsOf(Handler, S, callees, o)
  BY <1>6, <1>11, <1>12, <1>13 DEF ChainsOf
<1>15. ~Simple(c)
  <2>1. 1 \in DOMAIN c /\ o \in DOMAIN c /\ 1 # o
    BY ONLY <1>6, <1>9
  <2>2. c[1] = c[o]
    BY ONLY <1>4, <1>10
  <2>3. QED
    BY ONLY <2>1, <2>2 DEF Simple
<1>16. PICK P : P = {topo.owner[c[n]] : n \in DOMAIN c}
  OBVIOUS
<1>17. P \in SyncPaths
  <2>1. MaxChain \in Nat \ {0} /\ o \in 1..(MaxChain + 1)
    BY <1>6, TopologyChecksAssumption, ChecksAtRuntimeAssumption, FprimeRuntimeAssumption
  <2>2. PICK chains : chains = Chains(S, callees)
    OBVIOUS
  <2>3. o \in DOMAIN chains /\ chains[o] = ChainsOf(Handler, S, callees, o)
    BY <1>8, <2>1, <2>2, ChainsAreChains
  <2>4. c \in {x \in UNION {chains[n] : n \in DOMAIN chains} : ~Simple(x)}
    BY <1>14, <1>15, <2>3
  <2>5. PICK T : T = {x \in UNION {chains[n] : n \in DOMAIN chains} : ~Simple(x)}
    OBVIOUS
  <2>6. SyncPaths = {{topo.owner[x[n]] : n \in DOMAIN x} : x \in T}
    BY <1>7, <2>2, <2>5 DEF SyncPaths
  <2>7. c \in T
    BY <2>4, <2>5
  <2>8. QED
    BY <1>16, <2>6, <2>7
<1>18. P = Around(th, j, k)
  <2>1. \A n \in j..k : topo.owner[s[n].handler] = topo.owner[s[n].port]
    <3>1. \A n \in j..k : n \in 1..Len(s)
      BY <1>5
    <3>2. QED
      BY <1>1, <1>2, <1>3, <3>1, CallFacts
  <2>2. ASSUME NEW n \in 1..o PROVE topo.owner[c[n]] \in Around(th, j, k)
    <3>1. PICK x \in j..k : c[n] = s[x].handler
      BY <1>6
    <3>2. QED
      BY <1>3, <2>1, <3>1 DEF Around
  <2>3. ASSUME NEW x \in j..k PROVE topo.owner[s[x].port] \in P
    <3>1. PICK n \in 1..o : c[n] = s[x].handler
      BY <1>6
    <3>2. QED
      BY <1>6, <1>16, <2>1, <3>1
  <2>4. Around(th, j, k) = {topo.owner[s[n].port] : n \in j..k}
    BY <1>3 DEF Around
  <2>5. P \subseteq {topo.owner[s[n].port] : n \in j..k}
    <3>1. ASSUME NEW x \in P PROVE x \in Around(th, j, k)
      <4>1. PICK n \in 1..o : x = topo.owner[c[n]]
        BY <1>6, <1>16
      <4>2. QED
        BY <2>2, <4>1
    <3>2. QED
      BY ONLY <2>4, <3>1
  <2>6. {topo.owner[s[n].port] : n \in j..k} \subseteq P
    BY ONLY <2>3
  <2>7. QED
    BY ONLY <2>4, <2>5, <2>6
<1>19. QED
  BY <1>1, <1>17, <1>18 DEF SyncCycle

\* A thread that does not recurse is no deeper in calls than was reported.
LEMMA DepthFound ==
  ASSUME DeploymentInv
  PROVE  DepthPredicted
<1> SUFFICES ASSUME Trusted, NEW i \in Instance, <<"thread", i>> \in ActiveThreads,
                    Len(stack[<<"thread", i>>]) >= MinDepth,
                    \A j, k \in 1..Len(stack[<<"thread", i>>]) :
                      j # k => stack[<<"thread", i>>][j].handler # stack[<<"thread", i>>][k].handler
             PROVE  \E d \in findings["stack-depth"] : d[1] = i /\ d[2] >= Len(stack[<<"thread", i>>])
  BY DEF DepthPredicted, Depth
<1>1. PICK th, s, m : th = <<"thread", i>> /\ s = stack[th] /\ m = Len(s)
  OBVIOUS
<1>2. /\ topo \in Topology /\ findings["stack-depth"] = StackDepth
      /\ NoQueued
  BY TrustedFacts
<1>3. th \in Origin /\ th[1] = "thread" /\ IsOwnThread(topo, i)
  BY <1>1 DEF Origin, ActiveThreads, IsOwnThread
<1>4. /\ m \in Nat /\ m <= MaxStack /\ MaxStack \in Nat /\ MinDepth \in Nat
      /\ MaxChain \in Nat \ {0} /\ MaxStack <= MaxChain
  BY <1>1, <1>2, <1>3, CallFacts, TopologyChecksAssumption, ChecksAtRuntimeAssumption, FprimeRuntimeAssumption
<1>5. PICK S, callees : S = ThreadEntries(i) /\ callees = [h \in Handler |-> ThreadSuccessors(h)]
  OBVIOUS
<1>6. S \in SUBSET Handler /\ callees \in [Handler -> SUBSET Handler]
  BY <1>2, <1>5, HopsType DEF ThreadEntries, Entries, Entry, ThreadSuccessors
<1>7. PICK chains : chains = Chains(S, callees)
  OBVIOUS
<1>8. /\ DOMAIN chains = 1..(MaxChain + 1)
      /\ \A n \in 1..(MaxChain + 1) : chains[n] = ChainsOf(Handler, S, callees, n)
  <2>1. MaxChain \in Nat \ {0}
    BY <1>4
  <2>2. QED
    BY ONLY <1>6, <1>7, <2>1, ChainsAreChains
<1>9. PICK D : D = {0} \cup {n \in DOMAIN chains : chains[n] # {}}
  OBVIOUS
<1>10. D \in SUBSET Nat /\ IsFiniteSet(D) /\ D # {}
  <2>1. 0 \in Int /\ MaxChain + 1 \in Int /\ 0..(MaxChain + 1) \subseteq Nat /\ D \subseteq 0..(MaxChain + 1)
    BY <1>4, <1>8, <1>9
  <2>2. IsFiniteSet(0..(MaxChain + 1))
    BY <2>1, FS_Interval
  <2>3. QED
    BY <1>9, <2>1, <2>2, FS_Subset
<1>11. m \in D
  <2>1. CASE m = 0
    BY <1>9, <2>1
  <2>2. CASE m # 0
    <3>1. 1 \in 1..m /\ m \in 1..m /\ 1 <= m /\ m - 1 + 1 = m /\ m \in 1..(MaxChain + 1)
      BY <1>4, <2>2
    <3>2. PICK c \in Seq(Handler) :
            /\ Len(c) = m /\ DOMAIN c = 1..m
            /\ \A n \in 1..m : c[n] = s[n].handler
      <4>1. 1 \in 1..Len(stack[th]) /\ m \in 1..Len(stack[th])
        BY <1>1, <3>1
      <4>2. PICK j : j = 1
        OBVIOUS
      <4>3. j \in 1..Len(stack[th]) /\ j <= m
        BY <3>1, <4>1, <4>2
      <4>4. PICK c \in Seq(Handler) :
              /\ Len(c) = m - j + 1 /\ DOMAIN c = 1..(m - j + 1)
              /\ \A n \in 1..(m - j + 1) : c[n] = stack[th][j + n - 1].handler
        BY <1>2, <1>3, <4>1, <4>3, Segment
      <4>5. m - j + 1 = m /\ \A n \in 1..m : j + n - 1 = n
        BY <4>1, <4>2
      <4>6. Len(c) = m /\ DOMAIN c = 1..m /\ \A n \in 1..m : c[n] = stack[th][n].handler
        BY ONLY <4>4, <4>5
      <4>7. QED
        BY <1>1, <4>6
    <3>3. \A n \in 1..m : c[n] = s[n].handler
      BY <3>2
    <3>4. c[1] \in S
      <4>1. /\ th = <<"thread", topo.owner[s[1].port]>>
            /\ [port |-> s[1].port, kind |-> "async", handler |-> s[1].handler] \in Entries
        BY <1>1, <1>2, <1>3, <1>4, <2>2, CallFacts
      <4>2. topo.owner[s[1].port] = i
        BY <1>1, <4>1
      <4>3. PICK e : e = [port |-> s[1].port, kind |-> "async", handler |-> s[1].handler]
        OBVIOUS
      <4>4. e \in Entries /\ Owner(e) = i /\ e.kind = "async" /\ e.handler = c[1]
        BY <3>1, <3>3, <4>1, <4>2, <4>3 DEF Owner
      <4>5. QED
        BY <1>5, <4>4 DEF ThreadEntries
    <3>5. ASSUME NEW n \in 1..(m - 1) PROVE c[n + 1] \in callees[c[n]]
      <4>1. n \in 1..m /\ n + 1 \in 1..m /\ n \in 1..(Len(stack[th]) - 1)
        BY <1>1, <1>4
      <4>2. s[n + 1].handler \in NextHandlers(topo, s[n].handler)
        BY <1>1, <1>2, <1>3, <4>1, CallBelow
      <4>3. c[n] \in Handler
        BY <3>2, <4>1
      <4>4. QED
        BY <1>5, <3>3, <4>1, <4>2, <4>3 DEF ThreadSuccessors
    <3>6. ASSUME NEW a \in 1..(m - 1), NEW b \in 1..(m - 1), a # b PROVE c[a] # c[b]
      <4>1. a \in 1..m /\ b \in 1..m
        BY <1>4
      <4>2. c[a] = s[a].handler /\ c[b] = s[b].handler
        BY ONLY <3>3, <4>1
      <4>3. s[a].handler # s[b].handler
        BY <1>1, <3>6, <4>1
      <4>4. QED
        BY ONLY <4>2, <4>3
    <3>7. c \in ChainsOf(Handler, S, callees, m)
      BY <3>2, <3>4, <3>5, <3>6 DEF ChainsOf
    <3>8. QED
      BY <1>8, <1>9, <3>1, <3>7
  <2>3. QED
    BY <2>1, <2>2
<1>12. Max(D) \in Nat /\ m <= Max(D)
  BY <1>10, <1>11, Extremes
<1>13. Max(D) >= MinDepth /\ Max(D) >= m
  BY <1>1, <1>4, <1>12
<1>14. <<i, Max(D)>> \in StackDepth
  <2>1. PICK deepest : deepest = [x \in Instance |->
           Max({0} \cup {n \in DOMAIN Chains(ThreadEntries(x), callees) : Chains(ThreadEntries(x), callees)[n] # {}})]
    OBVIOUS
  <2>2. StackDepth = {<<x, deepest[x]>> : x \in {y \in Instance : IsOwnThread(topo, y) /\ deepest[y] >= MinDepth}}
    BY <1>5, <2>1 DEF StackDepth
  <2>3. deepest[i] = Max(D)
    BY <1>5, <1>7, <1>9, <2>1
  <2>4. QED
    BY <1>3, <1>13, <2>2, <2>3
<1>15. QED
  BY <1>1, <1>2, <1>13, <1>14

-----------------------------------------------------------------------------
(* Messages over chains. *)

\* The messages to an instance over a set of chains, each with its chain.
Messages(C, i) == UNION {{c} \X Queued(c, i) : c \in C}

\* Finitely many chains queue finitely many messages.
LEMMA FiniteMessages ==
  ASSUME NEW C, IsFiniteSet(C), NEW i, \A c \in C : IsFiniteSet(Queued(c, i))
  PROVE  IsFiniteSet(Messages(C, i))
<1>1. PICK f, M : f = [c \in C |-> {c} \X Queued(c, i)] /\ M = {f[c] : c \in C}
  OBVIOUS
<1>2. IsFiniteSet(M)
  <2>1. IsFiniteSet({f[c] : c \in C})
    BY ONLY IsFiniteSet(C), FiniteImage
  <2>2. QED
    BY <1>1, <2>1
<1>3. ASSUME NEW T \in M PROVE IsFiniteSet(T)
  <2>1. PICK c \in C : T = {c} \X Queued(c, i)
    BY <1>1
  <2>2. IsFiniteSet({c}) /\ IsFiniteSet(Queued(c, i))
    BY FS_Singleton
  <2>3. QED
    BY <2>1, <2>2, FS_Product
<1>4. Messages(C, i) = UNION M
  BY <1>1 DEF Messages
<1>5. QED
  BY <1>2, <1>3, <1>4, FS_UNION

\* QueuedCount is their number.
LEMMA CountOfMessages ==
  ASSUME NEW C, IsFiniteSet(C), NEW i, \A c \in C : IsFiniteSet(Queued(c, i))
  PROVE  QueuedCount(C, i) = Cardinality(Messages(C, i))
<1> DEFINE w(c) == Cardinality(Queued(c, i))
           G(f) == [s \in SUBSET C |->
                      IF s = {} THEN 0 ELSE LET x == CHOOSE y \in s : TRUE IN w(x) + f[s \ {x}]]
           P == [s \in SUBSET C |-> Cardinality(Messages(s, i))]
<1>1. PICK F : F = CHOOSE f : f = G(f)
  OBVIOUS
<1>2. QueuedCount(C, i) = F[C]
  BY <1>1 DEF QueuedCount, MapThenSumSet, MapThenFoldSet
<1>3. ASSUME NEW s \in SUBSET C PROVE IsFiniteSet(Messages(s, i)) /\ Cardinality(Messages(s, i)) \in Nat
  <2>1. IsFiniteSet(s) /\ \A c \in s : IsFiniteSet(Queued(c, i))
    BY FS_Subset
  <2>2. IsFiniteSet(Messages(s, i))
    BY <2>1, FiniteMessages
  <2>3. QED
    BY <2>2, FS_CardinalityType
<1>4. ASSUME NEW s \in SUBSET C, NEW x \in s
      PROVE  Cardinality(Messages(s, i)) = w(x) + Cardinality(Messages(s \ {x}, i))
  <2>1. PICK A, B : A = {x} \X Queued(x, i) /\ B = Messages(s \ {x}, i)
    OBVIOUS
  <2>2. IsFiniteSet({x}) /\ Cardinality({x}) = 1 /\ IsFiniteSet(Queued(x, i))
    BY FS_Singleton
  <2>3. IsFiniteSet(A) /\ Cardinality(A) = 1 * w(x) /\ w(x) \in Nat
    BY <2>1, <2>2, FS_Product, FS_CardinalityType
  <2>4. s \ {x} \in SUBSET C
    OBVIOUS
  <2>5. IsFiniteSet(B) /\ Cardinality(B) \in Nat
    BY <1>3, <2>1, <2>4
  <2>6. Messages(s, i) = A \cup B
    BY <2>1 DEF Messages
  <2>7. A \cap B = {}
    BY <2>1 DEF Messages
  <2>8. Cardinality(A \cap B) = 0
    BY <2>7, FS_EmptySet
  <2>9. Cardinality(A \cup B) = Cardinality(A) + Cardinality(B) - Cardinality(A \cap B)
    BY <2>3, <2>5, FS_Union
  <2>10. Cardinality(A \cup B) = Cardinality(A) + Cardinality(B) - 0
    BY <2>8, <2>9
  <2> HIDE DEF w
  <2>11. Cardinality(A \cup B) = w(x) + Cardinality(B)
    BY <2>3, <2>5, <2>10
  <2>12. QED
    BY <2>1, <2>6, <2>11
<1>5. P = G(P)
  <2>1. ASSUME NEW s \in SUBSET C
        PROVE  P[s] = IF s = {} THEN 0 ELSE LET x == CHOOSE y \in s : TRUE IN w(x) + P[s \ {x}]
    <3>1. CASE s = {}
      <4>1. Messages(s, i) = {}
        BY <3>1 DEF Messages
      <4>2. QED
        BY <3>1, <4>1, FS_EmptySet
    <3>2. CASE s # {}
      <4>1. PICK x \in s : x = CHOOSE y \in s : TRUE
        BY <3>2
      <4>2. s \ {x} \in SUBSET C
        OBVIOUS
      <4>3. P[s] = w(x) + P[s \ {x}]
        BY <1>4, <4>2
      <4>4. QED
        BY <3>2, <4>1, <4>3
    <3>3. QED
      BY <3>1, <3>2
  <2>2. QED
    BY <2>1
<1>6. F = G(F)
  <2> HIDE DEF w, P
  <2>1. \E f : f = G(f)
    BY ONLY <1>5
  <2>2. QED
    BY ONLY <1>1, <2>1
<1>7. ASSUME NEW s0 \in SUBSET C, F[s0] # P[s0] PROVE FALSE
  <2> DEFINE Bad == {s \in SUBSET C : F[s] # P[s]}
  <2>1. Bad \subseteq FiniteSubsetsOf(C) /\ Bad # {}
    BY <1>7, FS_Subset DEF FiniteSubsetsOf
  <2>2. PICK s \in Bad : \A t \in Bad : <<t, s>> \notin StrictSubsetOrdering(C)
    <3> HIDE DEF Bad
    <3>1. QED
      BY ONLY <2>1, FS_StrictSubsetOrderingWellFounded, WFMin
  <2>3. s \in SUBSET C /\ F[s] # P[s]
    OBVIOUS
  <2>4. F[s] = IF s = {} THEN 0 ELSE LET x == CHOOSE y \in s : TRUE IN w(x) + F[s \ {x}]
    BY <1>6, <2>3
  <2>5. P[s] = IF s = {} THEN 0 ELSE LET x == CHOOSE y \in s : TRUE IN w(x) + P[s \ {x}]
    BY <1>5, <2>3
  <2>6. ASSUME NEW x \in s PROVE F[s \ {x}] = P[s \ {x}]
    <3>1. <<s \ {x}, s>> \in StrictSubsetOrdering(C)
      BY <2>3 DEF StrictSubsetOrdering
    <3>2. s \ {x} \in SUBSET C
      BY <2>3
    <3>3. QED
      BY <2>2, <3>1, <3>2
  <2>7. CASE s = {}
    BY <2>3, <2>4, <2>5, <2>7
  <2>8. CASE s # {}
    <3>1. PICK x \in s : x = CHOOSE y \in s : TRUE
      BY <2>8
    <3>2. F[s] = w(x) + F[s \ {x}] /\ P[s] = w(x) + P[s \ {x}]
      BY <2>4, <2>5, <2>8, <3>1
    <3>3. QED
      BY <2>3, <2>6, <3>2
  <2>9. QED
    BY <2>7, <2>8
<1>8. QED
  BY <1>2, <1>7

-----------------------------------------------------------------------------
(* Chains of calls with their connections. *)

Link == [via : OutPort \cup {None}, handler : Handler]

\* The chains of n links from a handler: each leads to the next, and no handler
\* occurs twice.
Linked(h, n) ==
  {c \in Seq(Link) : /\ Len(c) = n /\ c[1] = [via |-> None, handler |-> h]
                     /\ \A k \in 1..(n - 1) : c[k + 1] \in Links(c[k].handler)
                     /\ \A j, k \in 1..n : j # k => c[j].handler # c[k].handler}

Once(c) == Cardinality({c[k].handler : k \in DOMAIN c}) = Len(c)

\* The chains with one more link.
Extended(C, n) ==
  {x \in UNION {{Append(c, l) : l \in Links(c[n - 1].handler)} : c \in C} : Once(x)}

\* What a handler calls is connected, and there is finitely much of it.
LEMMA LinksType ==
  ASSUME topo \in Topology
  PROVE  /\ IsFiniteSet(OutPort \X InPort) /\ \A h : Wires(h) \subseteq OutPort \X InPort
         /\ IsFiniteSet(Link) /\ \A h : Links(h) \subseteq Link
<1>1. topo.wires \in [OutPort -> SUBSET InPort]
  BY DEF Topology
<1>2. ASSUME NEW h PROVE Wires(h) \subseteq OutPort \X InPort
  <2>1. OutputsFor(topo, h) \subseteq OutPort
    BY DEF OutputsFor, OutputPorts
  <2>2. ASSUME NEW w \in Wires(h) PROVE w \in OutPort \X InPort
    <3>1. PICK o \in OutputsFor(topo, h) : w \in {o} \X topo.wires[o]
      BY DEF Wires
    <3>2. o \in OutPort /\ topo.wires[o] \subseteq InPort
      BY <1>1, <2>1
    <3>3. QED
      BY <3>1, <3>2
  <2>3. QED
    BY <2>2
<1>3. ASSUME NEW h PROVE Links(h) \subseteq Link
  <2>1. ASSUME NEW l \in Links(h) PROVE l \in Link
    <3>1. PICK w \in Wires(h) :
            l \in [via : {w[1]}, handler : UNION {FlowEntries(topo, w[2], k) : k \in InputSyncKinds(topo, w[2]) \ {"async"}}]
      BY <2>1 DEF Links
    <3>2. w \in OutPort \X InPort
      BY <1>2
    <3>3. w[1] \in OutPort /\ w[2] \in InPort
      BY <3>2
    <3>4. \A k \in InputSyncKinds(topo, w[2]) : k \in SyncKind
      BY <3>3, InputSyncKindsType
    <3>5. \A k \in SyncKind : FlowEntries(topo, w[2], k) \subseteq Handler
      BY <3>3, FlowEntriesType
    <3>6. UNION {FlowEntries(topo, w[2], k) : k \in InputSyncKinds(topo, w[2]) \ {"async"}} \subseteq Handler
      BY <3>4, <3>5
    <3>7. QED
      BY <3>1, <3>3, <3>6 DEF Link
  <2>2. QED
    BY <2>1
<1>4. IsFiniteSet(OutPort) /\ IsFiniteSet(InPort) /\ IsFiniteSet(Command)
  BY TopologyChecksAssumption, NamesAssumption
<1>5. IsFiniteSet(OutPort \X InPort)
  BY <1>4, FS_Product
<1>6. IsFiniteSet(Link)
  <2>1. IsFiniteSet(OutPort \cup {None}) /\ IsFiniteSet(Handler)
    BY <1>4, FS_AddElement, FS_Union DEF Handler
  <2>2. PICK S : S = (OutPort \cup {None}) \X Handler
    OBVIOUS
  <2>3. IsFiniteSet(S)
    BY <2>1, <2>2, FS_Product
  <2>4. PICK f : f = [x \in S |-> [via |-> x[1], handler |-> x[2]]]
    OBVIOUS
  <2>5. IsFiniteSet({f[x] : x \in S})
    BY ONLY <2>3, FiniteImage
  <2>6. ASSUME NEW l \in Link PROVE l \in {f[x] : x \in S}
    <3>1. l.via \in OutPort \cup {None} /\ l.handler \in Handler /\ l = [via |-> l.via, handler |-> l.handler]
      BY DEF Link
    <3>2. PICK x : x = <<l.via, l.handler>>
      OBVIOUS
    <3>3. x \in S /\ x[1] = l.via /\ x[2] = l.handler
      BY <2>2, <3>1, <3>2
    <3>4. f[x] = l
      BY <2>4, <3>1, <3>3
    <3>5. QED
      BY <3>3, <3>4
  <2>7. Link \subseteq {f[x] : x \in S}
    BY <2>6
  <2>8. QED
    BY <2>5, <2>7, FS_Subset
<1>7. QED
  BY <1>2, <1>3, <1>5, <1>6

\* Counting the handlers of a chain tells whether one occurs twice.
LEMMA OnceEach ==
  ASSUME NEW c \in Seq(Link)
  PROVE  Once(c) <=> \A j, k \in 1..Len(c) : j # k => c[j].handler # c[k].handler
<1>1. PICK n : n = Len(c)
  OBVIOUS
<1>2. n \in Nat /\ DOMAIN c = 1..n
  BY <1>1
<1>3. IsFiniteSet(1..n) /\ Cardinality(1..n) = n
  <2>1. 1 \in Int /\ n \in Int /\ (1 > n => n = 0) /\ n - 1 + 1 = n
    BY <1>2
  <2>2. QED
    BY <2>1, FS_Interval
<1>4. PICK T, f : T = {c[k].handler : k \in 1..n} /\ f = [k \in 1..n |-> c[k].handler]
  OBVIOUS
<1>5. f \in Surjection(1..n, T) /\ \A k \in 1..n : f[k] = c[k].handler
  BY <1>4 DEF Surjection
<1>6. Cardinality(T) = n <=> f \in Injection(1..n, T)
  BY <1>3, <1>5, FS_Surjection
<1>7. f \in [1..n -> T]
  BY <1>4
<1>8. f \in Injection(1..n, T) <=> \A j, k \in 1..n : j # k => f[j] # f[k]
  BY <1>7 DEF Injection, IsInjective
<1>9. Once(c) <=> Cardinality(T) = n
  BY <1>1, <1>2, <1>4 DEF Once
<1>10. QED
  BY <1>1, <1>5, <1>6, <1>8, <1>9

\* A chain grows by one link to a handler that it does not hold yet.
LEMMA LinkedGrows ==
  ASSUME topo \in Topology, NEW h \in Handler, NEW n \in Nat, n > 1
  PROVE  Linked(h, n) = Extended(Linked(h, n - 1), n)
<1>1. PICK m \in Nat : m = n - 1 /\ n = m + 1 /\ m > 0
  <2>1. n - 1 \in Nat /\ n = (n - 1) + 1 /\ n - 1 > 0
    OBVIOUS
  <2>2. QED
    BY <2>1
<1>2. PICK D : D = Linked(h, m)
  OBVIOUS
<1>3. \A r : r \in Extended(D, n) <=> Once(r) /\ \E c \in D : \E l \in Links(c[m].handler) : r = Append(c, l)
  BY <1>1 DEF Extended
<1>4. ASSUME NEW c \in D, NEW l \in Links(c[m].handler), Once(Append(c, l))
      PROVE  Append(c, l) \in Linked(h, n)
  <2>1. /\ c \in Seq(Link) /\ Len(c) = m /\ c[1] = [via |-> None, handler |-> h] /\ l \in Link
        /\ \A k \in 1..(m - 1) : c[k + 1] \in Links(c[k].handler)
    BY <1>2, <1>4, LinksType DEF Linked
  <2>2. PICK r : r = Append(c, l)
    OBVIOUS
  <2>3. r \in Seq(Link) /\ Len(r) = n /\ r[n] = l /\ \A k \in 1..m : r[k] = c[k]
    BY <1>1, <2>1, <2>2
  <2>4. ASSUME NEW k \in 1..m PROVE r[k + 1] \in Links(r[k].handler)
    <3>1. CASE k = m
      BY <1>1, <1>4, <2>3, <3>1
    <3>2. CASE k # m
      <4>1. k \in 1..(m - 1) /\ k + 1 \in 1..m
        BY <3>2
      <4>2. QED
        BY <2>1, <2>3, <4>1
    <3>3. QED
      BY <3>1, <3>2
  <2>5. \A j, k \in 1..n : j # k => r[j].handler # r[k].handler
    BY <1>4, <2>2, <2>3, OnceEach
  <2>6. 1 \in 1..m
    BY <1>1
  <2>7. r[1] = [via |-> None, handler |-> h] /\ \A k \in 1..(n - 1) : r[k + 1] \in Links(r[k].handler)
    BY <1>1, <2>1, <2>3, <2>4, <2>6
  <2>8. r \in Linked(h, n)
    BY <2>3, <2>5, <2>7 DEF Linked
  <2>9. QED
    BY <2>2, <2>8
<1>5. ASSUME NEW r \in Linked(h, n)
      PROVE  Once(r) /\ \E c \in D : \E l \in Links(c[m].handler) : r = Append(c, l)
  <2>1. /\ r \in Seq(Link) /\ Len(r) = n /\ r[1] = [via |-> None, handler |-> h]
        /\ \A k \in 1..m : r[k + 1] \in Links(r[k].handler)
        /\ \A j, k \in 1..n : j # k => r[j].handler # r[k].handler
    BY <1>1, <1>5 DEF Linked
  <2>2. Once(r)
    BY <2>1, OnceEach
  <2>3. PICK c : c = SubSeq(r, 1, Len(r) - 1)
    OBVIOUS
  <2>4. c \in Seq(Link) /\ Len(c) = m /\ \A k \in 1..m : c[k] = r[k]
    <3>1. r # <<>>
      BY <1>1, <2>1
    <3>2. /\ c \in Seq(Link) /\ Len(c) = Len(r) - 1
          /\ \A k \in 1..Len(c) : c[k] = r[k]
      BY <2>1, <2>3, <3>1, FrontFacts
    <3>3. QED
      BY <1>1, <2>1, <3>2
  <2>5. /\ 1 \in 1..m /\ m \in 1..m /\ m + 1 = n
        /\ \A k \in 1..(m - 1) : k \in 1..m /\ k + 1 \in 1..m
        /\ \A k \in 1..m : k \in 1..n
    BY <1>1
  <2>6. c \in D
    BY <1>2, <2>1, <2>4, <2>5 DEF Linked
  <2>7. r[n] \in Links(c[m].handler) /\ r[n] \in Link
    BY <2>1, <2>4, <2>5, LinksType
  <2>8. r = Append(c, r[n])
    <3>1. PICK a : a = Append(c, r[n])
      OBVIOUS
    <3>2. /\ a \in Seq(Link) /\ Len(a) = n /\ a[n] = r[n]
          /\ \A k \in 1..m : a[k] = c[k]
      BY <1>1, <2>4, <2>7, <3>1
    <3>3. ASSUME NEW k \in 1..n PROVE r[k] = a[k]
      <4>1. k \in 1..m \/ k = n
        BY <1>1
      <4>2. QED
        BY <2>4, <3>2, <4>1
    <3>4. QED
      BY <2>1, <3>1, <3>2, <3>3, SeqEqual
  <2>9. QED
    BY <2>2, <2>6, <2>7, <2>8
<1>6. \A r : r \in Linked(h, n) <=> r \in Extended(D, n)
  <2>1. ASSUME NEW r \in Linked(h, n) PROVE r \in Extended(D, n)
    <3>1. Once(r) /\ \E c \in D : \E l \in Links(c[m].handler) : r = Append(c, l)
      BY <1>5
    <3>2. QED
      BY ONLY <1>3, <3>1
  <2>2. ASSUME NEW r \in Extended(D, n) PROVE r \in Linked(h, n)
    <3>1. Once(r) /\ \E c \in D : \E l \in Links(c[m].handler) : r = Append(c, l)
      BY ONLY <1>3, <2>2
    <3>2. PICK c \in D : \E l \in Links(c[m].handler) : r = Append(c, l)
      BY <3>1
    <3>3. PICK l \in Links(c[m].handler) : r = Append(c, l)
      BY <3>2
    <3>4. QED
      BY <1>4, <3>1, <3>2, <3>3
  <2>3. QED
    BY <2>1, <2>2
<1>7. Linked(h, n) = Extended(D, n)
  BY <1>6
<1>8. QED
  BY <1>1, <1>2, <1>7

\* CallChains are these, and finitely many.
LEMMA CallChainsAreLinked ==
  ASSUME topo \in Topology, NEW h \in Handler, MaxChain \in Nat \ {0}
  PROVE  /\ IsFiniteSet(CallChains(h))
         /\ \A n \in 1..MaxChain : Linked(h, n) \subseteq CallChains(h)
<1> DEFINE Lengths == 1..MaxChain
           first == <<[via |-> None, handler |-> h]>>
           G(f) == [n \in Lengths |-> IF n = 1 THEN {first} ELSE Extended(f[n - 1], n)]
           L == [n \in Lengths |-> Linked(h, n)]
<1>1. PICK F : F = CHOOSE f : f = G(f)
  OBVIOUS
<1>2. CallChains(h) = UNION {F[n] : n \in DOMAIN F}
  BY <1>1 DEF CallChains, Extended, Once
<1>3. \A n \in Lengths : n \in Nat /\ (n # 1 => n > 1 /\ n - 1 \in Lengths /\ ~(n <= n - 1))
  OBVIOUS
<1>4. Linked(h, 1) = {first}
  <2>1. /\ [via |-> None, handler |-> h] \in Link /\ first \in Seq(Link)
        /\ Len(first) = 1 /\ first[1] = [via |-> None, handler |-> h] /\ 1..(1 - 1) = {}
        /\ \A j, k \in 1..1 : j = k
    BY DEF Link
  <2>2. first \in Linked(h, 1)
    BY <2>1 DEF Linked
  <2>3. ASSUME NEW c \in Linked(h, 1) PROVE c = first
    <3>1. c \in Seq(Link) /\ Len(c) = 1 /\ c[1] = [via |-> None, handler |-> h]
      BY <2>3 DEF Linked
    <3>2. c = <<c[1]>>
      BY <3>1
    <3>3. QED
      BY <3>1, <3>2
  <2>4. QED
    BY <2>2, <2>3
<1>5. L = G(L)
  <2>1. ASSUME NEW n \in Lengths PROVE L[n] = IF n = 1 THEN {first} ELSE Extended(L[n - 1], n)
    <3>1. CASE n = 1
      BY <1>4, <3>1
    <3>2. CASE n # 1
      <4>1. n \in Nat /\ n > 1 /\ L[n - 1] = Linked(h, n - 1)
        BY <1>3, <3>2
      <4>2. L[n] = Linked(h, n)
        OBVIOUS
      <4>3. Linked(h, n) = Extended(Linked(h, n - 1), n)
        BY <4>1, LinkedGrows
      <4>4. QED
        BY ONLY <3>2, <4>1, <4>2, <4>3
    <3>3. QED
      BY <3>1, <3>2
  <2>2. QED
    BY <2>1
<1>6. F = G(F)
  <2> HIDE DEF L, first
  <2>1. \E f : f = G(f)
    BY ONLY <1>5
  <2>2. QED
    BY ONLY <1>1, <2>1
<1>7. DOMAIN F = Lengths /\ \A n \in Lengths : F[n] = IF n = 1 THEN {first} ELSE Extended(F[n - 1], n)
  BY <1>6
<1>8. Lengths \subseteq Nat /\ IsFiniteSet(Lengths)
  <2>1. 1 \in Int /\ MaxChain \in Int /\ Lengths \subseteq Nat
    OBVIOUS
  <2>2. QED
    BY <2>1, FS_Interval
<1> HIDE DEF first
<1>9. ASSUME NEW n0 \in Lengths, ~(F[n0] = L[n0] /\ IsFiniteSet(F[n0])) PROVE FALSE
  <2>1. PICK Bad : Bad = {n \in Lengths : ~(F[n] = L[n] /\ IsFiniteSet(F[n]))}
    OBVIOUS
  <2>2. Bad \in SUBSET Nat /\ Bad # {} /\ IsFiniteSet(Bad)
    BY <1>8, <1>9, <2>1, FS_Subset
  <2>3. Min(Bad) \in Bad /\ \A n \in Bad : Min(Bad) <= n
    BY <2>2, Extremes
  <2>4. PICK n \in Lengths : /\ ~(F[n] = L[n] /\ IsFiniteSet(F[n]))
                             /\ \A k \in Lengths : ~(F[k] = L[k] /\ IsFiniteSet(F[k])) => n <= k
    BY <2>1, <2>3
  <2>5. F[n] = IF n = 1 THEN {first} ELSE Extended(F[n - 1], n)
    BY <1>7
  <2>6. L[n] = IF n = 1 THEN {first} ELSE Extended(L[n - 1], n)
    BY <1>5
  <2>7. CASE n = 1
    <3>1. IsFiniteSet({first})
      BY FS_Singleton
    <3>2. QED
      BY <2>4, <2>5, <2>6, <2>7, <3>1
  <2>8. CASE n # 1
    <3>1. n - 1 \in Lengths /\ ~(n <= n - 1)
      BY <1>3, <2>8
    <3>2. PICK C : C = F[n - 1]
      OBVIOUS
    <3>3. C = L[n - 1] /\ IsFiniteSet(C)
      BY <2>4, <3>1, <3>2
    <3>4. PICK f, M : /\ f = [x \in C \X Link |-> Append(x[1], x[2])]
                      /\ M = {f[x] : x \in C \X Link}
      OBVIOUS
    <3>5. IsFiniteSet(Link)
      BY LinksType
    <3>6. IsFiniteSet(C \X Link)
      BY ONLY <3>3, <3>5, FS_Product
    <3>7. IsFiniteSet({f[x] : x \in C \X Link})
      BY ONLY <3>6, FiniteImage
    <3>8. ASSUME NEW r \in Extended(C, n) PROVE r \in M
      <4>1. PICK c \in C : \E l \in Links(c[n - 1].handler) : r = Append(c, l)
        BY <3>8 DEF Extended
      <4>2. PICK l \in Link : r = Append(c, l)
        BY <4>1, LinksType
      <4>3. PICK x : x = <<c, l>>
        OBVIOUS
      <4>4. x \in C \X Link /\ x[1] = c /\ x[2] = l
        BY <4>3
      <4>5. f[x] = r
        BY <3>4, <4>2, <4>4
      <4>6. QED
        BY <3>4, <4>4, <4>5
    <3>9. Extended(C, n) \subseteq M
      BY <3>8
    <3>10. IsFiniteSet(Extended(C, n))
      BY <3>4, <3>7, <3>9, FS_Subset
    <3>11. QED
      BY <2>4, <2>5, <2>6, <2>8, <3>2, <3>3, <3>10
  <2>9. QED
    BY <2>7, <2>8
<1>10. ASSUME NEW n \in Lengths PROVE Linked(h, n) \subseteq CallChains(h)
  <2>1. F[n] = Linked(h, n) /\ n \in DOMAIN F
    BY <1>7, <1>9
  <2>2. QED
    BY <1>2, <2>1
<1>11. IsFiniteSet(CallChains(h))
  <2>1. PICK M : M = {F[n] : n \in Lengths}
    OBVIOUS
  <2>2. IsFiniteSet({F[n] : n \in Lengths})
    <3> HIDE DEF Lengths
    <3>1. QED
      BY ONLY <1>8, FiniteImage
  <2>3. \A T \in M : IsFiniteSet(T)
    BY <1>9, <2>1
  <2>4. CallChains(h) = UNION M
    BY <1>2, <1>7, <2>1
  <2>5. QED
    BY <2>1, <2>2, <2>3, <2>4, FS_UNION
<1>12. QED
  BY <1>10, <1>11

-----------------------------------------------------------------------------
(* Messages a thread put on its own queue. *)

\* What is recorded of a message: the chain of calls in which it was posted began
\* with the call the thread still is in, and its last handler posts it.
PostedInv ==
  /\ posted \in [Origin -> SUBSET (Seq(Handler) \X (OutPort \X InPort))]
  /\ \A th \in Origin : \A m \in posted[th] :
       /\ Len(stack[th]) > 0
       /\ Len(m[1]) \in 1..MaxStack /\ m[1][1] = stack[th][1].handler
       /\ \A k \in 1..(Len(m[1]) - 1) : m[1][k + 1] \in NextHandlers(topo, m[1][k])
       /\ m[2] \in Posts(m[1][Len(m[1])]) /\ topo.owner[m[2][2]] = th[2]

\* A step of the deployment leaves the first call of a thread in place until the
\* thread is done.
LEMMA FirstCallKept ==
  ASSUME stack \in [Origin -> Seq(Calls)], RtNext, NEW th \in Origin,
         Len(stack[th]) > 0, stack'[th] # <<>>
  PROVE  Len(stack'[th]) > 0 /\ stack'[th][1] = stack[th][1]
<1>1. PICK s \in Seq(Calls) : s = stack[th] /\ Len(s) > 0 /\ Len(s) \in Nat
  OBVIOUS
<1>2. \E u : \/ \E c : stack' = [stack EXCEPT ![u] = Append(@, c)]
             \/ stack' = [stack EXCEPT ![u] = SubSeq(@, 1, Len(stack[u]) - 1)]
             \/ stack' = stack
  <2>1. ASSUME NEW u, NEW p, NEW kind, CallPort(u, p, kind)
        PROVE  stack' = stack \/ \E c : stack' = [stack EXCEPT ![u] = Append(@, c)]
    BY <2>1 DEF CallPort, Push
  <2>2. ASSUME NEW i \in Instance, NEW p \in InPort, Dispatch(i, p)
        PROVE  \E u, c : stack' = [stack EXCEPT ![u] = Append(@, c)]
    BY <2>2 DEF Dispatch, Push
  <2>3. ASSUME NEW p \in InPort, NEW kind \in SyncKind, CallFromOutside(p, kind)
        PROVE  stack' = stack \/ \E u, c : stack' = [stack EXCEPT ![u] = Append(@, c)]
    BY <2>1, <2>3 DEF CallFromOutside
  <2>4. ASSUME NEW u \in Threads, CallFromHandler(u)
        PROVE  stack' = stack \/ \E c : stack' = [stack EXCEPT ![u] = Append(@, c)]
    BY <2>1, <2>4 DEF CallFromHandler
  <2>5. ASSUME NEW u \in Threads, Acquire(u)
        PROVE  \E c : stack' = [stack EXCEPT ![u] = Append(@, c)]
    BY <2>5 DEF Acquire, Push
  <2>6. ASSUME NEW u \in Threads, Leave(u)
        PROVE  stack' = [stack EXCEPT ![u] = SubSeq(@, 1, Len(stack[u]) - 1)]
    BY <2>6 DEF Leave, Depth
  <2>7. ASSUME NEW u \in Threads, NEW p \in InPort, Drain(u, p)
        PROVE  \E c : stack' = [stack EXCEPT ![u] = Append(@, c)]
    BY <2>7 DEF Drain, Push
  <2>8. QED
    BY <2>2, <2>3, <2>4, <2>5, <2>6, <2>7 DEF RtNext
<1>3. ASSUME NEW u, NEW c, stack' = [stack EXCEPT ![u] = Append(@, c)]
      PROVE  Len(stack'[th]) > 0 /\ stack'[th][1] = stack[th][1]
  <2>1. CASE u = th
    <3>1. stack'[th] = Append(s, c)
      BY <1>1, <1>3, <2>1
    <3>2. s \in Seq(Calls \cup {c})
      OBVIOUS
    <3>3. Len(Append(s, c)) = Len(s) + 1 /\ Append(s, c)[1] = s[1]
      BY <1>1, <3>2
    <3>4. QED
      BY <1>1, <3>1, <3>3
  <2>2. CASE u # th
    BY <1>3, <2>2
  <2>3. QED
    BY <2>1, <2>2
<1>4. ASSUME NEW u, stack' = [stack EXCEPT ![u] = SubSeq(@, 1, Len(stack[u]) - 1)]
      PROVE  Len(stack'[th]) > 0 /\ stack'[th][1] = stack[th][1]
  <2>1. CASE u = th
    <3>1. stack'[th] = SubSeq(s, 1, Len(s) - 1) /\ s # <<>>
      BY <1>1, <1>4, <2>1
    <3>2. PICK r : r = SubSeq(s, 1, Len(s) - 1)
      OBVIOUS
    <3>3. r \in Seq(Calls) /\ Len(r) = Len(s) - 1 /\ \A n \in 1..Len(r) : r[n] = s[n]
      BY <3>1, <3>2, FrontFacts
    <3>4. Len(r) > 0 /\ 1 \in 1..Len(r)
      BY <3>1, <3>2, <3>3
    <3>5. QED
      BY <1>1, <3>1, <3>2, <3>3, <3>4
  <2>2. CASE u # th
    BY <1>4, <2>2
  <2>3. QED
    BY <2>1, <2>2
<1>5. QED
  BY <1>2, <1>3, <1>4

\* What is recorded stays true.
LEMMA PostedInvariant == DeploymentSpec => []PostedInv
<1>1. DeploymentInit => PostedInv
  <2> SUFFICES ASSUME DeploymentInit PROVE PostedInv
    OBVIOUS
  <2>1. posted = [th \in Origin |-> {}]
    BY DEF DeploymentInit
  <2>2. QED
    BY <2>1 DEF PostedInv
<1>2. DeploymentInv /\ PostedInv /\ [CheckThenRun]_<<vars, stack, wants, posted>> => PostedInv'
  <2> SUFFICES ASSUME DeploymentInv, PostedInv, [CheckThenRun]_<<vars, stack, wants, posted>>
               PROVE  PostedInv'
    OBVIOUS
  <2>0. /\ ChecksInv /\ stack \in [Origin -> Seq(Calls)] /\ topo \in Topology /\ MaxStack \in Nat
        /\ posted \in [Origin -> SUBSET (Seq(Handler) \X (OutPort \X InPort))]
    BY InputTypes, ChecksAtRuntimeAssumption, FprimeRuntimeAssumption DEF DeploymentInv, ChecksInv, RtInv, RtType, PostedInv
  <2>1. UNCHANGED topo
    BY DEF CheckThenRun, Next, Deselected, NoFlowMap, Report, Fail, vars, inputVars
  <2>2. \A h : Posts(h)' = Posts(h)
    BY <2>1 DEF Posts, Wires
  <2>3. \A h : NextHandlers(topo', h) = NextHandlers(topo, h)
    BY <2>1
  <2>4. CASE UNCHANGED <<stack, posted>>
    BY <2>1, <2>2, <2>3, <2>4 DEF PostedInv
  <2>5. CASE RunStep
    <3>1. RtNext /\ posted' = [th \in Origin |-> IF stack'[th] = <<>> THEN {} ELSE posted[th]]
      BY <2>0, <2>5 DEF RunStep
    <3>2. posted' \in [Origin -> SUBSET (Seq(Handler) \X (OutPort \X InPort))]
      BY <2>0, <3>1
    <3>3. ASSUME NEW th \in Origin, NEW m \in posted'[th]
          PROVE  /\ Len(stack'[th]) > 0
                 /\ Len(m[1]) \in 1..MaxStack /\ m[1][1] = stack'[th][1].handler
                 /\ \A k \in 1..(Len(m[1]) - 1) : m[1][k + 1] \in NextHandlers(topo, m[1][k])
                 /\ m[2] \in Posts(m[1][Len(m[1])]) /\ topo.owner[m[2][2]] = th[2]
      <4>1. stack'[th] # <<>> /\ m \in posted[th]
        BY <3>1, <3>3
      <4>2. /\ Len(stack[th]) > 0
            /\ Len(m[1]) \in 1..MaxStack /\ m[1][1] = stack[th][1].handler
            /\ \A k \in 1..(Len(m[1]) - 1) : m[1][k + 1] \in NextHandlers(topo, m[1][k])
            /\ m[2] \in Posts(m[1][Len(m[1])]) /\ topo.owner[m[2][2]] = th[2]
        BY <4>1 DEF PostedInv
      <4>3. Len(stack'[th]) > 0 /\ stack'[th][1] = stack[th][1]
        BY <2>0, <3>1, <4>1, <4>2, FirstCallKept
      <4>4. QED
        BY <4>2, <4>3
    <3>4. QED
      BY <2>1, <2>2, <2>3, <3>2, <3>3 DEF PostedInv
  <2>6. ASSUME Trusted, NEW th \in ActiveThreads, PostToItself(th) PROVE PostedInv'
    <3>1. th \in Origin /\ NoQueued
      BY <2>6, ThreadsAreOrigins DEF Threads, Trusted
    <3>2. Len(stack[th]) > 0 /\ UNCHANGED stack
      BY <2>6 DEF PostToItself, Depth
    <3>3. PICK n : n = Len(stack[th])
      OBVIOUS
    <3>4. n \in Nat /\ n > 0 /\ n <= MaxStack /\ DOMAIN stack[th] = 1..n
      <4>1. Len(stack[th]) <= MaxStack
        BY <3>1, CallFacts
      <4>2. stack[th] \in Seq(Calls)
        BY <2>0, <3>1
      <4>3. Len(stack[th]) \in Nat /\ DOMAIN stack[th] = 1..Len(stack[th])
        BY <4>2
      <4>4. QED
        BY <3>2, <3>3, <4>1, <4>3
    <3>5. PICK q : q = [k \in DOMAIN stack[th] |-> stack[th][k].handler]
      OBVIOUS
    <3>6. PICK w \in Posts(stack[th][n].handler) :
            /\ topo.owner[w[2]] = th[2]
            /\ posted' = [posted EXCEPT ![th] = @ \cup {<<q, w>>}]
      BY <2>6, <3>3, <3>5 DEF PostToItself, Running, Depth
    <3>7. \A k \in 1..n : stack[th][k].handler \in Handler
      BY <2>0, <3>1, <3>3, CallFacts
    <3>8. q \in [1..n -> Handler] /\ \A k \in 1..n : q[k] = stack[th][k].handler
      BY <3>4, <3>5, <3>7
    <3>9. q \in Seq(Handler) /\ Len(q) = n
      BY <3>4, <3>8, FunctionSeq
    <3>10. w \in OutPort \X InPort
      BY <2>0, LinksType DEF Posts
    <3>11. 1 \in 1..n /\ n \in 1..n /\ n \in 1..MaxStack /\ \A k \in 1..(n - 1) : k \in 1..n /\ k + 1 \in 1..n
      BY <2>0, <3>4
    <3>12. \A k \in 1..(n - 1) : q[k + 1] \in NextHandlers(topo, q[k])
      <4>1. ASSUME NEW k \in 1..(n - 1) PROVE q[k + 1] \in NextHandlers(topo, q[k])
        <5>1. stack[th][k + 1].handler \in NextHandlers(topo, stack[th][k].handler)
          BY <3>1, <3>3, CallBelow
        <5>2. QED
          BY <3>8, <3>11, <5>1
      <4>2. QED
        BY <4>1
    <3>13. posted' \in [Origin -> SUBSET (Seq(Handler) \X (OutPort \X InPort))]
      <4>1. PICK M : M = Seq(Handler) \X (OutPort \X InPort)
        OBVIOUS
      <4>2. <<q, w>> \in M
        BY <3>9, <3>10, <4>1
      <4>3. posted \in [Origin -> SUBSET M]
        BY <2>0, <4>1
      <4>4. posted' \in [Origin -> SUBSET M]
        BY <3>1, <3>6, <4>2, <4>3
      <4>5. QED
        BY <4>1, <4>4
    <3>14. ASSUME NEW u \in Origin, NEW m \in posted'[u]
           PROVE  /\ Len(stack[u]) > 0
                  /\ Len(m[1]) \in 1..MaxStack /\ m[1][1] = stack[u][1].handler
                  /\ \A k \in 1..(Len(m[1]) - 1) : m[1][k + 1] \in NextHandlers(topo, m[1][k])
                  /\ m[2] \in Posts(m[1][Len(m[1])]) /\ topo.owner[m[2][2]] = u[2]
      <4>1. CASE m \in posted[u]
        BY <4>1 DEF PostedInv
      <4>2. CASE m \notin posted[u]
        <5>1. u = th /\ m = <<q, w>>
          BY <2>0, <3>1, <3>6, <3>14, <4>2
        <5>2. m[1] = q /\ m[2] = w /\ u = th
          BY <5>1
        <5>3. q[1] = stack[th][1].handler /\ q[n] = stack[th][n].handler
          BY <3>8, <3>11
        <5>4. QED
          BY <3>2, <3>6, <3>9, <3>11, <3>12, <5>2, <5>3
      <4>3. QED
        BY <4>1, <4>2
    <3>15. QED
      BY <2>1, <2>2, <2>3, <3>2, <3>13, <3>14 DEF PostedInv
  <2>7. QED
    BY <2>4, <2>5, <2>6 DEF CheckThenRun
<1>3. QED
  BY <1>1, <1>2, DeploymentInvariant, PTL DEF DeploymentSpec

\* A call on the same thread is a link.
LEMMA CallIsLink ==
  ASSUME topo \in Topology, NEW h, NEW g \in NextHandlers(topo, h)
  PROVE  \E l \in Links(h) : l.handler = g
<1>1. PICK hop \in ThreadHops(topo, h) : g \in FlowEntries(topo, hop.port, hop.kind)
  BY DEF NextHandlers
<1>2. hop \in OutwardHops(topo, h) /\ hop.kind # "async"
  BY DEF ThreadHops
<1>3. PICK p \in Destinations(topo, h) : hop \in {[port |-> p, kind |-> k] : k \in InputSyncKinds(topo, p)}
  BY <1>2 DEF OutwardHops
<1>4. hop.port = p /\ hop.kind \in InputSyncKinds(topo, p)
  BY <1>3
<1>5. PICK o \in OutputsFor(topo, h) : p \in topo.wires[o]
  BY DEF Destinations
<1>6. PICK w : w = <<o, p>>
  OBVIOUS
<1>7. w \in Wires(h) /\ w[1] = o /\ w[2] = p
  BY <1>5, <1>6 DEF Wires
<1>8. PICK entered : entered = UNION {FlowEntries(topo, w[2], k) : k \in InputSyncKinds(topo, w[2]) \ {"async"}}
  OBVIOUS
<1>9. g \in entered
  BY <1>1, <1>2, <1>4, <1>7, <1>8
<1>10. PICK l : l = [via |-> o, handler |-> g]
  OBVIOUS
<1>11. l \in [via : {w[1]}, handler : entered] /\ l.handler = g
  BY <1>7, <1>9, <1>10
<1>12. l \in Links(h)
  BY <1>7, <1>8, <1>11 DEF Links
<1>13. QED
  BY <1>11, <1>12

\* Calls in which no handler occurs twice are a chain that is counted.
LEMMA CallsAreChain ==
  ASSUME topo \in Topology, NEW q \in Seq(Handler), Len(q) \in 1..MaxChain, Simple(q),
         \A k \in 1..(Len(q) - 1) : q[k + 1] \in NextHandlers(topo, q[k])
  PROVE  \E c \in CallChains(q[1]) :
           Len(c) = Len(q) /\ \A k \in 1..Len(q) : c[k].handler = q[k]
<1>1. PICK n : n = Len(q)
  OBVIOUS
<1>2. n \in Nat /\ n > 0 /\ n \in 1..MaxChain /\ DOMAIN q = 1..n /\ MaxChain \in Nat \ {0}
  BY <1>1, TopologyChecksAssumption
<1>3. /\ 1 \in 1..n
      /\ \A k \in 1..n : k # 1 => k - 1 \in 1..(n - 1) /\ k - 1 \in 1..n /\ (k - 1) + 1 = k
      /\ \A k \in 1..(n - 1) : k \in 1..n /\ k + 1 \in 1..n /\ k + 1 # 1 /\ (k + 1) - 1 = k
  BY <1>2
<1>4. PICK c : c = [k \in 1..n |-> IF k = 1 THEN [via |-> None, handler |-> q[1]]
                                  ELSE CHOOSE l \in Links(q[k - 1]) : l.handler = q[k]]
  OBVIOUS
<1>5. q[1] \in Handler /\ [via |-> None, handler |-> q[1]] \in Link
  BY <1>2, <1>3 DEF Link
<1>6. ASSUME NEW k \in 1..n, k # 1 PROVE c[k] \in Links(q[k - 1]) /\ c[k].handler = q[k]
  <2>1. q[k] \in NextHandlers(topo, q[k - 1])
    BY <1>1, <1>3, <1>6
  <2>2. \E l \in Links(q[k - 1]) : l.handler = q[k]
    BY <2>1, CallIsLink
  <2>3. c[k] = CHOOSE l \in Links(q[k - 1]) : l.handler = q[k]
    BY <1>4, <1>6
  <2>4. QED
    BY <2>2, <2>3
<1>7. c[1] = [via |-> None, handler |-> q[1]]
  BY <1>3, <1>4
<1>8. \A k \in 1..n : c[k].handler = q[k] /\ c[k] \in Link
  BY <1>5, <1>6, <1>7, LinksType
<1>9. c \in [1..n -> Link]
  BY <1>4, <1>8
<1>10. c \in Seq(Link) /\ Len(c) = n
  BY <1>2, <1>9, FunctionSeq
<1>11. \A k \in 1..(n - 1) : c[k + 1] \in Links(c[k].handler)
  BY <1>3, <1>6, <1>8
<1>12. \A j, k \in 1..n : j # k => c[j].handler # c[k].handler
  BY <1>2, <1>8 DEF Simple
<1>13. c \in Linked(q[1], n)
  BY <1>7, <1>10, <1>11, <1>12 DEF Linked
<1>14. c \in CallChains(q[1])
  BY <1>2, <1>5, <1>13, CallChainsAreLinked
<1>15. QED
  BY <1>1, <1>8, <1>10, <1>14

\* Every message that overfills a thread's own queue was reported: those posted in
\* different chains of calls, or over different connections, count apart.
LEMMA OverflowFound ==
  ASSUME DeploymentInv, PostedInv
  PROVE  OverflowPredicted
<1> SUFFICES ASSUME Trusted, NEW th \in ActiveThreads, NEW plain, NEW arrays,
                    plain = {m \in posted[th] : Simple(m[1])},
                    arrays = {o \in facts.wide : \E p \in topo.wires[o] : topo.owner[p] = th[2]},
                    facts.size[th[2]] # None, Cardinality(plain) > facts.size[th[2]]
             PROVE  \E f \in findings["queue-overflow"] :
                      /\ f[2] = th[2] /\ f[3] = stack[th][1].port /\ f[4] = stack[th][1].handler
                      /\ arrays = {} => f[1] = "error"
  BY DEF OverflowPredicted
<1>1. /\ topo \in Topology /\ facts \in Fact /\ NoQueued
      /\ findings["queue-overflow"] = QueueOverflow
  BY TrustedFacts
<1>2. PICK i \in Instance : th = <<"thread", i>>
  BY DEF ActiveThreads
<1>3. th \in Origin /\ th[1] = "thread" /\ th[2] = i
  BY <1>2, ThreadsAreOrigins DEF Threads
<1>4. facts.size[i] \in Nat
  BY <1>1, <1>3 DEF Fact
<1>5. MaxStack \in Nat /\ MaxStack <= MaxChain /\ MaxChain \in Nat \ {0}
  BY ChecksAtRuntimeAssumption, FprimeRuntimeAssumption, TopologyChecksAssumption
<1>6. plain \subseteq posted[th] /\ posted[th] \subseteq Seq(Handler) \X (OutPort \X InPort)
  BY <1>3 DEF PostedInv
<1>7. plain # {}
  <2>1. CASE plain = {}
    <3>1. Cardinality(plain) = 0
      BY <2>1, FS_EmptySet
    <3>2. QED
      BY <1>3, <1>4, <3>1
  <2>2. QED
    BY <2>1
<1>8. PICK h : h = stack[th][1].handler
  OBVIOUS
<1>9. ASSUME NEW m \in plain
      PROVE  /\ Len(stack[th]) > 0
             /\ m[1] \in Seq(Handler) /\ Simple(m[1]) /\ m[1][1] = h /\ Len(m[1]) \in 1..MaxChain
             /\ \A k \in 1..(Len(m[1]) - 1) : m[1][k + 1] \in NextHandlers(topo, m[1][k])
             /\ m[2] \in Posts(m[1][Len(m[1])]) /\ topo.owner[m[2][2]] = i
             /\ m = <<m[1], m[2]>>
  <2>1. m \in posted[th] /\ m \in Seq(Handler) \X (OutPort \X InPort) /\ Simple(m[1])
    BY <1>6
  <2>2. /\ Len(stack[th]) > 0
        /\ Len(m[1]) \in 1..MaxStack /\ m[1][1] = stack[th][1].handler
        /\ \A k \in 1..(Len(m[1]) - 1) : m[1][k + 1] \in NextHandlers(topo, m[1][k])
        /\ m[2] \in Posts(m[1][Len(m[1])]) /\ topo.owner[m[2][2]] = th[2]
    BY <1>3, <2>1 DEF PostedInv
  <2>3. Len(m[1]) \in 1..MaxChain
    BY <1>5, <2>2
  <2>4. m[1] \in Seq(Handler) /\ m = <<m[1], m[2]>>
    BY <2>1
  <2>5. QED
    BY <1>3, <1>8, <2>1, <2>2, <2>3, <2>4
<1>10. /\ h \in Handler /\ th = <<"thread", topo.owner[stack[th][1].port]>>
       /\ [port |-> stack[th][1].port, kind |-> "async", handler |-> h] \in Entries
  <2>1. Len(stack[th]) > 0
    BY <1>7, <1>9
  <2>2. Len(stack[th]) \in Nat
    BY <1>1, <1>3, CallFacts
  <2>3. 1 \in 1..Len(stack[th])
    BY <2>1, <2>2
  <2>4. stack[th][1].handler \in Handler
    BY <1>1, <1>3, <2>3, CallFacts
  <2>5. /\ th = <<"thread", topo.owner[stack[th][1].port]>>
        /\ [port |-> stack[th][1].port, kind |-> "async", handler |-> stack[th][1].handler] \in Entries
    BY <1>1, <1>3, <2>1, CallFacts
  <2>6. QED
    BY <1>8, <2>4, <2>5
<1>11. PICK C : C = CallChains(h)
  OBVIOUS
<1>12. IsFiniteSet(C)
  BY <1>1, <1>5, <1>10, <1>11, CallChainsAreLinked
<1>13. \A c \in C : IsFiniteSet(Queued(c, i))
  <2>1. ASSUME NEW c \in C PROVE IsFiniteSet(Queued(c, i))
    <3>1. Queued(c, i) \subseteq OutPort \X InPort
      BY <1>1, LinksType DEF Queued, Posts
    <3>2. IsFiniteSet(OutPort \X InPort)
      BY <1>1, LinksType
    <3>3. QED
      BY <3>1, <3>2, FS_Subset
  <2>2. QED
    BY <2>1
<1>14. QueuedCount(C, i) = Cardinality(Messages(C, i)) /\ IsFiniteSet(Messages(C, i))
  BY <1>12, <1>13, CountOfMessages, FiniteMessages
<1>15. ASSUME NEW m \in plain
       PROVE  \E c \in C : /\ Len(c) = Len(m[1]) /\ \A k \in 1..Len(m[1]) : c[k].handler = m[1][k]
                           /\ <<c, m[2]>> \in Messages(C, i)
  <2>1. PICK q : q = m[1]
    OBVIOUS
  <2>2. /\ q \in Seq(Handler) /\ Simple(q) /\ q[1] = h /\ Len(q) \in 1..MaxChain
        /\ \A k \in 1..(Len(q) - 1) : q[k + 1] \in NextHandlers(topo, q[k])
        /\ m[2] \in Posts(q[Len(q)]) /\ topo.owner[m[2][2]] = i
    BY <1>9, <2>1
  <2>3. PICK c \in CallChains(q[1]) : Len(c) = Len(q) /\ \A k \in 1..Len(q) : c[k].handler = q[k]
    BY <1>1, <2>2, CallsAreChain
  <2>4. c \in C
    BY <1>11, <2>2, <2>3
  <2>5. Len(q) \in 1..Len(q)
    BY <1>5, <2>2
  <2>6. c[Len(c)].handler = q[Len(q)]
    BY <2>3, <2>5
  <2>7. m[2] \in Queued(c, i)
    BY <2>2, <2>6 DEF Queued
  <2>8. <<c, m[2]>> \in {c} \X Queued(c, i)
    BY <2>7
  <2>9. <<c, m[2]>> \in Messages(C, i)
    BY <2>4, <2>8 DEF Messages
  <2>10. QED
    BY <2>1, <2>3, <2>4, <2>9
<1>16. PICK f : f = [m \in plain |->
                       CHOOSE x \in Messages(C, i) :
                         /\ x[2] = m[2] /\ Len(x[1]) = Len(m[1])
                         /\ \A k \in 1..Len(m[1]) : x[1][k].handler = m[1][k]]
  OBVIOUS
<1>17. ASSUME NEW m \in plain
       PROVE  /\ f[m] \in Messages(C, i) /\ f[m][2] = m[2] /\ Len(f[m][1]) = Len(m[1])
              /\ \A k \in 1..Len(m[1]) : f[m][1][k].handler = m[1][k]
  <2>1. PICK c \in C : /\ Len(c) = Len(m[1]) /\ \A k \in 1..Len(m[1]) : c[k].handler = m[1][k]
                       /\ <<c, m[2]>> \in Messages(C, i)
    BY <1>15
  <2>2. PICK y : y = <<c, m[2]>>
    OBVIOUS
  <2>3. y \in Messages(C, i) /\ y[1] = c /\ y[2] = m[2]
    BY <2>1, <2>2
  <2>4. \E x \in Messages(C, i) :
          /\ x[2] = m[2] /\ Len(x[1]) = Len(m[1])
          /\ \A k \in 1..Len(m[1]) : x[1][k].handler = m[1][k]
    BY <2>1, <2>3
  <2>5. f[m] = CHOOSE x \in Messages(C, i) :
                 /\ x[2] = m[2] /\ Len(x[1]) = Len(m[1])
                 /\ \A k \in 1..Len(m[1]) : x[1][k].handler = m[1][k]
    BY <1>16
  <2>6. QED
    BY <2>4, <2>5
<1>18. ASSUME NEW a \in plain, NEW b \in plain, f[a] = f[b] PROVE a = b
  <2>1. PICK q, r : q = a[1] /\ r = b[1]
    OBVIOUS
  <2>2. q \in Seq(Handler) /\ r \in Seq(Handler) /\ a = <<q, a[2]>> /\ b = <<r, b[2]>>
    BY <1>9, <2>1
  <2>3. /\ f[a][2] = a[2] /\ Len(f[a][1]) = Len(q) /\ \A k \in 1..Len(q) : f[a][1][k].handler = q[k]
        /\ f[b][2] = b[2] /\ Len(f[b][1]) = Len(r) /\ \A k \in 1..Len(r) : f[b][1][k].handler = r[k]
    BY <1>17, <2>1
  <2>4. a[2] = b[2] /\ Len(q) = Len(r) /\ \A k \in 1..Len(q) : q[k] = r[k]
    BY <1>18, <2>3
  <2>5. q = r
    BY <2>2, <2>4, SeqEqual
  <2>6. QED
    BY <2>2, <2>4, <2>5
<1>19. f \in Injection(plain, Messages(C, i))
  <2>1. f \in [plain -> Messages(C, i)]
    BY <1>16, <1>17
  <2>2. QED
    BY <1>18, <2>1 DEF Injection, IsInjective
<1>20. IsFiniteSet(plain) /\ Cardinality(plain) <= Cardinality(Messages(C, i))
  BY <1>14, <1>19, FS_Injection
<1>21. QueuedCount(C, i) > facts.size[i]
  <2>1. Cardinality(plain) \in Nat /\ Cardinality(Messages(C, i)) \in Nat
    BY <1>14, <1>20, FS_CardinalityType
  <2>2. Cardinality(plain) > facts.size[i]
    BY <1>3
  <2>3. QED
    BY <1>4, <1>14, <1>20, <2>1, <2>2
<1>22. PICK e : e = [port |-> stack[th][1].port, kind |-> "async", handler |-> h]
  OBVIOUS
<1>23. e \in Entries /\ e.kind = "async" /\ e.handler = h /\ e.port = stack[th][1].port /\ Owner(e) = i
  BY <1>2, <1>10, <1>22 DEF Owner
<1>24. PICK H, chains : /\ H = {a.handler : a \in {x \in Entries : x.kind = "async"}}
                        /\ chains = [g \in H |-> CallChains(g)]
  OBVIOUS
<1>25. h \in H /\ chains[h] = C
  BY <1>11, <1>23, <1>24
<1>26. PICK severity : severity = IF Owner(e) = i /\ ~(\E c \in chains[h] : \E w \in Wires(c[Len(c)].handler) :
                                                         topo.owner[w[2]] = i /\ w[1] \in facts.wide)
                                  THEN "error" ELSE "info"
  OBVIOUS
<1>27. <<severity, i, e.port, e.handler>> \in QueueOverflow
  <2>1. PICK x : x = <<e, i>>
    OBVIOUS
  <2>2. x[1] = e /\ x[2] = i
    BY <2>1
  <2>3. x \in {a \in Entries : a.kind = "async"} \X Instance
    BY <1>23, <2>1
  <2>4. facts.size[x[2]] # None /\ QueuedCount(chains[x[1].handler], x[2]) > facts.size[x[2]]
    BY <1>3, <1>21, <1>23, <1>25, <2>2
  <2>5. <<IF Owner(x[1]) = x[2] /\ ~(\E c \in chains[x[1].handler] : \E w \in Wires(c[Len(c)].handler) :
                                       topo.owner[w[2]] = x[2] /\ w[1] \in facts.wide)
          THEN "error" ELSE "info",
          x[2], x[1].port, x[1].handler>> \in QueueOverflow
    BY <1>24, <2>3, <2>4 DEF QueueOverflow
  <2>6. QED
    BY <1>23, <1>26, <2>2, <2>5
<1>28. arrays = {} => severity = "error"
  <2>1. ASSUME arrays = {}, NEW c \in chains[h], NEW w \in Wires(c[Len(c)].handler),
               topo.owner[w[2]] = i, w[1] \in facts.wide
        PROVE  FALSE
    <3>1. PICK o \in OutputsFor(topo, c[Len(c)].handler) : w \in {o} \X topo.wires[o]
      BY DEF Wires
    <3>2. w[1] \in facts.wide /\ w[2] \in topo.wires[w[1]] /\ topo.owner[w[2]] = th[2]
      BY <1>3, <2>1, <3>1
    <3>3. w[1] \in arrays
      BY <3>2
    <3>4. QED
      BY <2>1, <3>3
  <2>2. QED
    BY <1>23, <1>26, <2>1
<1>29. PICK g : g = <<severity, i, e.port, e.handler>>
  OBVIOUS
<1>30. g[1] = severity /\ g[2] = i /\ g[3] = e.port /\ g[4] = e.handler
  BY <1>29
<1>31. QED
  BY <1>1, <1>3, <1>8, <1>23, <1>27, <1>28, <1>29, <1>30

-----------------------------------------------------------------------------
(* What holds of every deployment, its checks and its run. *)

\* A full run that skipped no check resolved the outputs of every handler a thread
\* can reach: the per-check "skipped" of run_checks is the only sign of a guess.
THEOREM NothingSkippedNothingGuessedHolds == DeploymentSpec => []NothingSkippedNothingGuessed
<1>1. DeploymentInv => NothingSkippedNothingGuessed
  BY GuessedNothing DEF DeploymentInv
<1>2. QED
  BY <1>1, DeploymentInvariant, PTL

\* A window of priorities or of CPUs on a mutex is reported only when two threads
\* that do take it differ so, even after a check raised and left a part of the
\* labels behind.
THEOREM ContentionRealHolds == DeploymentSpec => []ContentionReal
<1>1. DeploymentInv => ContentionReal
  BY ContentionIsReal DEF DeploymentInv
<1>2. QED
  BY <1>1, DeploymentInvariant, PTL

\* Two threads that meet in the data of an instance were reported by data-race, as
\* a warning when two handlers write with no synchronization.
THEOREM RacesPredictedHolds == DeploymentSpec => []RacesPredicted
<1>1. DeploymentInv => RacesPredicted
  BY RacesFound
<1>2. QED
  BY <1>1, DeploymentInvariant, PTL

\* A thread that blocks on a mutex held at another priority or on another CPU was
\* reported, and so was the member a rate group's cycle stalls on.
THEOREM ContentionPredictedHolds == DeploymentSpec => []ContentionPredicted
<1>1. DeploymentInv => ContentionPredicted
  BY ContentionFound
<1>2. QED
  BY <1>1, DeploymentInvariant, PTL

\* A thread recurses through sync calls only around instances of the modules of a
\* reported sync-cycle.
THEOREM RecursionPredictedHolds == DeploymentSpec => []RecursionPredicted
<1>1. DeploymentInv => RecursionPredicted
  BY RecursionFound
<1>2. QED
  BY <1>1, DeploymentInvariant, PTL

\* A thread that does not recurse is never deeper in calls than stack-depth says.
THEOREM DepthPredictedHolds == DeploymentSpec => []DepthPredicted
<1>1. DeploymentInv => DepthPredicted
  BY DepthFound
<1>2. QED
  BY <1>1, DeploymentInvariant, PTL

\* A message that overfills the queue of the thread that handles it was reported
\* by queue-overflow, as an error unless a port array leads to the queue.
THEOREM OverflowPredictedHolds == DeploymentSpec => []OverflowPredicted
<1>1. DeploymentInv /\ PostedInv => OverflowPredicted
  BY OverflowFound
<1>2. QED
  BY <1>1, DeploymentInvariant, PostedInvariant, PTL

=============================================================================
