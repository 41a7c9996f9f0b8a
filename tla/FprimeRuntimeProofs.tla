------------------------- MODULE FprimeRuntimeProofs -------------------------
(***************************************************************************)
(* What the proofs of the analyses share: lemmas about the topology graph  *)
(* and about closures, and what holds of every running deployment,         *)
(* whatever was analysed before: how the calls in progress on a thread     *)
(* came about, whose message they serve, what a thread that waits is       *)
(* waiting for, and that a mutex has one holder.                           *)
(***************************************************************************)
EXTENDS FprimeRuntime, FiniteSetsExt, FiniteSetTheorems, SequenceTheorems, WellFoundedInduction, TLAPS

\* A sequence without its last element.
LEMMA FrontFacts ==
  ASSUME NEW X, NEW s \in Seq(X), s # <<>>
  PROVE  LET r == SubSeq(s, 1, Len(s) - 1)
         IN  /\ r \in Seq(X) /\ Len(r) = Len(s) - 1
             /\ \A n \in 1..Len(r) : n \in 1..Len(s) /\ r[n] = s[n]
<1> DEFINE r == SubSeq(s, 1, Len(s) - 1)
<1>1. Len(s) \in Nat /\ Len(s) > 0
  OBVIOUS
<1>2. Len(s) - 1 \in Nat /\ \A n \in 1..(Len(s) - 1) : n \in 1..Len(s) /\ s[n] \in X
  BY <1>1
<1>3. /\ r \in Seq(X)
      /\ Len(r) = IF 1 <= Len(s) - 1 THEN (Len(s) - 1) - 1 + 1 ELSE 0
      /\ \A n \in 1..((Len(s) - 1) - 1 + 1) : r[n] = s[1 + n - 1]
  BY <1>2, SubSeqProperties
<1>4. ASSUME NEW L \in Nat, L > 0
      PROVE  (IF 1 <= L - 1 THEN (L - 1) - 1 + 1 ELSE 0) = L - 1
  BY <1>4
<1>5. Len(r) = Len(s) - 1
  BY <1>1, <1>3, <1>4
<1>6. ASSUME NEW n \in 1..(Len(s) - 1) PROVE r[n] = s[n]
  <2>1. n \in 1..((Len(s) - 1) - 1 + 1) /\ 1 + n - 1 = n
    BY <1>1
  <2>2. QED
    BY <1>3, <2>1
<1>7. QED
  BY <1>2, <1>3, <1>5, <1>6

\* A set of numbers has a least one.
LEMMA LeastNumber ==
  ASSUME NEW S \in SUBSET Nat, S # {}
  PROVE  \E m \in S : \A n \in S : m <= n
<1>1. PICK b \in S : TRUE
  OBVIOUS
<1> DEFINE B == 1..b
           T == {1..x : x \in {y \in S : y <= b}}
<1>2. T \subseteq SUBSET B /\ T # {} /\ IsFiniteSet(B)
  <2>1. \A x \in S : x <= b => 1..x \subseteq B
    OBVIOUS
  <2>2. IsFiniteSet(B)
    BY FS_Interval
  <2>3. b <= b
    BY <1>1
  <2>4. QED
    BY <2>1, <2>2, <2>3
<1>3. T \subseteq FiniteSubsetsOf(B)
  BY <1>2, FS_Subset DEF FiniteSubsetsOf
<1> HIDE DEF T, B
<1>4. PICK X \in T : \A Y \in T : <<Y, X>> \notin StrictSubsetOrdering(B)
  BY ONLY <1>2, <1>3, FS_StrictSubsetOrderingWellFounded, WFMin
<1>5. PICK m \in S : X = 1..m /\ m <= b
  BY <1>4 DEF T
<1>6. ASSUME NEW n \in S, n < m PROVE FALSE
  <2>1. 1..n \in T /\ m \in 1..m /\ m \notin 1..n
    BY <1>1, <1>5, <1>6 DEF T
  <2>2. 1..n \subseteq 1..m /\ 1..n # 1..m
    BY <1>6, <2>1
  <2>3. <<1..n, 1..m>> \in StrictSubsetOrdering(B)
    BY <1>2, <1>4, <1>5, <2>1, <2>2 DEF StrictSubsetOrdering
  <2>4. QED
    BY <1>4, <1>5, <2>1, <2>3
<1>7. QED
  BY <1>6

\* The values of a function over a finite set.
LEMMA FiniteImage ==
  ASSUME NEW S, IsFiniteSet(S), NEW f
  PROVE  IsFiniteSet({f[x] : x \in S}) /\ Cardinality({f[x] : x \in S}) <= Cardinality(S)
<1>1. PICK T, g : T = {f[x] : x \in S} /\ g = [x \in S |-> f[x]]
  OBVIOUS
<1>2. g \in [S -> T] /\ \A y \in T : \E x \in S : g[x] = y
  BY <1>1
<1>3. g \in Surjection(S, T)
  BY <1>2 DEF Surjection
<1>4. QED
  BY <1>1, <1>3, FS_Surjection

\* What holds of a number, and of the next one whenever of the one before, holds of
\* all numbers from there on.
LEMMA Climb ==
  ASSUME NEW a \in Nat, NEW b \in Nat, NEW S, a \in S,
         \A n \in a..(b - 1) : n \in S => n + 1 \in S
  PROVE  \A n \in a..b : n \in S
<1> SUFFICES ASSUME NEW k \in a..b, k \notin S PROVE FALSE
  OBVIOUS
<1>1. {n \in a..b : n \notin S} \in SUBSET Nat /\ k \in {n \in a..b : n \notin S}
  OBVIOUS
<1>2. PICK m \in a..b : m \notin S /\ \A n \in a..b : n \notin S => m <= n
  BY <1>1, LeastNumber
<1>3. m # a /\ m - 1 \in a..(b - 1) /\ ~(m <= m - 1) /\ (m - 1) + 1 = m /\ m - 1 \in a..b
  BY <1>2
<1>4. QED
  BY <1>2, <1>3

-----------------------------------------------------------------------------
(* Sums over a finite set. *)

\* The elements of a set, each with the elements of a set of its own.
Pairs(S, B) == UNION {{x} \X B[x] : x \in S}

\* They are finitely many.
LEMMA FinitePairs ==
  ASSUME NEW S, IsFiniteSet(S), NEW B, \A x \in S : IsFiniteSet(B[x])
  PROVE  IsFiniteSet(Pairs(S, B))
<1>1. PICK f, M : f = [x \in S |-> {x} \X B[x]] /\ M = {f[x] : x \in S}
  OBVIOUS
<1>2. IsFiniteSet(M)
  <2>1. IsFiniteSet({f[x] : x \in S})
    BY ONLY IsFiniteSet(S), FiniteImage
  <2>2. QED
    BY <1>1, <2>1
<1>3. ASSUME NEW T \in M PROVE IsFiniteSet(T)
  <2>1. PICK x \in S : T = {x} \X B[x]
    BY <1>1
  <2>2. IsFiniteSet({x}) /\ IsFiniteSet(B[x])
    BY FS_Singleton
  <2>3. QED
    BY <2>1, <2>2, FS_Product
<1>4. Pairs(S, B) = UNION M
  BY <1>1 DEF Pairs
<1>5. QED
  BY <1>2, <1>3, <1>4, FS_UNION

\* The pairs of one element, apart from those of the others.
LEMMA PairsApart ==
  ASSUME NEW S, IsFiniteSet(S), NEW B, \A y \in S : IsFiniteSet(B[y]), NEW x \in S
  PROVE  Cardinality(Pairs(S, B)) = Cardinality(B[x]) + Cardinality(Pairs(S \ {x}, B))
<1>1. PICK A, C : A = {x} \X B[x] /\ C = Pairs(S \ {x}, B)
  OBVIOUS
<1>2. IsFiniteSet({x}) /\ Cardinality({x}) = 1 /\ IsFiniteSet(B[x])
  BY FS_Singleton
<1>3. IsFiniteSet(A) /\ Cardinality(A) = 1 * Cardinality(B[x]) /\ Cardinality(B[x]) \in Nat
  BY <1>1, <1>2, FS_Product, FS_CardinalityType
<1>4. IsFiniteSet(S \ {x}) /\ \A y \in S \ {x} : IsFiniteSet(B[y])
  BY FS_Subset
<1>5. IsFiniteSet(C) /\ Cardinality(C) \in Nat
  BY <1>1, <1>4, FinitePairs, FS_CardinalityType
<1>6. Pairs(S, B) = A \cup C /\ A \cap C = {}
  BY <1>1 DEF Pairs
<1>7. Cardinality(A \cup C) = Cardinality(A) + Cardinality(C) - Cardinality(A \cap C)
  BY <1>3, <1>5, FS_Union
<1>8. Cardinality(A \cap C) = 0
  BY <1>6, FS_EmptySet
<1>9. QED
  BY <1>1, <1>3, <1>5, <1>6, <1>7, <1>8

\* A sum counts the pairs, when there are as many of each element as it has there.
LEMMA SumOfPairs ==
  ASSUME NEW S, IsFiniteSet(S), NEW f, DOMAIN f = S, NEW B,
         \A x \in S : IsFiniteSet(B[x]) /\ Cardinality(B[x]) = f[x]
  PROVE  SumFunction(f) = Cardinality(Pairs(S, B))
<1> DEFINE G(g) == [s \in SUBSET S |->
                      IF s = {} THEN 0 ELSE LET x == CHOOSE y \in s : TRUE IN f[x] + g[s \ {x}]]
           P == [s \in SUBSET S |-> Cardinality(Pairs(s, B))]
<1>1. PICK F : F = CHOOSE g : g = G(g)
  OBVIOUS
<1>2. SumFunction(f) = F[S]
  <2>1. SumFunction(f) = SumFunctionOnSet(f, S)
    BY DEF SumFunction
  <2>2. SumFunctionOnSet(f, S) = F[S]
    BY <1>1 DEF SumFunctionOnSet, FoldFunctionOnSet, MapThenFoldSet
  <2>3. QED
    BY <2>1, <2>2
<1>3. P = G(P)
  <2>1. ASSUME NEW s \in SUBSET S
        PROVE  P[s] = IF s = {} THEN 0 ELSE LET x == CHOOSE y \in s : TRUE IN f[x] + P[s \ {x}]
    <3>1. CASE s = {}
      <4>1. Pairs(s, B) = {}
        BY <3>1 DEF Pairs
      <4>2. QED
        BY <3>1, <4>1, FS_EmptySet
    <3>2. CASE s # {}
      <4>1. PICK x \in s : x = CHOOSE y \in s : TRUE
        BY <3>2
      <4>2. s \ {x} \in SUBSET S /\ IsFiniteSet(s) /\ x \in S
        BY FS_Subset
      <4>3. Cardinality(Pairs(s, B)) = Cardinality(B[x]) + Cardinality(Pairs(s \ {x}, B))
        BY <4>2, PairsApart
      <4>4. P[s] = f[x] + P[s \ {x}]
        BY <4>2, <4>3
      <4>5. QED
        BY <3>2, <4>1, <4>4
    <3>3. QED
      BY <3>1, <3>2
  <2>2. QED
    BY <2>1
<1>4. F = G(F)
  <2> HIDE DEF P
  <2>1. \E g : g = G(g)
    BY ONLY <1>3
  <2>2. QED
    BY ONLY <1>1, <2>1
<1>5. ASSUME NEW s0 \in SUBSET S, F[s0] # P[s0] PROVE FALSE
  <2> DEFINE Bad == {s \in SUBSET S : F[s] # P[s]}
  <2>1. Bad \subseteq FiniteSubsetsOf(S) /\ Bad # {}
    BY <1>5, FS_Subset DEF FiniteSubsetsOf
  <2>2. PICK s \in Bad : \A t \in Bad : <<t, s>> \notin StrictSubsetOrdering(S)
    <3> HIDE DEF Bad
    <3>1. QED
      BY ONLY <2>1, FS_StrictSubsetOrderingWellFounded, WFMin
  <2>3. s \in SUBSET S /\ F[s] # P[s]
    OBVIOUS
  <2>4. F[s] = IF s = {} THEN 0 ELSE LET x == CHOOSE y \in s : TRUE IN f[x] + F[s \ {x}]
    BY <1>4, <2>3
  <2>5. P[s] = IF s = {} THEN 0 ELSE LET x == CHOOSE y \in s : TRUE IN f[x] + P[s \ {x}]
    BY <1>3, <2>3
  <2>6. ASSUME NEW x \in s PROVE F[s \ {x}] = P[s \ {x}]
    <3>1. <<s \ {x}, s>> \in StrictSubsetOrdering(S)
      BY <2>3 DEF StrictSubsetOrdering
    <3>2. s \ {x} \in SUBSET S
      BY <2>3
    <3>3. QED
      BY <2>2, <3>1, <3>2
  <2>7. CASE s = {}
    BY <2>3, <2>4, <2>5, <2>7
  <2>8. CASE s # {}
    <3>1. PICK x \in s : x = CHOOSE y \in s : TRUE
      BY <2>8
    <3>2. F[s] = f[x] + F[s \ {x}] /\ P[s] = f[x] + P[s \ {x}]
      BY <2>4, <2>5, <2>8, <3>1
    <3>3. QED
      BY <2>3, <2>6, <3>2
  <2>9. QED
    BY <2>7, <2>8
<1>6. QED
  BY <1>2, <1>5

-----------------------------------------------------------------------------
(* The queries of the topology graph return what their names say. *)

\* Entering a port lands in known handlers.
LEMMA FlowEntriesType ==
  ASSUME NEW t \in Topology, NEW p \in InPort, NEW k \in SyncKind
  PROVE  FlowEntries(t, p, k) \subseteq Handler
BY DEF FlowEntries, CommandsOf, Handler

\* An input port runs under dispatch kinds only.
LEMMA InputSyncKindsType ==
  ASSUME NEW t \in Topology, NEW p \in InPort
  PROVE  InputSyncKinds(t, p) \subseteq SyncKind
<1>1. t.portKind \in [InPort -> SyncKind] /\ t.commandKind \in [Command -> SyncKind]
  BY DEF Topology
<1>2. ASSUME NEW c \in Command PROVE CommandSyncKind(t, c) \in SyncKind
  BY <1>1 DEF CommandSyncKind, SyncKind
<1>3. CommandSyncKinds(t, t.owner[p]) \subseteq SyncKind
  BY <1>2 DEF CommandSyncKinds, CommandsOf
<1>4. QED
  BY <1>1, <1>3 DEF InputSyncKinds

\* A hop reaches an input port under a dispatch kind.
LEMMA HopsType ==
  ASSUME NEW t \in Topology, NEW h \in Handler
  PROVE  /\ OutwardHops(t, h) \subseteq [port : InPort, kind : SyncKind]
         /\ ThreadHops(t, h) \subseteq [port : InPort, kind : SyncKind]
         /\ NextHandlers(t, h) \subseteq Handler
<1>1. t.wires \in [OutPort -> SUBSET InPort] /\ t.calls \in [Handler -> SUBSET OutPort]
  BY DEF Topology
<1>2. OutputsFor(t, h) \subseteq OutPort
  BY <1>1 DEF OutputsFor, OutputPorts
<1>3. Destinations(t, h) \subseteq InPort
  BY <1>1, <1>2 DEF Destinations
<1>4. OutwardHops(t, h) \subseteq [port : InPort, kind : SyncKind]
  BY <1>3, InputSyncKindsType DEF OutwardHops
<1>5. ThreadHops(t, h) \subseteq [port : InPort, kind : SyncKind]
  BY <1>4 DEF ThreadHops
<1>6. NextHandlers(t, h) \subseteq Handler
  BY <1>5, FlowEntriesType DEF NextHandlers
<1>7. QED
  BY <1>4, <1>5, <1>6

\* A seed names an origin, a port and a kind.
LEMMA OriginSeedsType ==
  ASSUME NEW t \in Topology
  PROVE  OriginSeeds(t) \subseteq Seed
<1>1. t.owner \in [Handler \cup OutPort -> Instance]
  BY DEF Topology
<1>2. ThreadSeeds(t) \subseteq Seed
  BY <1>1 DEF ThreadSeeds, Seed, Origin, SyncKind, Handler
<1>3. ExternalSeeds(t) \subseteq Seed
  BY InputSyncKindsType DEF ExternalSeeds, Seed, Origin
<1>4. QED
  BY <1>2, <1>3 DEF OriginSeeds

-----------------------------------------------------------------------------
(* ReachableFrom is the least closed superset. *)

\* A set of handlers reaches itself.
LEMMA ReachContains ==
  ASSUME NEW t \in Topology, NEW H \in SUBSET Handler
  PROVE  H \subseteq ReachableFrom(t, H) /\ ReachableFrom(t, H) \subseteq Handler
BY DEF ReachableFrom

\* What a reached handler calls is reached.
LEMMA ReachClosed ==
  ASSUME NEW t \in Topology, NEW H \in SUBSET Handler,
         NEW h \in ReachableFrom(t, H)
  PROVE  NextHandlers(t, h) \subseteq ReachableFrom(t, H)
<1>1. h \in Handler
  BY DEF ReachableFrom
<1>2. SUFFICES ASSUME NEW g \in NextHandlers(t, h),
                      NEW C \in SUBSET Handler,
                      H \subseteq C,
                      \A x \in C : NextHandlers(t, x) \subseteq C
               PROVE  g \in C
  BY <1>1, HopsType DEF ReachableFrom
<1>3. h \in C
  BY <1>2 DEF ReachableFrom
<1>4. QED
  BY <1>2, <1>3

\* Every closed superset covers what is reached.
LEMMA ReachLeast ==
  ASSUME NEW t \in Topology, NEW H \in SUBSET Handler, NEW C \in SUBSET Handler,
         H \subseteq C,
         \A x \in C : NextHandlers(t, x) \subseteq C
  PROVE  ReachableFrom(t, H) \subseteq C
BY DEF ReachableFrom

\* The ports an origin reaches are input ports, and it is among their threads;
\* a port has no other threads.
LEMMA ThreadsReachingDef ==
  ASSUME NEW t \in Topology
  PROVE  /\ \A s \in OriginSeeds(t) : PortsReached(t, s) \subseteq InPort
         /\ \A p \in InPort :
              ThreadsReaching(t)[p] =
                {s.label : s \in {x \in OriginSeeds(t) : p \in PortsReached(t, x)}}
<1>1. ASSUME NEW s \in OriginSeeds(t) PROVE PortsReached(t, s) \subseteq InPort
  <2>1. s \in Seed
    BY OriginSeedsType
  <2>2. ReachableFrom(t, SeedHandlers(t, s)) \subseteq Handler
    BY DEF ReachableFrom
  <2>3. QED
    BY <2>1, <2>2, HopsType DEF PortsReached, Seed
<1>2. ASSUME NEW p \in InPort
      PROVE  ThreadsReaching(t)[p] =
               {s.label : s \in {x \in OriginSeeds(t) : p \in PortsReached(t, x)}}
  BY Zenon DEF ThreadsReaching
<1>3. QED
  BY <1>1, <1>2

-----------------------------------------------------------------------------
(* Whose message a thread serves. *)

\* An origin reaches a port and the handlers behind it.
Serves(t, o, p, H) ==
  \E s \in OriginSeeds(t) :
    s.label = o /\ p \in PortsReached(t, s) /\ H \subseteq ReachableFrom(t, SeedHandlers(t, s))

\* An origin serves the port and the handlers it begins at.
LEMMA SeedServes ==
  ASSUME NEW t \in Topology, NEW s \in OriginSeeds(t)
  PROVE  Serves(t, s.label, s.port, SeedHandlers(t, s))
<1>1. SeedHandlers(t, s) \in SUBSET Handler
  BY OriginSeedsType, FlowEntriesType DEF Seed, SeedHandlers
<1>2. SeedHandlers(t, s) \subseteq ReachableFrom(t, SeedHandlers(t, s))
  BY <1>1, ReachContains
<1>3. s.port \in PortsReached(t, s)
  BY DEF PortsReached
<1>4. QED
  BY <1>2, <1>3 DEF Serves

\* It serves what a handler it serves calls.
LEMMA CallServes ==
  ASSUME NEW t \in Topology, NEW o, NEW p, NEW h \in Handler, Serves(t, o, p, {h}),
         NEW hop \in ThreadHops(t, h)
  PROVE  Serves(t, o, hop.port, FlowEntries(t, hop.port, hop.kind))
<1>1. PICK s \in OriginSeeds(t) : s.label = o /\ h \in ReachableFrom(t, SeedHandlers(t, s))
  BY DEF Serves
<1>2. SeedHandlers(t, s) \in SUBSET Handler
  BY OriginSeedsType, FlowEntriesType DEF Seed, SeedHandlers
<1>3. NextHandlers(t, h) \subseteq ReachableFrom(t, SeedHandlers(t, s))
  BY <1>1, <1>2, ReachClosed
<1>4. FlowEntries(t, hop.port, hop.kind) \subseteq NextHandlers(t, h)
  BY DEF NextHandlers
<1>5. hop.port \in PortsReached(t, s)
  BY <1>1 DEF PortsReached
<1>6. QED
  BY <1>1, <1>3, <1>4, <1>5 DEF Serves

\* An origin that serves a port is among its labels.
LEMMA ServesLabel ==
  ASSUME NEW t \in Topology, NEW o, NEW p \in InPort, NEW H, Serves(t, o, p, H)
  PROVE  o \in ThreadsAt(t)[p]
<1>1. o \in ThreadsReaching(t)[p]
  BY ThreadsReachingDef DEF Serves
<1>2. QED
  BY <1>1 DEF ThreadsAt

-----------------------------------------------------------------------------
(* Closure computes the least closed superset. *)

\* The least superset of S that no element's successors lead out of.
LeastClosed(next, S) ==
  {x \in DOMAIN next :
     \A C \in SUBSET DOMAIN next : S \subseteq C /\ (\A y \in C : next[y] \subseteq C) => x \in C}

\* Adding successors until none is new gives the least closed superset, over a
\* finite set: the sets that do not are well-founded by what they leave out.
LEMMA ClosureIsLeast ==
  ASSUME NEW X, IsFiniteSet(X), NEW next \in [X -> SUBSET X], NEW S \in SUBSET X
  PROVE  Closure(next, S) = LeastClosed(next, S)
<1> DEFINE More(T) == UNION {next[x] : x \in T}
           G(f) == [T \in SUBSET X |-> IF More(T) \subseteq T THEN T ELSE f[T \cup More(T)]]
           R == CHOOSE f : f = G(f)
           L == [T \in SUBSET X |-> LeastClosed(next, T)]
<1>1. DOMAIN next = X /\ \A T \in SUBSET X : More(T) \in SUBSET X
  OBVIOUS
<1>2. Closure(next, S) = R[S]
  BY <1>1 DEF Closure
<1>3. \A T \in SUBSET X : L[T] = IF More(T) \subseteq T THEN T ELSE L[T \cup More(T)]
  <2> SUFFICES ASSUME NEW T \in SUBSET X
               PROVE  L[T] = IF More(T) \subseteq T THEN T ELSE L[T \cup More(T)]
    OBVIOUS
  <2>1. CASE More(T) \subseteq T
    <3>1. \A y \in T : next[y] \subseteq T
      BY <2>1
    <3>2. LeastClosed(next, T) = T
      BY <3>1, <1>1 DEF LeastClosed
    <3>3. QED
      BY <2>1, <3>2
  <2>2. CASE ~(More(T) \subseteq T)
    <3>1. ASSUME NEW C \in SUBSET X, \A y \in C : next[y] \subseteq C
          PROVE  T \subseteq C <=> T \cup More(T) \subseteq C
      BY <3>1
    <3>2. LeastClosed(next, T) = LeastClosed(next, T \cup More(T))
      BY <3>1, <1>1 DEF LeastClosed
    <3>3. QED
      BY <2>2, <3>2, <1>1
  <2>3. QED
    BY <2>1, <2>2
<1>4. L = G(L)
  BY <1>3
<1>5. R = G(R)
  BY <1>4
<1>6. ASSUME NEW T0 \in SUBSET X, R[T0] # L[T0] PROVE FALSE
  <2> DEFINE Bad == {X \ T : T \in {U \in SUBSET X : R[U] # L[U]}}
  <2>1. X \ T0 \in Bad
    BY <1>6
  <2>2. Bad \subseteq FiniteSubsetsOf(X)
    BY FS_Subset DEF FiniteSubsetsOf
  <2>3. PICK W \in Bad : \A V \in Bad : <<V, W>> \notin StrictSubsetOrdering(X)
    BY ONLY <2>1, <2>2, FS_StrictSubsetOrderingWellFounded, WFMin
  <2>4. PICK T \in SUBSET X : W = X \ T /\ R[T] # L[T]
    OBVIOUS
  <2>5. ~(More(T) \subseteq T) /\ R[T] = R[T \cup More(T)] /\ L[T] = L[T \cup More(T)]
    BY <1>3, <1>5, <2>4
  <2> DEFINE U == T \cup More(T)
  <2>6. U \in SUBSET X /\ X \ U \in Bad
    <3>1. U \in SUBSET X
      BY <1>1
    <3>2. R[U] # L[U]
      BY <2>4, <2>5
    <3>3. QED
      BY <3>1, <3>2
  <2>7. <<X \ U, X \ T>> \in StrictSubsetOrdering(X)
    BY <1>1, <2>5, <2>6 DEF StrictSubsetOrdering
  <2>8. QED
    BY <2>3, <2>4, <2>6, <2>7
<1>7. QED
  BY <1>2, <1>6

\* So a closure is over the set, contains what it starts from, is closed, and is
\* within every closed superset.
LEMMA ClosureFacts ==
  ASSUME NEW X, IsFiniteSet(X), NEW next \in [X -> SUBSET X], NEW S \in SUBSET X
  PROVE  /\ Closure(next, S) \subseteq X
         /\ S \subseteq Closure(next, S)
         /\ \A x \in Closure(next, S) : next[x] \subseteq Closure(next, S)
         /\ \A C \in SUBSET X :
              S \subseteq C /\ (\A y \in C : next[y] \subseteq C) => Closure(next, S) \subseteq C
<1>1. Closure(next, S) = LeastClosed(next, S) /\ DOMAIN next = X
  BY ClosureIsLeast
<1>2. ASSUME NEW x \in LeastClosed(next, S) PROVE next[x] \subseteq LeastClosed(next, S)
  BY <1>1 DEF LeastClosed
<1>3. QED
  BY <1>1, <1>2 DEF LeastClosed

-----------------------------------------------------------------------------
(* Running deployments. *)

Calls == [port : InPort, handler : Handler, locks : SUBSET Instance, origin : Origin]

-----------------------------------------------------------------------------
(* The inductive invariant. *)

\* A port is entered under one of its kinds, with its mutex if that is guarded.
Entered(c, kind) ==
  /\ kind \in InputSyncKinds(topo, c.port)
  /\ c.handler \in FlowEntries(topo, c.port, kind)
  /\ c.locks = IF kind = "guarded" THEN {topo.owner[c.port]} ELSE {}

\* A thread begins with a message of its own, or is the caller outside.
Begins(th, c) ==
  /\ c.origin = th
  /\ \/ th = <<"thread", topo.owner[c.port]>> /\ Entered(c, "async")
     \/ th = <<"external", c.port>> /\ \E kind \in SyncKind \ {"async"} : Entered(c, kind)

\* A call goes on from the one below it: it was made by its handler, for the same
\* origin, or it drains the queue of the instance whose handler that is.
Continues(b, c) ==
  \/ \E hop \in ThreadHops(topo, b.handler) :
       hop.port = c.port /\ Entered(c, hop.kind) /\ c.origin = b.origin
  \/ /\ Entered(c, "async") /\ c.origin = <<"thread", topo.owner[c.port]>>
     /\ topo.component[topo.owner[c.port]] = "queued"
     /\ topo.owner[c.port] = topo.owner[b.port] /\ "async" \notin InputSyncKinds(topo, b.port)

\* The calls in progress on a thread.
WellCalled(th) ==
  /\ Len(stack[th]) <= MaxStack
  /\ Len(stack[th]) > 0 => Begins(th, stack[th][1])
  /\ \A k \in 1..(Len(stack[th]) - 1) : Continues(stack[th][k], stack[th][k + 1])
  /\ \A k \in 1..Len(stack[th]) : \A j \in 1..(k - 1) :
       stack[th][j].locks \cap stack[th][k].locks = {}
  /\ \A k \in 1..Len(stack[th]) :
       /\ Serves(topo, stack[th][k].origin, stack[th][k].port, {stack[th][k].handler})
       /\ NoQueued => stack[th][k].origin = th

\* What a thread waits for: one guarded port, called by the handler that runs, or
\* by the caller outside.
WellWanted(th) ==
  \A p \in wants[th] :
    /\ wants[th] = {p} /\ Len(stack[th]) < MaxStack
    /\ "guarded" \in InputSyncKinds(topo, p)
    /\ Serves(topo, Serving(th), p, FlowEntries(topo, p, "guarded"))
    /\ IF Len(stack[th]) = 0 THEN th = <<"external", p>>
       ELSE [port |-> p, kind |-> "guarded"] \in ThreadHops(topo, Running(th).handler)

\* A mutex has one holder.
Exclusive == \A th, u \in Threads : th # u => Held(th) \cap Held(u) = {}

RtType == stack \in [Origin -> Seq(Calls)] /\ wants \in [Origin -> SUBSET InPort]

RtInv ==
  /\ RtType /\ Exclusive
  /\ \A th \in Origin : WellCalled(th) /\ WellWanted(th)

-----------------------------------------------------------------------------
\* Threads are origins.
LEMMA ThreadsAreOrigins == Threads \subseteq Origin
BY DEF Threads, ActiveThreads, OutsideThreads, Origin

\* A deployment begins with no thread running.
LEMMA RuntimeBegins ==
  ASSUME MaxStack \in Nat, RtInit
  PROVE  RtInv
<1>1. \A th \in Origin : stack[th] = <<>> /\ wants[th] = {} /\ Len(stack[th]) = 0
  BY DEF RtInit
<1>2. RtType
  <2>1. <<>> \in Seq(Calls)
    OBVIOUS
  <2>2. QED
    BY <2>1 DEF RtInit, RtType
<1>3. \A th \in Origin : Held(th) = {}
  <2>1. 1..0 = {}
    OBVIOUS
  <2>2. QED
    BY <1>1, <2>1 DEF Held
<1>4. Exclusive
  BY <1>3, ThreadsAreOrigins DEF Exclusive
<1>5. ASSUME NEW th \in Origin PROVE WellCalled(th) /\ WellWanted(th)
  <2>1. 0 <= MaxStack /\ ~(0 > 0) /\ 1..0 = {} /\ 1..(0 - 1) = {}
    OBVIOUS
  <2>2. QED
    BY <1>1, <2>1 DEF WellCalled, WellWanted
<1>6. QED
  BY <1>2, <1>4, <1>5 DEF RtInv

\* Threads, and what calls may follow which, are told by the topology.
LEMMA SameTopology ==
  ASSUME UNCHANGED topo
  PROVE  /\ Threads' = Threads
         /\ \A a, b : Continues(a, b)' <=> Continues(a, b)
         /\ \A a, b : Begins(a, b)' <=> Begins(a, b)
         /\ NoQueued' <=> NoQueued
<1>1. Threads' = Threads
  BY DEF Threads, ActiveThreads, OutsideThreads
<1>2. \A a, b : (Continues(a, b)' <=> Continues(a, b)) /\ (Begins(a, b)' <=> Begins(a, b))
  BY DEF Continues, Begins, Entered
<1>3. QED
  BY <1>1, <1>2 DEF NoQueued

\* A step that leaves a thread alone keeps what holds of it.
LEMMA OthersKept ==
  ASSUME UNCHANGED topo, RtInv, NEW u \in Origin, stack'[u] = stack[u], wants'[u] = wants[u]
  PROVE  WellCalled(u)' /\ WellWanted(u)' /\ Held(u)' = Held(u)
<1>1. Serving(u)' = Serving(u) /\ Running(u)' = Running(u) /\ Held(u)' = Held(u)
  BY DEF Serving, Running, Depth, Held
<1>2. WellCalled(u) /\ WellWanted(u)
  BY DEF RtInv
<1>3. WellCalled(u)'
  BY <1>2, SameTopology DEF WellCalled
<1>4. WellWanted(u)'
  BY <1>1, <1>2 DEF WellWanted
<1>5. QED
  BY <1>1, <1>3, <1>4

\* Nothing changes while the threads stay as they are.
LEMMA RuntimeStays ==
  ASSUME UNCHANGED topo, RtInv, UNCHANGED <<stack, wants>>
  PROVE  RtInv'
<1>1. \A u \in Origin : WellCalled(u)' /\ WellWanted(u)' /\ Held(u)' = Held(u)
  BY OthersKept
<1>2. Exclusive'
  BY <1>1, SameTopology, ThreadsAreOrigins DEF RtInv, Exclusive
<1>3. RtType'
  BY DEF RtInv, RtType
<1>4. QED
  BY <1>1, <1>2, <1>3 DEF RtInv

\* What a thread runs and serves.
LEMMA TopCall ==
  ASSUME RtInv, NEW th \in Origin
  PROVE  /\ stack[th] \in Seq(Calls) /\ Len(stack[th]) \in Nat
         /\ \A k \in 1..Len(stack[th]) : stack[th][k] \in Calls
         /\ Serving(th) \in Origin
         /\ NoQueued => Serving(th) = th
         /\ Len(stack[th]) = 0 => Serving(th) = th
         /\ Len(stack[th]) > 0 =>
              /\ Len(stack[th]) \in 1..Len(stack[th])
              /\ Running(th) = stack[th][Len(stack[th])] /\ Running(th) \in Calls
              /\ Serving(th) = Running(th).origin
              /\ Serves(topo, Running(th).origin, Running(th).port, {Running(th).handler})
<1>1. stack[th] \in Seq(Calls) /\ Len(stack[th]) \in Nat
  BY DEF RtInv, RtType
<1>2. \A k \in 1..Len(stack[th]) : stack[th][k] \in Calls
  BY <1>1
<1>3. CASE Len(stack[th]) = 0
  BY <1>1, <1>2, <1>3 DEF Serving, Depth
<1>4. CASE Len(stack[th]) # 0
  <2>1. Len(stack[th]) > 0 /\ Len(stack[th]) \in 1..Len(stack[th])
    BY <1>1, <1>4
  <2>2. Running(th) = stack[th][Len(stack[th])] /\ Serving(th) = Running(th).origin
    BY <1>4 DEF Running, Serving, Depth
  <2>3. Running(th) \in Calls /\ Serving(th) \in Origin
    BY <1>2, <2>1, <2>2 DEF Calls
  <2>4. WellCalled(th)
    BY DEF RtInv
  <2>5. /\ Serves(topo, Running(th).origin, Running(th).port, {Running(th).handler})
        /\ NoQueued => Serving(th) = th
    BY <2>1, <2>2, <2>4 DEF WellCalled
  <2>6. QED
    BY <1>1, <1>2, <1>4, <2>1, <2>2, <2>3, <2>5
<1>5. QED
  BY <1>3, <1>4

\* A thread that waits for nothing takes up a call that may follow what it does.
LEMMA CallPushed ==
  ASSUME MaxStack \in Nat, topo \in Topology, UNCHANGED topo, RtInv, NEW th \in Origin,
         NEW c \in Calls, Push(th, c), wants' = [wants EXCEPT ![th] = {}],
         Len(stack[th]) < MaxStack,
         Len(stack[th]) = 0 => Begins(th, c),
         Len(stack[th]) > 0 => Continues(Running(th), c),
         Serves(topo, c.origin, c.port, {c.handler}),
         NoQueued => c.origin = th,
         \A u \in Threads \cup {th} : c.locks \cap Held(u) = {}
  PROVE  RtInv'
<1>1. /\ stack' = [stack EXCEPT ![th] = Append(stack[th], c)] /\ stack[th] \in Seq(Calls)
      /\ stack \in [Origin -> Seq(Calls)] /\ wants \in [Origin -> SUBSET InPort]
  BY DEF Push, RtInv, RtType
<1>2. PICK s, m, r : /\ s = stack[th] /\ m = Len(s) /\ r = Append(s, c)
  OBVIOUS
<1>3. /\ m \in Nat /\ r \in Seq(Calls) /\ Len(r) = m + 1 /\ r[m + 1] = c
      /\ \A k \in 1..m : r[k] = s[k]
  BY <1>1, <1>2
<1>4. /\ stack'[th] = r /\ wants'[th] = {}
      /\ \A u \in Origin : u # th => stack'[u] = stack[u] /\ wants'[u] = wants[u]
  BY <1>1, <1>2
<1>5. RtType'
  BY <1>1, <1>2, <1>3 DEF RtType
<1>6. /\ \A a, b : Continues(a, b)' <=> Continues(a, b)
      /\ \A a, b : Begins(a, b)' <=> Begins(a, b)
      /\ NoQueued' <=> NoQueued
  BY SameTopology
<1>7. WellCalled(th)'
  <2>1. WellCalled(th)
    BY DEF RtInv
  <2>2. m + 1 <= MaxStack /\ m + 1 > 0 /\ (m + 1) - 1 = m
    BY <1>2, <1>3
  <2>3. Begins(th, r[1])
    <3>1. CASE m = 0
      BY <1>2, <1>3, <3>1
    <3>2. CASE m # 0
      <4>1. m > 0 /\ 1 \in 1..m
        BY <1>3, <3>2
      <4>2. QED
        BY <1>2, <1>3, <2>1, <4>1 DEF WellCalled
    <3>3. QED
      BY <3>1, <3>2
  <2>4. ASSUME NEW k \in 1..m PROVE Continues(r[k], r[k + 1])
    <3>1. CASE k = m
      <4>1. m > 0 /\ r[m] = s[m]
        BY <1>3, <3>1
      <4>0. Running(th) = s[m]
        BY <1>2, <4>1, TopCall
      <4>2. QED
        BY <1>2, <1>3, <3>1, <4>0, <4>1
    <3>2. CASE k # m
      <4>1. k \in 1..(m - 1) /\ k + 1 \in 1..m
        BY <1>3, <3>2
      <4>2. Continues(s[k], s[k + 1])
        BY <1>2, <2>1, <4>1 DEF WellCalled
      <4>3. QED
        BY <1>3, <4>1, <4>2
    <3>3. QED
      BY <3>1, <3>2
  <2>5. ASSUME NEW k \in 1..(m + 1)
        PROVE  Serves(topo, r[k].origin, r[k].port, {r[k].handler}) /\ (NoQueued => r[k].origin = th)
    <3>1. CASE k \in 1..m
      BY <1>2, <1>3, <2>1, <3>1 DEF WellCalled
    <3>2. CASE k = m + 1
      BY <1>3, <3>2
    <3>3. QED
      BY <1>3, <3>1, <3>2
  <2>0. ASSUME NEW k \in 1..(m + 1), NEW j \in 1..(k - 1) PROVE r[j].locks \cap r[k].locks = {}
    <3>1. j \in 1..m /\ r[j] = s[j]
      BY <1>3
    <3>2. CASE k \in 1..m
      BY <1>2, <1>3, <2>1, <3>1, <3>2 DEF WellCalled
    <3>3. CASE k = m + 1
      <4>1. s[j].locks \subseteq Held(th)
        BY <1>2, <3>1 DEF Held
      <4>2. c.locks \cap Held(th) = {}
        OBVIOUS
      <4>3. QED
        BY <1>3, <3>1, <3>3, <4>1, <4>2
    <3>4. QED
      BY <1>3, <3>2, <3>3
  <2>6. /\ Len(r) <= MaxStack
        /\ \A k \in 1..Len(r) : \A j \in 1..(k - 1) : r[j].locks \cap r[k].locks = {}
        /\ Len(r) > 0 => Begins(th, r[1])'
        /\ \A k \in 1..(Len(r) - 1) : Continues(r[k], r[k + 1])'
    BY <1>3, <1>6, <2>0, <2>2, <2>3, <2>4
  <2>7. \A k \in 1..Len(r) :
          Serves(topo', r[k].origin, r[k].port, {r[k].handler}) /\ (NoQueued' => r[k].origin = th)
    BY <1>3, <1>6, <2>5
  <2>8. QED
    BY <1>4, <2>6, <2>7 DEF WellCalled
<1>8. WellWanted(th)'
  BY <1>4 DEF WellWanted
<1>9. Held(th)' = Held(th) \cup c.locks
  <2>1. 1..(m + 1) = (1..m) \cup {m + 1}
    BY <1>3
  <2>2. Held(th)' = UNION {r[k].locks : k \in 1..(m + 1)} /\ Held(th) = UNION {s[k].locks : k \in 1..m}
    BY <1>2, <1>3, <1>4 DEF Held
  <2>3. QED
    BY <1>3, <2>1, <2>2
<1>10. \A u \in Origin \ {th} : WellCalled(u)' /\ WellWanted(u)' /\ Held(u)' = Held(u)
  BY <1>4, OthersKept
<1>11. Exclusive'
  <2>1. Threads' = Threads
    BY SameTopology
  <2>2. ASSUME NEW t \in Threads, NEW u \in Threads, t # u PROVE Held(t)' \cap Held(u)' = {}
    <3>1. t \in Origin /\ u \in Origin /\ Held(t) \cap Held(u) = {}
      BY <2>2, ThreadsAreOrigins DEF RtInv, Exclusive
    <3>2. CASE t = th
      BY <1>9, <1>10, <2>2, <3>1, <3>2
    <3>3. CASE u = th
      BY <1>9, <1>10, <2>2, <3>1, <3>3
    <3>4. CASE t # th /\ u # th
      BY <1>10, <3>1, <3>4
    <3>5. QED
      BY <3>2, <3>3, <3>4
  <2>3. QED
    BY <2>1, <2>2 DEF Exclusive
<1>12. QED
  BY <1>5, <1>7, <1>8, <1>10, <1>11 DEF RtInv

\* A thread that waits for nothing asks for a guarded port.
LEMMA PortAsked ==
  ASSUME MaxStack \in Nat, topo \in Topology, UNCHANGED topo, RtInv, NEW th \in Origin,
         NEW p \in InPort, UNCHANGED stack, wants' = [wants EXCEPT ![th] = {p}],
         Len(stack[th]) < MaxStack, "guarded" \in InputSyncKinds(topo, p),
         Serves(topo, Serving(th), p, FlowEntries(topo, p, "guarded")),
         IF Len(stack[th]) = 0 THEN th = <<"external", p>>
         ELSE [port |-> p, kind |-> "guarded"] \in ThreadHops(topo, Running(th).handler)
  PROVE  RtInv'
<1>1. /\ wants \in [Origin -> SUBSET InPort] /\ wants'[th] = {p}
      /\ \A u \in Origin : u # th => wants'[u] = wants[u]
  BY DEF RtInv, RtType
<1>2. RtType'
  BY <1>1 DEF RtInv, RtType
<1>3. \A u \in Origin \ {th} : WellCalled(u)' /\ WellWanted(u)'
  BY <1>1, OthersKept
<1>4. \A u \in Origin : Held(u)' = Held(u)
  BY DEF Held
<1>5. Exclusive'
  BY <1>4, SameTopology, ThreadsAreOrigins DEF RtInv, Exclusive
<1>6. WellCalled(th)'
  BY SameTopology DEF RtInv, WellCalled
<1>7. Serving(th)' = Serving(th) /\ Running(th)' = Running(th)
  BY DEF Serving, Running, Depth
<1>8. WellWanted(th)'
  BY <1>1, <1>7 DEF WellWanted
<1>9. QED
  BY <1>2, <1>3, <1>5, <1>6, <1>8 DEF RtInv

\* A thread calls a port under a kind that stays on it.
LEMMA PortCalled ==
  ASSUME MaxStack \in Nat, topo \in Topology, UNCHANGED topo, RtInv, NEW th \in Origin,
         NEW p \in InPort, NEW kind \in SyncKind \ {"async"}, CallPort(th, p, kind), Ready(th),
         kind \in InputSyncKinds(topo, p),
         Serves(topo, Serving(th), p, FlowEntries(topo, p, kind)),
         IF Len(stack[th]) = 0 THEN th = <<"external", p>>
         ELSE [port |-> p, kind |-> kind] \in ThreadHops(topo, Running(th).handler)
  PROVE  RtInv'
<1>0. wants[th] = {} /\ Len(stack[th]) < MaxStack
  BY DEF Ready, Depth
<1>1. CASE kind = "guarded"
  <2>1. wants' = [wants EXCEPT ![th] = {p}] /\ UNCHANGED stack
    BY <1>1 DEF CallPort
  <2>2. QED
    BY <1>0, <1>1, <2>1, PortAsked
<1>2. CASE kind # "guarded"
  <2>1. UNCHANGED wants
    BY <1>2 DEF CallPort
  <2>2. PICK h \in FlowEntries(topo, p, kind) : Push(th, Call(p, h, {}, Serving(th)))
    BY <1>2 DEF CallPort
  <2>3. PICK c : c = Call(p, h, {}, Serving(th))
    OBVIOUS
  <2>4. /\ c \in Calls /\ c.port = p /\ c.handler = h /\ c.locks = {} /\ c.origin = Serving(th)
    BY <2>3, TopCall, FlowEntriesType DEF Call, Calls
  <2>5. wants' = [wants EXCEPT ![th] = {}]
    BY <1>0, <2>1 DEF RtInv, RtType
  <2>6. Serves(topo, c.origin, c.port, {c.handler})
    BY <2>4 DEF Serves
  <2>7. Entered(c, kind)
    BY <1>2, <2>4 DEF Entered
  <2>8. Len(stack[th]) = 0 => Begins(th, c)
    BY <2>4, <2>7, TopCall DEF Begins
  <2>9. ASSUME Len(stack[th]) > 0 PROVE Continues(Running(th), c)
    <3>1. [port |-> p, kind |-> kind] \in ThreadHops(topo, Running(th).handler)
      BY <2>9
    <3>2. c.origin = Running(th).origin
      BY <2>4, <2>9, TopCall
    <3>3. PICK hop \in ThreadHops(topo, Running(th).handler) : hop.port = p /\ hop.kind = kind
      BY <3>1
    <3>4. QED
      BY <2>4, <2>7, <3>2, <3>3 DEF Continues
  <2>10. NoQueued => c.origin = th
    BY <2>4, TopCall
  <2>11. QED
    BY <1>0, <2>2, <2>3, <2>4, <2>5, <2>6, <2>8, <2>9, <2>10, CallPushed
<1>3. QED
  BY <1>1, <1>2

\* An active instance takes a message: an origin begins.
LEMMA DispatchKeeps ==
  ASSUME MaxStack \in Nat, topo \in Topology, UNCHANGED topo, RtInv,
         NEW i \in Instance, NEW p \in InPort, Dispatch(i, p)
  PROVE  RtInv'
<1>1. PICK th, s : th = <<"thread", i>> /\ s = [label |-> th, port |-> p, kind |-> "async"]
  OBVIOUS
<1>2. /\ topo.component[i] = "active" /\ wants[th] = {} /\ Len(stack[th]) = 0 /\ UNCHANGED wants
      /\ topo.owner[p] = i /\ "async" \in InputSyncKinds(topo, p) /\ Len(stack[th]) < MaxStack
  BY <1>1 DEF Dispatch, Ready, Depth
<1>3. PICK h \in FlowEntries(topo, p, "async") : Push(th, Call(p, h, {}, th))
  BY <1>1 DEF Dispatch
<1>4. th \in Origin /\ s \in OriginSeeds(topo) /\ s.label = th /\ s.port = p /\ s.kind = "async"
  BY <1>1, <1>2 DEF Origin, OriginSeeds, ThreadSeeds, IsOwnThread
<1>5. Serves(topo, th, p, FlowEntries(topo, p, "async"))
  BY <1>4, SeedServes DEF SeedHandlers
<1>6. PICK c : c = Call(p, h, {}, th)
  OBVIOUS
<1>7. c \in Calls /\ c.port = p /\ c.handler = h /\ c.locks = {} /\ c.origin = th
  BY <1>4, <1>6, FlowEntriesType DEF Call, Calls, SyncKind
<1>8. Serves(topo, c.origin, c.port, {c.handler})
  BY <1>5, <1>7 DEF Serves
<1>9. Begins(th, c) /\ wants' = [wants EXCEPT ![th] = {}]
  BY <1>1, <1>2, <1>4, <1>7 DEF Begins, Entered, RtInv, RtType
<1>10. ~(Len(stack[th]) > 0)
  BY <1>2
<1>11. QED
  BY <1>2, <1>3, <1>4, <1>6, <1>7, <1>8, <1>9, <1>10, CallPushed

\* Code outside calls an undriven input: an origin begins.
LEMMA OutsideKeeps ==
  ASSUME MaxStack \in Nat, topo \in Topology, UNCHANGED topo, RtInv,
         NEW p \in InPort, NEW kind \in SyncKind, CallFromOutside(p, kind)
  PROVE  RtInv'
<1>1. PICK th, s : th = <<"external", p>> /\ s = [label |-> th, port |-> p, kind |-> kind]
  OBVIOUS
<1>2. /\ Ready(th) /\ Len(stack[th]) = 0 /\ th \in OutsideThreads
      /\ kind \in InputSyncKinds(topo, p) /\ kind \in SyncKind \ {"async"} /\ CallPort(th, p, kind)
  BY <1>1 DEF CallFromOutside, Depth
<1>3. p \in InPort \ ConnectedInputs(topo)
  BY <1>1, <1>2 DEF OutsideThreads
<1>4. th \in Origin /\ s \in OriginSeeds(topo) /\ s.label = th /\ s.port = p /\ s.kind = kind
  BY <1>1, <1>2, <1>3 DEF Origin, OriginSeeds, ExternalSeeds
<1>5. Serves(topo, th, p, FlowEntries(topo, p, kind))
  BY <1>4, SeedServes DEF SeedHandlers
<1>6. Serving(th) = th
  BY <1>2 DEF Serving, Depth
<1>7. QED
  BY <1>1, <1>2, <1>4, <1>5, <1>6, PortCalled

\* A handler calls a port.
LEMMA HandlerKeeps ==
  ASSUME MaxStack \in Nat, topo \in Topology, UNCHANGED topo, RtInv,
         NEW th \in Origin, CallFromHandler(th)
  PROVE  RtInv'
<1>1. Ready(th) /\ Len(stack[th]) > 0 /\ Len(stack[th]) # 0
  BY DEF CallFromHandler, Depth
<1>2. PICK hop \in ThreadHops(topo, Running(th).handler) : CallPort(th, hop.port, hop.kind)
  BY DEF CallFromHandler
<1>3. /\ Running(th).handler \in Handler /\ Serving(th) = Running(th).origin
      /\ Serves(topo, Serving(th), Running(th).port, {Running(th).handler})
  BY <1>1, TopCall DEF Calls
<1>4. Serves(topo, Serving(th), hop.port, FlowEntries(topo, hop.port, hop.kind))
  BY <1>3, CallServes
<1>5. /\ hop \in [port : InPort, kind : SyncKind] /\ hop.kind # "async"
      /\ hop.kind \in InputSyncKinds(topo, hop.port)
  <2>1. /\ hop \in [port : InPort, kind : SyncKind] /\ hop.kind # "async"
        /\ hop \in OutwardHops(topo, Running(th).handler)
    BY <1>3, HopsType DEF ThreadHops
  <2>2. QED
    BY <2>1 DEF OutwardHops
<1>6. hop = [port |-> hop.port, kind |-> hop.kind]
  BY <1>5
<1>7. QED
  BY <1>1, <1>2, <1>4, <1>5, <1>6, PortCalled

\* The mutex a thread asks for is free: the guarded handler runs.
LEMMA AcquireKeeps ==
  ASSUME MaxStack \in Nat, topo \in Topology, UNCHANGED topo, RtInv, NEW th \in Threads, Acquire(th)
  PROVE  RtInv'
<1>1. th \in Origin
  BY ThreadsAreOrigins
<1>2. PICK p \in wants[th] : \E h \in FlowEntries(topo, p, "guarded") :
        /\ \A u \in Threads : topo.owner[p] \notin Held(u)
        /\ Push(th, Call(p, h, {topo.owner[p]}, Serving(th)))
        /\ wants' = [wants EXCEPT ![th] = {}]
  BY DEF Acquire
<1>3. PICK h \in FlowEntries(topo, p, "guarded") :
        /\ \A u \in Threads : topo.owner[p] \notin Held(u)
        /\ Push(th, Call(p, h, {topo.owner[p]}, Serving(th)))
        /\ wants' = [wants EXCEPT ![th] = {}]
  BY <1>2
<1>4. p \in InPort /\ h \in Handler /\ topo.owner[p] \in Instance
  <2>1. p \in InPort
    BY <1>1 DEF RtInv, RtType
  <2>2. h \in Handler
    BY <2>1, FlowEntriesType DEF SyncKind
  <2>3. topo.owner \in [Handler \cup OutPort -> Instance]
    BY DEF Topology
  <2>4. QED
    BY <2>1, <2>2, <2>3 DEF Handler
<1>5. /\ Len(stack[th]) < MaxStack /\ "guarded" \in InputSyncKinds(topo, p)
      /\ Serves(topo, Serving(th), p, FlowEntries(topo, p, "guarded"))
      /\ IF Len(stack[th]) = 0 THEN th = <<"external", p>>
         ELSE [port |-> p, kind |-> "guarded"] \in ThreadHops(topo, Running(th).handler)
  BY <1>1 DEF RtInv, WellWanted
<1>6. PICK c : c = Call(p, h, {topo.owner[p]}, Serving(th))
  OBVIOUS
<1>7. /\ c \in Calls /\ c.port = p /\ c.handler = h /\ c.locks = {topo.owner[p]}
      /\ c.origin = Serving(th)
  BY <1>1, <1>4, <1>6, TopCall DEF Call, Calls
<1>8. Serves(topo, c.origin, c.port, {c.handler})
  BY <1>5, <1>7 DEF Serves
<1>9. Entered(c, "guarded")
  BY <1>5, <1>7 DEF Entered
<1>10. Len(stack[th]) = 0 => Begins(th, c)
  BY <1>1, <1>5, <1>7, <1>9, TopCall DEF Begins, SyncKind
<1>11. ASSUME Len(stack[th]) > 0 PROVE Continues(Running(th), c)
  <2>0. Len(stack[th]) # 0 /\ Serving(th) = Running(th).origin
    <3>1. Len(stack[th]) \in Nat /\ Serving(th) = Running(th).origin
      BY <1>1, <1>11, TopCall
    <3>2. QED
      BY <1>11, <3>1
  <2>1. Len(stack[th]) # 0 /\ c.origin = Running(th).origin
    BY <1>7, <2>0
  <2>2. PICK hop \in ThreadHops(topo, Running(th).handler) : hop.port = p /\ hop.kind = "guarded"
    BY <1>5, <2>1
  <2>3. QED
    BY <1>7, <1>9, <2>1, <2>2 DEF Continues
<1>12. NoQueued => c.origin = th
  BY <1>1, <1>7, TopCall
<1>13. \A u \in Threads \cup {th} : c.locks \cap Held(u) = {}
  BY <1>3, <1>7
<1>14. QED
  BY <1>1, <1>3, <1>5, <1>6, <1>7, <1>8, <1>10, <1>11, <1>12, <1>13, CallPushed

\* A queued instance is drained: its own origin begins, on the caller's thread.
LEMMA DrainKeeps ==
  ASSUME MaxStack \in Nat, topo \in Topology, UNCHANGED topo, RtInv,
         NEW th \in Origin, NEW p \in InPort, Drain(th, p)
  PROVE  RtInv'
<1>1. PICK i, o, s : /\ i = topo.owner[p] /\ o = <<"thread", i>>
                     /\ s = [label |-> o, port |-> p, kind |-> "async"]
  OBVIOUS
<1>2. /\ topo.component[i] = "queued" /\ wants[th] = {} /\ UNCHANGED wants
      /\ "async" \in InputSyncKinds(topo, p) /\ i \in Instance
      /\ Len(stack[th]) < MaxStack /\ Len(stack[th]) > 0
  <2>1. topo.owner \in [Handler \cup OutPort -> Instance]
    BY DEF Topology
  <2>2. QED
    BY <1>1, <2>1 DEF Drain, Ready, Depth, Handler
<1>3. PICK h \in FlowEntries(topo, p, "async") : Push(th, Call(p, h, {}, o))
  BY <1>1 DEF Drain
<1>4. o \in Origin /\ s \in OriginSeeds(topo) /\ s.label = o /\ s.port = p /\ s.kind = "async"
  BY <1>1, <1>2 DEF Origin, OriginSeeds, ThreadSeeds, IsOwnThread
<1>5. Serves(topo, o, p, FlowEntries(topo, p, "async"))
  BY <1>4, SeedServes DEF SeedHandlers
<1>6. PICK c : c = Call(p, h, {}, o)
  OBVIOUS
<1>7. c \in Calls /\ c.port = p /\ c.handler = h /\ c.locks = {} /\ c.origin = o
  BY <1>4, <1>6, FlowEntriesType DEF Call, Calls, SyncKind
<1>8. Serves(topo, c.origin, c.port, {c.handler})
  BY <1>5, <1>7 DEF Serves
<1>9. Continues(Running(th), c) /\ wants' = [wants EXCEPT ![th] = {}] /\ ~NoQueued
  <2>1. topo.owner[p] = topo.owner[Running(th).port] /\ "async" \notin InputSyncKinds(topo, Running(th).port)
    BY DEF Drain
  <2>2. Continues(Running(th), c)
    BY <1>1, <1>2, <1>3, <1>7, <2>1 DEF Continues, Entered
  <2>3. QED
    BY <1>2, <2>2 DEF NoQueued, RtInv, RtType
<1>10. Len(stack[th]) # 0
  BY <1>2, TopCall
<1>11. QED
  BY <1>1, <1>2, <1>3, <1>6, <1>7, <1>8, <1>9, <1>10, CallPushed

\* A call returns.
LEMMA LeaveKeeps ==
  ASSUME MaxStack \in Nat, topo \in Topology, UNCHANGED topo, RtInv, NEW th \in Origin, Leave(th)
  PROVE  RtInv'
<1>1. PICK s, m, r : s = stack[th] /\ m = Len(s) - 1 /\ r = SubSeq(s, 1, m)
  OBVIOUS
<1>2. /\ wants[th] = {} /\ Len(s) > 0 /\ s \in Seq(Calls) /\ UNCHANGED wants
      /\ stack' = [stack EXCEPT ![th] = r] /\ stack \in [Origin -> Seq(Calls)]
  BY <1>1 DEF Leave, Depth, RtInv, RtType
<1>3. /\ m \in Nat /\ Len(s) = m + 1 /\ r \in Seq(Calls) /\ Len(r) = m
      /\ \A k \in 1..m : k \in 1..Len(s) /\ r[k] = s[k]
  <2>1. s # <<>> /\ m \in Nat /\ Len(s) = m + 1
    BY <1>1, <1>2
  <2>2. QED
    BY <1>1, <1>2, <2>1, FrontFacts
<1>4. stack'[th] = r /\ wants'[th] = {} /\ \A u \in Origin : u # th => stack'[u] = stack[u]
  BY <1>2
<1>5. RtType'
  BY <1>2, <1>3 DEF RtInv, RtType
<1>6. \A u \in Origin \ {th} : WellCalled(u)' /\ WellWanted(u)' /\ Held(u)' = Held(u)
  BY <1>2, <1>4, OthersKept
<1>7. WellWanted(th)'
  BY <1>4 DEF WellWanted
<1>8. Held(th)' \subseteq Held(th)
  <2>1. Held(th)' = UNION {r[k].locks : k \in 1..m} /\ Held(th) = UNION {s[k].locks : k \in 1..Len(s)}
    BY <1>1, <1>3, <1>4 DEF Held
  <2>2. {r[k].locks : k \in 1..m} \subseteq {s[k].locks : k \in 1..Len(s)}
    BY <1>3
  <2>3. QED
    BY <2>1, <2>2
<1>9. WellCalled(th)'
  <2>1. WellCalled(th)
    BY DEF RtInv
  <2>2. m <= MaxStack /\ (m > 0 => 1 \in 1..m /\ r[1] = s[1] /\ Len(s) > 0)
    BY <1>1, <1>2, <1>3, <2>1 DEF WellCalled
  <2>3. \A k \in 1..(m - 1) : k \in 1..m /\ k + 1 \in 1..m /\ k \in 1..(Len(s) - 1)
    BY <1>3
  <2>4. \A k \in 1..(m - 1) : Continues(r[k], r[k + 1])'
    BY <1>1, <1>3, <2>1, <2>3, SameTopology DEF WellCalled
  <2>5. m > 0 => Begins(th, r[1])'
    BY <1>1, <2>1, <2>2, SameTopology DEF WellCalled
  <2>8. \A k \in 1..m : \A j \in 1..(k - 1) : r[j].locks \cap r[k].locks = {}
    BY <1>1, <1>3, <2>1 DEF WellCalled
  <2>6. \A k \in 1..m : /\ Serves(topo', r[k].origin, r[k].port, {r[k].handler})
                        /\ NoQueued' => r[k].origin = th
    BY <1>1, <1>3, <2>1, SameTopology DEF WellCalled
  <2>7. QED
    BY <1>3, <1>4, <2>2, <2>4, <2>5, <2>6, <2>8 DEF WellCalled
<1>10. Exclusive'
  <2>1. ASSUME NEW t \in Threads, NEW u \in Threads, t # u PROVE Held(t)' \cap Held(u)' = {}
    <3>1. t \in Origin /\ u \in Origin /\ Held(t) \cap Held(u) = {}
      BY <2>1, ThreadsAreOrigins DEF RtInv, Exclusive
    <3>2. Held(t)' \subseteq Held(t) /\ Held(u)' \subseteq Held(u)
      BY <1>6, <1>8, <3>1
    <3>3. QED
      BY <3>1, <3>2
  <2>2. QED
    BY <2>1, SameTopology DEF Exclusive
<1>11. QED
  BY <1>5, <1>6, <1>7, <1>9, <1>10 DEF RtInv

\* Every step of the deployment keeps its invariant.
LEMMA RuntimeStep ==
  ASSUME MaxStack \in Nat, topo \in Topology, UNCHANGED topo, RtInv, RtNext
  PROVE  RtInv'
<1>1. ASSUME NEW i \in Instance, NEW p \in InPort, Dispatch(i, p) PROVE RtInv'
  BY <1>1, DispatchKeeps
<1>2. ASSUME NEW p \in InPort, NEW kind \in SyncKind, CallFromOutside(p, kind) PROVE RtInv'
  BY <1>2, OutsideKeeps
<1>3. ASSUME NEW th \in Threads, CallFromHandler(th) \/ Acquire(th) \/ Leave(th) PROVE RtInv'
  BY <1>3, ThreadsAreOrigins, HandlerKeeps, AcquireKeeps, LeaveKeeps
<1>4. ASSUME NEW th \in Threads, NEW p \in InPort, Drain(th, p) PROVE RtInv'
  BY <1>4, ThreadsAreOrigins, DrainKeeps
<1>5. QED
  BY <1>1, <1>2, <1>3, <1>4 DEF RtNext

-----------------------------------------------------------------------------
(* How the calls in progress came about. *)

\* Every call was entered under some kind, into a handler of its instance.
LEMMA CallEntered ==
  ASSUME topo \in Topology, RtInv, NEW th \in Origin, NEW k \in 1..Len(stack[th])
  PROVE  LET c == stack[th][k]
         IN  /\ c \in Calls /\ topo.owner[c.port] \in Instance
             /\ topo.owner[c.handler] = topo.owner[c.port]
             /\ \E kind : Entered(c, kind)
<1> DEFINE c == stack[th][k]
<1>1. stack[th] \in Seq(Calls) /\ WellCalled(th) /\ Len(stack[th]) \in Nat
  BY DEF RtInv, RtType
<1>2. c \in Calls
  BY <1>1
<1>3. PICK kind : Entered(c, kind)
  <2>1. CASE k = 1
    BY <1>1, <2>1 DEF WellCalled, Begins
  <2>2. CASE k # 1
    <3>1. k - 1 \in 1..(Len(stack[th]) - 1) /\ (k - 1) + 1 = k
      BY <1>1, <2>2
    <3>2. Continues(stack[th][k - 1], c)
      BY <1>1, <3>1 DEF WellCalled
    <3>3. QED
      BY <3>2 DEF Continues
  <2>3. QED
    BY <2>1, <2>2
<1>4. topo.owner[c.port] \in Instance
  BY <1>2 DEF Calls, Topology, Handler
<1>5. topo.owner[c.handler] = topo.owner[c.port]
  BY <1>3 DEF Entered, FlowEntries, CommandsOf
<1>6. QED
  BY <1>2, <1>3, <1>4, <1>5

\* The handler behind a port tells the kind it was entered under.
LEMMA EntryKind ==
  ASSUME NEW c, Entered(c, "async"), NEW kind, Entered(c, kind)
  PROVE  kind = "async"
BY DEF Entered, FlowEntries, InputSyncKinds

=============================================================================
