-------------------------- MODULE LockCyclesProofs --------------------------
(***************************************************************************)
(* Proofs about the search for lock-order cycles: the iterative Tarjan     *)
(* emits exactly the strongly connected components, the depth-first search *)
(* finds each elementary cycle at most once, within its quota, and all of  *)
(* them when it does not meet it.                                          *)
(***************************************************************************)
EXTENDS LockCycles, FiniteSetTheorems, SequenceTheorems, WellFoundedInduction, TLAPS

-----------------------------------------------------------------------------
(* The inductive invariant of the component search. *)

\* b lies in every set that contains a and is closed under edges: there is a
\* path from a to b.
Reaches(a, b) ==
  \A S \in SUBSET Node : a \in S /\ (\A x \in S : Succ(x) \subseteq S) => b \in S

Scc(n) == {m \in Nodes : Reaches(n, m) /\ Reaches(m, n)}

Emitted == UNION components
Visited(n) == index[n] # 0

\* The nodes of the call stack, and those the k-th call was left for another.
Depth == 1..Len(work)
At(k) == work[k].node
InWork(n) == \E k \in Depth : At(k) = n

\* Numbers grow along the node stack and along the call stack, whose nodes are
\* on the node stack.
Numbered ==
  /\ \A m \in Node : index[m] < NextIndex
  /\ \A j, k \in 1..Len(stack) : j < k => index[stack[j]] < index[stack[k]]
  /\ \A j, k \in Depth : j < k => index[At(j)] < index[At(k)]
  /\ \A k \in Depth : OnStack(At(k))

\* Only nodes of the graph are visited; a visited node is on the stack or in a
\* component, never in both.
Sorted ==
  /\ \A m \in Node : Visited(m) => m \in Nodes
  /\ \A m \in Node : Visited(m) <=> OnStack(m) \/ m \in Emitted
  /\ \A m \in Node : ~(OnStack(m) /\ m \in Emitted)

\* A call has seen its node's successors but for the children left; a call that
\* returned has seen all.
Explored ==
  /\ \A k \in Depth : /\ work[k].children \subseteq Succ(At(k))
                      /\ \A y \in Succ(At(k)) \ work[k].children : Visited(y)
  /\ \A m \in Node : OnStack(m) /\ ~InWork(m) => \A y \in Succ(m) : Visited(y)

\* The components found are components, and no edge leaves them.
Closed ==
  /\ \A m \in Emitted : Succ(m) \subseteq Emitted
  /\ \A c \in components : \E n \in Nodes : c = Scc(n)

\* A call's node reaches what is above it on the stack; a node on the stack
\* reaches the node of some call not above it.
Linked ==
  /\ \A k \in Depth : \A y \in Node :
       OnStack(y) /\ index[At(k)] <= index[y] => Reaches(At(k), y)
  /\ \A y \in Node : OnStack(y) =>
       \E k \in Depth : index[At(k)] <= index[y] /\ Reaches(y, At(k))

\* A lowlink is the number of a node on the stack that is reached.
LowFound ==
  \A k \in Depth : /\ lowlink[At(k)] <= index[At(k)]
                   /\ \E y \in Node : /\ OnStack(y) /\ index[y] = lowlink[At(k)]
                                      /\ Reaches(At(k), y)

\* The nodes visited by the k-th call that no later call is responsible for.
Section(k, x) ==
  /\ OnStack(x) /\ index[At(k)] <= index[x]
  /\ k < Len(work) => index[x] < index[At(k + 1)]

\* No edge from them to the stack is below the lowlink of the call, but for the
\* children left to it.
LowLeast ==
  \A k \in Depth : \A x, y \in Node :
    /\ Section(k, x) /\ OnStack(y) /\ y \in Succ(x)
    /\ x = At(k) => y \notin work[k].children
    => lowlink[At(k)] <= index[y]

TarjanInv ==
  Numbered /\ Sorted /\ Explored /\ Closed /\ Linked /\ LowFound /\ LowLeast

-----------------------------------------------------------------------------
(* The inductive invariant of the cycle search. *)

Follow(c, k) == IF k = Len(c) THEN c[1] ELSE c[k + 1]

\* An elementary cycle, written from its smallest node.
IsCycle(c) ==
  /\ c \in Seq(Node) /\ Len(c) > 1
  /\ \A j, k \in 1..Len(c) : j # k => c[j] # c[k]
  /\ \A k \in 1..Len(c) : Follow(c, k) \in Succ(c[k])
  /\ \A k \in 2..Len(c) : c[1] < c[k]

\* The search is past the cycle c: past its start, or past the place where it
\* leaves the search path.
Passed(c) ==
  \/ c[1] < path[1]
  \/ \E k \in 1..Last : /\ k <= Len(c)
                        /\ \A j \in 1..k : c[j] = path[j]
                        /\ Follow(c, k) \notin choices[k]
                        /\ k < Last => Follow(c, k) # path[k + 1]

\* The search path is the beginning of a cycle; the start is tried before any
\* longer path, and not again when the quota is met.
PathInv ==
  /\ path = <<>> <=> members = {}
  /\ members # {} => SccsFound /\ members \in searched
  /\ \A k \in 1..Last : /\ path[k] \in members
                        /\ choices[k] \subseteq Succ(path[k]) \cap members
                        /\ k > 1 => path[1] < path[k]
                        /\ Full => path[1] \notin choices[k]
  /\ \A k \in 1..(Last - 1) : /\ path[k + 1] \in Succ(path[k])
                              /\ path[k + 1] \notin choices[k]
                              /\ path[1] \notin choices[k]
  /\ \A j, k \in 1..Last : j # k => path[j] # path[k]

FoundCycles == {cycles[k] : k \in 1..Len(cycles)}

\* What was found are cycles of the graph, each once, and the search is past them.
CyclesInv ==
  /\ \A c \in FoundCycles : IsCycle(c) /\ (path # <<>> => Passed(c))
  /\ \A j, k \in 1..Len(cycles) : j # k => cycles[j] # cycles[k]
  /\ \A c \in findings : IsCycle(c)

Within(c, C) == \A k \in 1..Len(c) : c[k] \in C

Interleaves(c) == DistinctPossible(threads, CycleEdges(c), RealThread)

\* Unless the quota was met, every cycle the search is past was found, and every
\* classified cycle of a component searched to its end is a finding.
FoundInv ==
  /\ path # <<>> /\ ~Full =>
       \A c \in Seq(Node) : IsCycle(c) /\ Within(c, members) /\ Passed(c)
                              => c \in FoundCycles
  /\ ~truncated => \A C \in searched \ {members} : \A c \in Seq(Node) :
       IsCycle(c) /\ Within(c, C) /\ Interleaves(c) => c \in findings

\* The end: every component was searched.
DoneInv == done => SccsFound /\ components = searched /\ members = {}

SearchInv == PathInv /\ CyclesInv /\ FoundInv /\ QuotaRespected /\ DoneInv

-----------------------------------------------------------------------------
(* The graph. *)

\* The smallest of a set of nodes.
LEMMA MinNode ==
  ASSUME NEW S \in SUBSET Node, S # {}
  PROVE  Min(S) \in S /\ \A i \in S : Min(S) <= i
<1> DEFINE Upto(i) == {j \in S : j <= i}
           T == {Upto(i) : i \in S}
<1>1. N \in Nat /\ S \subseteq Nat
  BY LockCyclesAssumption DEF Node
<1>2. IsFiniteSet(S)
  <2>1. 1 \in Int /\ N \in Int
    BY <1>1
  <2>2. IsFiniteSet(1..N)
    BY <2>1, FS_Interval
  <2>3. QED
    BY <2>2, FS_Subset DEF Node
<1>3. T \subseteq SUBSET S /\ T # {}
  OBVIOUS
<1>4. T \subseteq FiniteSubsetsOf(S)
  BY <1>2, <1>3, FS_Subset DEF FiniteSubsetsOf
<1>5. PICK X \in T : \A Y \in T : <<Y, X>> \notin StrictSubsetOrdering(S)
  BY ONLY <1>2, <1>3, <1>4, FS_StrictSubsetOrderingWellFounded, WFMin
<1>6. PICK m \in S : X = Upto(m)
  OBVIOUS
<1>7. ASSUME NEW i \in S, ~(m <= i) PROVE FALSE
  <2>0. /\ m \in Nat /\ i \in Nat /\ i < m /\ m <= m
        /\ \A j \in S : j <= i => j <= m
    BY <1>7, <1>1
  <2>1. m \in Upto(m) /\ m \notin Upto(i) /\ Upto(i) \subseteq Upto(m)
    BY <2>0, <1>7
  <2>2. Upto(i) \in T /\ <<Upto(i), X>> \notin StrictSubsetOrdering(S)
    BY <1>5
  <2>3. <<Upto(i), Upto(m)>> \in StrictSubsetOrdering(S)
    BY <2>1, <2>2, <1>3, <1>6 DEF StrictSubsetOrdering
  <2>4. QED
    BY <2>2, <2>3, <1>6
<1>8. m \in S /\ \A i \in S : m <= i
  BY <1>7
<1>9. QED
  BY <1>8 DEF Min

\* Edges join different nodes of the graph.
LEMMA GraphFacts ==
  ASSUME NEW n \in Node
  PROVE  /\ Nodes \subseteq Node
         /\ Succ(n) \subseteq Nodes \ {n}
         /\ Succ(n) # {} => n \in Nodes
BY DEF Succ, Nodes

\* A node reaches itself, the successors of what it reaches, and what these reach.
LEMMA ReachFacts ==
  /\ \A a : Reaches(a, a)
  /\ \A a, b, c : b \in Node /\ Reaches(a, b) /\ c \in Succ(b) => Reaches(a, c)
  /\ \A a, b, c : Reaches(a, b) /\ Reaches(b, c) => Reaches(a, c)
BY DEF Reaches

\* A closed set holds all that its members reach.
LEMMA ReachWithin ==
  ASSUME NEW S \in SUBSET Node, \A x \in S : Succ(x) \subseteq S,
         NEW a \in S, NEW b, Reaches(a, b)
  PROVE  b \in S
BY DEF Reaches

\* The graph does not change.
LEMMA SameGraph ==
  ASSUME threads' = threads
  PROVE  /\ \A a : Succ(a)' = Succ(a)
         /\ Nodes' = Nodes
         /\ \A a, b : Reaches(a, b)' <=> Reaches(a, b)
         /\ \A a : Scc(a)' = Scc(a)
<1>1. \A a : Succ(a)' = Succ(a)
  BY DEF Succ
<1>2. Nodes' = Nodes
  BY DEF Nodes
<1>3. \A a, b : Reaches(a, b)' <=> Reaches(a, b)
  BY <1>1 DEF Reaches
<1>4. \A a : Scc(a)' = Scc(a)
  BY <1>2, <1>3 DEF Scc
<1>5. QED
  BY <1>1, <1>2, <1>3, <1>4

\* The next number is free, and there is one for every node.
LEMMA NextIndexFacts ==
  ASSUME TypeOK
  PROVE  /\ NextIndex \in Nat \ {0}
         /\ \A n \in Node : index[n] = 0 =>
              /\ NextIndex \in 1..N
              /\ index' = [index EXCEPT ![n] = NextIndex] => NextIndex' = NextIndex + 1
<1> DEFINE V == {m \in Node : index[m] # 0}
<1>1. N \in Nat /\ IsFiniteSet(Node) /\ Cardinality(Node) = N
  <2>1. N \in Nat /\ N \in Int /\ 1 \in Int
    BY LockCyclesAssumption
  <2>2. IsFiniteSet(1..N) /\ Cardinality(1..N) = IF 1 > N THEN 0 ELSE N - 1 + 1
    BY <2>1, FS_Interval
  <2>3. QED
    BY <2>1, <2>2 DEF Node
<1>2. IsFiniteSet(V) /\ Cardinality(V) <= Cardinality(Node)
      /\ (Cardinality(Node) = Cardinality(V) => Node = V)
  <2>1. V \in SUBSET Node
    OBVIOUS
  <2>2. QED
    BY <1>1, <2>1, FS_Subset
<1>3. Cardinality(V) \in Nat
  BY <1>2, FS_CardinalityType
<1>4. NextIndex = Cardinality(V) + 1
  BY DEF NextIndex
<1>5. ASSUME NEW n \in Node, index[n] = 0 PROVE NextIndex \in 1..N
  <2>1. Cardinality(V) # N
    BY <1>1, <1>2, <1>5
  <2>2. QED
    BY <1>1, <1>2, <1>3, <1>4, <2>1
<1>6. ASSUME NEW n \in Node, index[n] = 0, index' = [index EXCEPT ![n] = NextIndex]
      PROVE  NextIndex' = NextIndex + 1
  <2>1. index \in [Node -> 0..N] /\ NextIndex # 0
    BY <1>3, <1>4 DEF TypeOK
  <2>2. {m \in Node : index'[m] # 0} = V \cup {n}
    BY <1>6, <2>1
  <2>3. Cardinality(V \cup {n}) = Cardinality(V) + 1
    BY <1>2, <1>6, FS_AddElement
  <2>4. NextIndex' = Cardinality(V \cup {n}) + 1
    BY <2>2 DEF NextIndex
  <2>5. QED
    BY <1>4, <2>3, <2>4
<1>7. QED
  BY <1>3, <1>4, <1>5, <1>6

-----------------------------------------------------------------------------
(* The steps of the component search keep its invariant. *)

Frame == [node : Node, children : SUBSET Node]

\* What is on the two stacks are visited nodes.
LEMMA StackFacts ==
  ASSUME TypeOK, TarjanInv
  PROVE  /\ Len(work) \in Nat /\ Len(stack) \in Nat
         /\ \A k \in 1..Len(stack) : stack[k] \in Node /\ OnStack(stack[k])
         /\ \A m : OnStack(m) => m \in Node /\ index[m] # 0
         /\ \A k \in Depth : /\ work[k] \in Frame /\ At(k) \in Node /\ OnStack(At(k))
                             /\ index[At(k)] # 0 /\ InWork(At(k))
         /\ \A m \in Node : index[m] \in 0..N /\ lowlink[m] \in 0..N
         /\ N \in Nat
<1>1. N \in Nat
  BY LockCyclesAssumption
<1>2. stack \in Seq(Node) /\ work \in Seq(Frame)
      /\ index \in [Node -> 0..N] /\ lowlink \in [Node -> 0..N]
  BY DEF TypeOK, Frame
<1>3. Len(work) \in Nat /\ Len(stack) \in Nat
  BY <1>2
<1>4. \A k \in 1..Len(stack) : stack[k] \in Node /\ OnStack(stack[k])
  BY <1>2 DEF OnStack
<1>5. \A m : OnStack(m) => m \in Node /\ index[m] # 0
  BY <1>4 DEF OnStack, TarjanInv, Sorted, Visited
<1>6. ASSUME NEW k \in Depth
      PROVE  /\ work[k] \in Frame /\ At(k) \in Node /\ OnStack(At(k))
             /\ index[At(k)] # 0 /\ InWork(At(k))
  <2>1. work[k] \in Frame
    BY <1>2 DEF Depth
  <2>2. At(k) \in Node
    BY <2>1 DEF At, Frame
  <2>3. OnStack(At(k))
    BY DEF TarjanInv, Numbered
  <2>4. InWork(At(k))
    BY DEF InWork
  <2>5. QED
    BY <1>5, <2>1, <2>2, <2>3, <2>4
<1>7. QED
  BY <1>1, <1>2, <1>3, <1>4, <1>5, <1>6

\* Numbering a node and pushing it keeps the invariant, whether it is a root or
\* a child that was left to the call on top.
LEMMA VisitKeeps ==
  ASSUME TypeOK, TarjanInv,
         NEW n \in Nodes, index[n] = 0,
         NEW below \in Seq(Frame), Len(below) = Len(work),
         \A k \in Depth : below[k].node = At(k),
         \A k \in Depth : k < Len(work) => below[k] = work[k],
         work # <<>> => /\ n \in Top.children
                        /\ below[Len(work)].children = Top.children \ {n},
         threads' = threads, components' = components, Visit(n, below)
  PROVE  TarjanInv'
<1>0. PICK d \in Nat : d = Len(work) + 1
  BY StackFacts
<1>1. /\ n \in Node /\ N \in Nat /\ Len(work) \in Nat /\ d \in Nat \ {0} /\ d = Len(work) + 1
      /\ stack \in Seq(Node) /\ index \in [Node -> 0..N] /\ lowlink \in [Node -> 0..N]
      /\ NextIndex \in Nat \ {0} /\ NextIndex' = NextIndex + 1
  <2>1. n \in Node /\ N \in Nat /\ Len(work) \in Nat /\ d \in Nat \ {0} /\ d = Len(work) + 1
    BY <1>0, StackFacts DEF Nodes
  <2>2. stack \in Seq(Node) /\ index \in [Node -> 0..N] /\ lowlink \in [Node -> 0..N]
    BY DEF TypeOK
  <2>3. NextIndex \in Nat \ {0} /\ NextIndex' = NextIndex + 1
    BY <2>1, NextIndexFacts DEF Visit
  <2>4. QED
    BY <2>1, <2>2, <2>3
<1>2. /\ index' = [index EXCEPT ![n] = NextIndex]
      /\ lowlink' = [lowlink EXCEPT ![n] = NextIndex]
      /\ stack' = Append(stack, n)
      /\ work' = Append(below, [node |-> n, children |-> Succ(n)])
  BY DEF Visit
<1>3. /\ index'[n] = NextIndex /\ lowlink'[n] = NextIndex
      /\ \A m \in Node \ {n} : index'[m] = index[m] /\ lowlink'[m] = lowlink[m]
      /\ \A m \in Node : index[m] \in Nat /\ index[m] < NextIndex
      /\ \A m \in Node : index'[m] \in Nat /\ index'[m] < NextIndex'
      /\ \A m \in Node \ {n} : index'[m] < index'[n]
  <2>1. \A m \in Node : index[m] \in Nat /\ index[m] < NextIndex
    BY <1>1 DEF TarjanInv, Numbered
  <2>2. /\ index'[n] = NextIndex /\ lowlink'[n] = NextIndex
        /\ \A m \in Node \ {n} : index'[m] = index[m] /\ lowlink'[m] = lowlink[m]
    BY <1>1, <1>2
  <2>3. ASSUME NEW m \in Node
        PROVE  /\ index'[m] \in Nat /\ index'[m] < NextIndex'
               /\ m # n => index'[m] < index'[n]
    <3>1. index[m] \in Nat /\ index[m] < NextIndex
      BY <2>1
    <3>2. index'[m] = index[m] \/ (m = n /\ index'[m] = NextIndex)
      BY <2>2
    <3>3. QED
      BY <3>1, <3>2, <2>2, <1>1
  <2>4. QED
    BY <2>1, <2>2, <2>3
<1>4. /\ Len(stack') = Len(stack) + 1 /\ stack'[Len(stack) + 1] = n
      /\ \A k \in 1..Len(stack) : stack'[k] = stack[k]
      /\ Len(stack) \in Nat
  BY <1>1, <1>2
<1>5. \A m : OnStack(m)' <=> OnStack(m) \/ m = n
  <2>1. \A m : OnStack(m)' <=> \E k \in 1..(Len(stack) + 1) : stack'[k] = m
    BY <1>4 DEF OnStack
  <2>2. 1..(Len(stack) + 1) = 1..Len(stack) \cup {Len(stack) + 1}
    BY <1>4
  <2>3. QED
    BY <1>4, <2>1, <2>2 DEF OnStack
<1>6. /\ ~OnStack(n) /\ n \notin Emitted /\ \A k \in Depth : At(k) # n
      /\ \A k \in Depth : At(k) \in Node
      /\ \A m : OnStack(m) => m \in Node
  BY StackFacts, <1>1 DEF TarjanInv, Sorted, Visited
<1>7. /\ Len(work') = d /\ Depth' = Depth \cup {d} /\ d \notin Depth
      /\ \A k \in Depth : At(k)' = At(k) /\ work'[k] = below[k]
      /\ At(d)' = n /\ work'[d].children = Succ(n)
      /\ \A k \in Depth : k \in Nat /\ k < d
  <2>1. Len(work') = d /\ work'[d] = [node |-> n, children |-> Succ(n)]
        /\ \A k \in Depth : work'[k] = below[k]
    BY <1>1, <1>2 DEF Depth
  <2>2. Depth' = 1..d /\ 1..d = Depth \cup {d} /\ d \notin Depth
        /\ \A k \in Depth : k \in Nat /\ k < d
    BY <2>1, <1>1 DEF Depth
  <2>3. QED
    BY <2>1, <2>2 DEF At
<1>8. \A m : InWork(m)' <=> InWork(m) \/ m = n
  <2>1. \A m : InWork(m)' <=> \E k \in Depth' : At(k)' = m
    BY DEF InWork
  <2>2. QED
    BY <2>1, <1>7 DEF InWork
<1>9. /\ \A a : Succ(a)' = Succ(a)
      /\ Nodes' = Nodes
      /\ \A a, b : Reaches(a, b)' <=> Reaches(a, b)
      /\ \A a : Scc(a)' = Scc(a)
      /\ Emitted' = Emitted
  BY SameGraph DEF Emitted
<1>10. \A k \in Depth : work[k].children \subseteq below[k].children \cup {n}
                        /\ below[k].children \subseteq work[k].children
  <2>1. SUFFICES ASSUME NEW k \in Depth
                 PROVE  /\ work[k].children \subseteq below[k].children \cup {n}
                        /\ below[k].children \subseteq work[k].children
    OBVIOUS
  <2>2. k \in 1..Len(work) /\ work # <<>>
    BY DEF Depth
  <2>3. k < Len(work) \/ k = Len(work)
    BY <2>2, <1>1
  <2>4. CASE k < Len(work)
    BY <2>4
  <2>5. CASE k = Len(work)
    BY <2>2, <2>5 DEF Top
  <2>6. QED
    BY <2>3, <2>4, <2>5
<1>11. Numbered'
  <2>1. \A j, k \in 1..Len(stack') : j < k => index'[stack'[j]] < index'[stack'[k]]
    <3>1. SUFFICES ASSUME NEW j \in 1..(Len(stack) + 1), NEW k \in 1..(Len(stack) + 1), j < k
                   PROVE  index'[stack'[j]] < index'[stack'[k]]
      BY <1>4
    <3>2. j \in 1..Len(stack) /\ stack[j] \in Node /\ stack'[j] = stack[j] /\ stack[j] # n
      BY <1>4, <1>6, StackFacts, <3>1
    <3>3. CASE k = Len(stack) + 1
      BY <1>3, <1>4, <3>2, <3>3
    <3>4. CASE k \in 1..Len(stack)
      BY <1>3, <1>4, <1>6, <3>1, <3>2, <3>4, StackFacts DEF TarjanInv, Numbered
    <3>5. QED
      BY <3>3, <3>4, <1>4
  <2>2. \A j, k \in Depth' : j < k => index'[At(j)'] < index'[At(k)']
    BY <1>3, <1>6, <1>7, <1>1 DEF TarjanInv, Numbered
  <2>3. \A k \in Depth' : OnStack(At(k))'
    <3>1. SUFFICES ASSUME NEW k \in Depth' PROVE OnStack(At(k))'
      OBVIOUS
    <3>2. PICK m : m = At(k)'
      OBVIOUS
    <3>3. OnStack(m) \/ m = n
      BY <3>2, <1>7 DEF TarjanInv, Numbered
    <3>4. OnStack(m)'
      BY <3>3, <1>5
    <3>5. QED
      BY <3>2, <3>4 DEF OnStack
  <2>4. QED
    BY <1>3, <2>1, <2>2, <2>3 DEF Numbered
<1>12. Sorted'
  BY <1>1, <1>3, <1>5, <1>6, <1>9 DEF TarjanInv, Sorted, Visited
<1>13. Explored'
  <2>1. \A y \in Node : Visited(y) \/ y = n => Visited(y)'
    BY <1>1, <1>3 DEF Visited
  <2>2. \A k \in Depth' : /\ work'[k].children \subseteq Succ(At(k)')
                          /\ \A y \in Succ(At(k)') \ work'[k].children : Visited(y)'
    <3>1. SUFFICES ASSUME NEW k \in Depth'
                   PROVE  /\ work'[k].children \subseteq Succ(At(k)')
                          /\ \A y \in Succ(At(k)') \ work'[k].children : Visited(y)'
      OBVIOUS
    <3>2. CASE k = d
      BY <3>2, <1>7
    <3>3. CASE k \in Depth
      <4>1. /\ At(k)' = At(k) /\ At(k) \in Node /\ work'[k] = below[k]
            /\ work[k].children \subseteq below[k].children \cup {n}
            /\ below[k].children \subseteq work[k].children
        BY <3>3, <1>6, <1>7, <1>10
      <4>2. /\ work[k].children \subseteq Succ(At(k)) /\ Succ(At(k)) \subseteq Node
            /\ \A y \in Succ(At(k)) \ work[k].children : Visited(y)
        BY <3>3, <4>1, GraphFacts DEF TarjanInv, Explored
      <4>3. QED
        BY <4>1, <4>2, <2>1, <1>1
    <3>4. QED
      BY <3>2, <3>3, <1>7
  <2>3. \A m \in Node : OnStack(m)' /\ ~InWork(m)' => \A y \in Succ(m) : Visited(y)'
    BY <2>1, <1>5, <1>8, GraphFacts DEF TarjanInv, Explored
  <2>4. QED
    BY <2>2, <2>3, <1>9 DEF Explored
<1>14. Closed'
  BY <1>9 DEF TarjanInv, Closed
<1>15. Linked'
  <2>1. \A k \in Depth : Reaches(At(k), n)
    <3>1. SUFFICES ASSUME NEW k \in Depth PROVE Reaches(At(k), n)
      OBVIOUS
    <3>2. k \in 1..Len(work) /\ Len(work) \in Depth /\ work # <<>>
      BY <1>1 DEF Depth
    <3>3. n \in Succ(At(Len(work)))
      BY <3>2 DEF Top, At, TarjanInv, Explored
    <3>4. Reaches(At(k), At(Len(work)))
      <4>1. k = Len(work) \/ k < Len(work)
        BY <3>2, <1>1
      <4>2. index[At(k)] <= index[At(Len(work))]
        BY <4>1, <3>2, <1>3, <1>6 DEF TarjanInv, Numbered
      <4>3. QED
        BY <4>2, <3>2, StackFacts DEF TarjanInv, Linked
    <3>5. QED
      BY <3>2, <3>3, <3>4, <1>6, ReachFacts
  <2>2. \A k \in Depth' : \A y \in Node :
          OnStack(y)' /\ index'[At(k)'] <= index'[y] => Reaches(At(k)', y)
    <3>1. SUFFICES ASSUME NEW k \in Depth', NEW y \in Node,
                          OnStack(y)', index'[At(k)'] <= index'[y]
                   PROVE  Reaches(At(k)', y)
      OBVIOUS
    <3>2. CASE k = d
      <4>1. y = n
        BY <3>1, <3>2, <1>3, <1>7, <1>1
      <4>2. QED
        BY <4>1, <3>2, <1>7, ReachFacts
    <3>3. CASE k \in Depth /\ y = n
      BY <3>3, <2>1, <1>7
    <3>4. CASE k \in Depth /\ y # n
      <4>1. OnStack(y) /\ index[At(k)] <= index[y]
        BY <3>1, <3>4, <1>3, <1>5, <1>6, <1>7
      <4>2. QED
        BY <4>1, <3>4, <1>7 DEF TarjanInv, Linked
    <3>5. QED
      BY <3>2, <3>3, <3>4, <1>7
  <2>3. \A y \in Node : OnStack(y)' =>
          \E k \in Depth' : index'[At(k)'] <= index'[y] /\ Reaches(y, At(k)')
    <3>1. SUFFICES ASSUME NEW y \in Node, OnStack(y)'
                   PROVE  \E k \in Depth' : index'[At(k)'] <= index'[y] /\ Reaches(y, At(k)')
      OBVIOUS
    <3>2. CASE y = n
      <4>1. d \in Depth' /\ At(d)' = y /\ index'[y] <= index'[y] /\ Reaches(y, y)
        BY <3>2, <1>1, <1>3, <1>7, ReachFacts
      <4>2. QED
        BY <4>1
    <3>3. CASE y # n
      <4>1. OnStack(y)
        BY <3>1, <3>3, <1>5
      <4>2. PICK k \in Depth : index[At(k)] <= index[y] /\ Reaches(y, At(k))
        BY <4>1 DEF TarjanInv, Linked
      <4>3. k \in Depth' /\ At(k)' = At(k) /\ index'[At(k)] = index[At(k)]
            /\ index'[y] = index[y]
        BY <3>3, <1>3, <1>6, <1>7
      <4>4. QED
        BY <4>2, <4>3
    <3>4. QED
      BY <3>2, <3>3
  <2>4. QED
    BY <2>2, <2>3, <1>9 DEF Linked
<1>16. LowFound'
  <2>1. SUFFICES ASSUME NEW k \in Depth'
                 PROVE  /\ lowlink'[At(k)'] <= index'[At(k)']
                        /\ \E y \in Node : /\ OnStack(y)' /\ index'[y] = lowlink'[At(k)']
                                           /\ Reaches(At(k)', y)
    BY <1>9 DEF LowFound
  <2>2. CASE k = d
    <3>1. n \in Node /\ OnStack(n)' /\ index'[n] = lowlink'[n] /\ Reaches(n, n)
          /\ index'[n] \in Nat
      BY <1>1, <1>3, <1>5, ReachFacts
    <3>2. QED
      BY <2>2, <3>1, <1>7
  <2>3. CASE k \in Depth
    <3>1. At(k)' = At(k) /\ At(k) \in Node /\ lowlink'[At(k)] = lowlink[At(k)]
          /\ index'[At(k)] = index[At(k)]
      BY <2>3, <1>3, <1>6, <1>7
    <3>2. PICK y \in Node : OnStack(y) /\ index[y] = lowlink[At(k)] /\ Reaches(At(k), y)
      BY <2>3 DEF TarjanInv, LowFound
    <3>3. OnStack(y)' /\ index'[y] = index[y]
      BY <3>2, <1>3, <1>5, <1>6
    <3>4. lowlink[At(k)] <= index[At(k)]
      BY <2>3 DEF TarjanInv, LowFound
    <3>5. QED
      BY <3>1, <3>2, <3>3, <3>4
  <2>4. QED
    BY <2>2, <2>3, <1>7
<1>17. LowLeast'
  <2>1. SUFFICES ASSUME NEW k \in Depth', NEW x \in Node, NEW y \in Node,
                        Section(k, x)', OnStack(y)', y \in Succ(x),
                        x = At(k)' => y \notin work'[k].children
                 PROVE  lowlink'[At(k)'] <= index'[y]
    BY <1>9 DEF LowLeast
  <2>2. OnStack(x)' /\ index'[At(k)'] <= index'[x]
        /\ (k < d => index'[x] < index'[At(k + 1)'])
    BY <2>1, <1>7 DEF Section
  <2>3. CASE k = d
    <3>1. x = n
      BY <2>2, <2>3, <1>1, <1>3, <1>7
    <3>2. QED
      BY <2>1, <2>3, <3>1, <1>7
  <2>4. CASE k \in Depth
    <3>1. At(k)' = At(k) /\ At(k) \in Node /\ At(k) # n /\ lowlink'[At(k)] = lowlink[At(k)]
          /\ lowlink[At(k)] <= index[At(k)] /\ index[At(k)] \in Nat /\ lowlink[At(k)] \in Nat
          /\ index'[At(k)] = index[At(k)]
      BY <2>4, <1>1, <1>3, <1>6, <1>7, StackFacts DEF TarjanInv, LowFound
    <3>2. CASE y = n
      BY <3>1, <3>2, <1>1, <1>3
    <3>3. CASE y # n
      <4>1. OnStack(y) /\ index'[y] = index[y]
        BY <2>1, <3>3, <1>3, <1>5
      <4>2. k < d /\ k \in Nat /\ k + 1 \in Depth' /\ d \in Nat
        BY <2>4, <1>1, <1>7 DEF Depth
      <4>3. x # n
        <5>1. At(k + 1)' \in Node
          BY <4>2, <1>1, <1>6, <1>7
        <5>2. index'[At(k + 1)'] <= index'[n]
          BY <5>1, <1>1, <1>3
        <5>3. QED
          BY <5>1, <5>2, <2>2, <4>2, <1>3
      <4>4. OnStack(x) /\ index'[x] = index[x] /\ index[At(k)] <= index[x]
        BY <2>2, <4>3, <3>1, <1>3, <1>5
      <4>5. k < Len(work) => index[x] < index[At(k + 1)]
        <5>1. SUFFICES ASSUME k < Len(work) PROVE index[x] < index[At(k + 1)]
          OBVIOUS
        <5>2. k + 1 \in Depth
          BY <5>1, <4>2, <1>1 DEF Depth
        <5>3. At(k + 1)' = At(k + 1) /\ At(k + 1) \in Node \ {n}
          BY <5>2, <1>6, <1>7
        <5>4. QED
          BY <5>3, <4>2, <4>4, <2>2, <1>3
      <4>6. x = At(k) => y \notin work[k].children
        BY <2>1, <2>4, <3>1, <3>3, <1>7, <1>10
      <4>7. lowlink[At(k)] <= index[y]
        BY <4>1, <4>4, <4>5, <4>6, <2>1, <2>4 DEF TarjanInv, LowLeast, Section
      <4>8. QED
        BY <3>1, <4>1, <4>7
    <3>4. QED
      BY <3>2, <3>3
  <2>5. QED
    BY <2>3, <2>4, <1>7
<1>18. QED
  BY <1>11, <1>12, <1>13, <1>14, <1>15, <1>16, <1>17 DEF TarjanInv

\* Looking at a child that was visited before keeps the invariant: its number
\* counts if it is still on the stack.
LEMMA LookKeeps ==
  ASSUME TypeOK, TarjanInv, work # <<>>,
         NEW c \in Top.children, index[c] # 0,
         threads' = threads, components' = components, index' = index, stack' = stack,
         work' = [work EXCEPT ![Len(work)].children = @ \ {c}],
         lowlink' = IF OnStack(c)
                    THEN [lowlink EXCEPT ![Top.node] = Lower(@, index[c])]
                    ELSE lowlink
  PROVE  TarjanInv'
<1>0. PICK d \in Nat : d = Len(work)
  BY StackFacts
<1>1. d \in Depth /\ d \in 1..d /\ Depth = 1..d /\ work \in Seq(Frame)
  BY <1>0, StackFacts DEF Depth, TypeOK, Frame
<1>2. PICK n \in Node : n = At(d) /\ n = Top.node /\ Top = work[d] /\ OnStack(n)
  BY <1>0, <1>1, StackFacts DEF At, Top
<1>3. /\ Len(work') = d /\ Depth' = Depth
      /\ \A k \in Depth : At(k)' = At(k)
      /\ \A k \in Depth : k < d => work'[k] = work[k]
      /\ work'[d].children = work[d].children \ {c}
      /\ \A k \in Depth : work'[k].children \subseteq work[k].children
  <2>0. work' = [work EXCEPT ![d] = [work[d] EXCEPT !.children = @ \ {c}]]
    BY <1>0
  <2>1. Len(work') = d
        /\ work'[d] = [work[d] EXCEPT !.children = @ \ {c}]
        /\ \A k \in Depth : k # d => work'[k] = work[k]
    <3>1. PICK f \in Frame : f = [work[d] EXCEPT !.children = @ \ {c}]
      BY <1>1, StackFacts DEF Frame
    <3>2. work' = [work EXCEPT ![d] = f]
      BY <2>0, <3>1
    <3>3. d \in 1..Len(work)
      BY <1>0, <1>1
    <3>4. /\ Len(work') = Len(work)
          /\ \A j \in 1..Len(work) : work'[j] = IF j = d THEN f ELSE work[j]
      <4>1. work \in Seq(Frame)
        BY <1>1
      <4>2. QED
        BY ONLY <4>1, <3>1, <3>2, <3>3, ExceptSeq
    <3>5. QED
      BY <3>1, <3>3, <3>4, <1>0, <1>1
  <2>2. work[d] \in Frame
    BY <1>1, StackFacts
  <2>3. work'[d].node = work[d].node /\ work'[d].children = work[d].children \ {c}
    BY <2>1, <2>2 DEF Frame
  <2>4. \A k \in Depth : At(k)' = At(k)
    BY <2>1, <2>3 DEF At
  <2>5. QED
    BY <2>1, <2>3, <2>4, <1>1 DEF Depth
<1>4. /\ \A m : OnStack(m)' <=> OnStack(m)
      /\ \A m : InWork(m)' <=> InWork(m)
      /\ \A m : Visited(m)' <=> Visited(m)
      /\ Emitted' = Emitted /\ NextIndex' = NextIndex
      /\ \A a : Succ(a)' = Succ(a)
      /\ Nodes' = Nodes
      /\ \A a, b : Reaches(a, b)' <=> Reaches(a, b)
      /\ \A a : Scc(a)' = Scc(a)
  <2>1. \A m : InWork(m)' <=> InWork(m)
    BY <1>3 DEF InWork
  <2>2. QED
    BY <2>1, SameGraph DEF OnStack, Visited, Emitted, NextIndex
<1>5. c \in Succ(n) /\ c \in Node
  BY <1>1, <1>2, GraphFacts DEF TarjanInv, Explored, At, Nodes
<1>6. /\ \A k \in Depth : k # d => At(k) # n /\ At(k) \in Node
      /\ \A m \in Node : index[m] \in Nat /\ lowlink[m] \in Nat
  <2>1. \A k \in Depth : k # d => k < d /\ k \in Nat
    BY <1>1
  <2>2. \A m \in Node : index[m] \in Nat /\ lowlink[m] \in Nat
    BY StackFacts
  <2>3. \A k \in Depth : k # d => index[At(k)] < index[n]
    BY <2>1, <1>1, <1>2 DEF TarjanInv, Numbered
  <2>4. QED
    BY <2>2, <2>3, <1>2, StackFacts
<1>7. /\ \A m \in Node \ {n} : lowlink'[m] = lowlink[m]
      /\ lowlink'[n] \in Nat /\ lowlink'[n] <= lowlink[n]
      /\ OnStack(c) => lowlink'[n] <= index[c]
      /\ lowlink'[n] = lowlink[n] \/ (OnStack(c) /\ lowlink'[n] = index[c])
  <2>1. lowlink \in [Node -> 0..N]
    BY DEF TypeOK
  <2>2. CASE OnStack(c)
    <3>1. lowlink' = [lowlink EXCEPT ![n] = Lower(lowlink[n], index[c])]
      BY <2>2, <1>2
    <3>2. lowlink'[n] = Lower(lowlink[n], index[c])
          /\ \A m \in Node \ {n} : lowlink'[m] = lowlink[m]
      BY <2>1, <3>1
    <3>3. QED
      BY <2>2, <3>2, <1>5, <1>6 DEF Lower
  <2>3. CASE ~OnStack(c)
    BY <2>3, <1>6
  <2>4. QED
    BY <2>2, <2>3
<1>8. Numbered'
  <2>1. \A k \in Depth' : OnStack(At(k))'
    <3>1. \A k \in Depth : \E j \in 1..Len(stack) : stack[j] = At(k)
      BY DEF TarjanInv, Numbered, OnStack
    <3>2. QED
      BY <3>1, <1>3 DEF OnStack
  <2>2. QED
    BY <2>1, <1>3, <1>4 DEF TarjanInv, Numbered
<1>9. Sorted'
  BY <1>4 DEF TarjanInv, Sorted
<1>10. Explored'
  <2>1. \A k \in Depth : /\ work'[k].children \subseteq Succ(At(k))
                         /\ \A y \in Succ(At(k)) \ work'[k].children : Visited(y)
    <3>1. SUFFICES ASSUME NEW k \in Depth
                   PROVE  /\ work'[k].children \subseteq Succ(At(k))
                          /\ \A y \in Succ(At(k)) \ work'[k].children : Visited(y)
      OBVIOUS
    <3>2. /\ work[k].children \subseteq Succ(At(k))
          /\ \A y \in Succ(At(k)) \ work[k].children : Visited(y)
          /\ work'[k].children \subseteq work[k].children
      BY <1>3 DEF TarjanInv, Explored
    <3>3. \A y \in work[k].children \ work'[k].children : Visited(y)
      <4>1. k = d \/ work'[k] = work[k]
        BY <1>1, <1>3
      <4>2. Visited(c)
        BY DEF Visited
      <4>3. QED
        BY <4>1, <4>2, <1>3
    <3>4. QED
      BY <3>2, <3>3
  <2>2. QED
    BY <2>1, <1>3, <1>4 DEF TarjanInv, Explored
<1>11. Closed'
  BY <1>4 DEF TarjanInv, Closed
<1>12. Linked'
  BY <1>3, <1>4 DEF TarjanInv, Linked
<1>13. LowFound'
  <2>1. SUFFICES ASSUME NEW k \in Depth
                 PROVE  /\ lowlink'[At(k)] <= index[At(k)]
                        /\ \E y \in Node : /\ OnStack(y) /\ index[y] = lowlink'[At(k)]
                                           /\ Reaches(At(k), y)
    BY <1>3, <1>4 DEF LowFound
  <2>2. /\ lowlink[At(k)] <= index[At(k)]
        /\ \E y \in Node : /\ OnStack(y) /\ index[y] = lowlink[At(k)]
                           /\ Reaches(At(k), y)
    BY DEF TarjanInv, LowFound
  <2>3. CASE k # d
    BY <2>2, <2>3, <1>6, <1>7
  <2>4. CASE k = d
    <3>1. Reaches(n, c)
      BY <1>5, ReachFacts
    <3>2. At(k) = n
      BY <2>4, <1>2
    <3>3. lowlink'[n] <= index[n]
      BY <2>2, <3>2, <1>6, <1>7
    <3>4. QED
      BY <2>2, <3>1, <3>2, <3>3, <1>5, <1>7
  <2>5. QED
    BY <2>3, <2>4
<1>14. LowLeast'
  <2>1. \A k \in Depth : \A x : Section(k, x)' <=> Section(k, x)
    <3>1. SUFFICES ASSUME NEW k \in Depth, NEW x PROVE Section(k, x)' <=> Section(k, x)
      OBVIOUS
    <3>2. k < d => k + 1 \in Depth
      BY <1>1
    <3>3. QED
      BY <3>2, <1>0, <1>3, <1>4 DEF Section
  <2>2. SUFFICES ASSUME NEW k \in Depth, NEW x \in Node, NEW y \in Node,
                        Section(k, x), OnStack(y), y \in Succ(x),
                        x = At(k) => y \notin work'[k].children
                 PROVE  lowlink'[At(k)] <= index[y]
    BY <2>1, <1>3, <1>4 DEF LowLeast
  <2>3. lowlink'[At(k)] <= lowlink[At(k)] /\ At(k) \in Node
        /\ lowlink'[At(k)] \in Nat /\ lowlink[At(k)] \in Nat /\ index[y] \in Nat
    <3>1. At(k) = n \/ (At(k) # n /\ At(k) \in Node)
      BY <1>2, <1>6
    <3>2. CASE At(k) = n
      BY <3>2, <1>6, <1>7
    <3>3. CASE At(k) # n /\ At(k) \in Node
      <4>1. lowlink'[At(k)] = lowlink[At(k)] /\ lowlink[At(k)] \in Nat /\ index[y] \in Nat
        BY <3>3, <1>6, <1>7
      <4>2. QED
        BY <3>3, <4>1
    <3>4. QED
      BY <3>1, <3>2, <3>3
  <2>4. CASE x = At(k) /\ y \in work[k].children
    <3>1. k = d /\ y = c
      BY <2>2, <2>4, <1>1, <1>3
    <3>2. QED
      BY <2>2, <3>1, <1>2, <1>7
  <2>5. CASE ~(x = At(k) /\ y \in work[k].children)
    <3>1. lowlink[At(k)] <= index[y]
      BY <2>2, <2>5 DEF TarjanInv, LowLeast
    <3>2. QED
      BY <2>3, <3>1
  <2>6. QED
    BY <2>4, <2>5
<1>15. QED
  BY <1>8, <1>9, <1>10, <1>11, <1>12, <1>13, <1>14 DEF TarjanInv

\* The nodes pushed since the call on top began.
LEMMA TopSection ==
  ASSUME TypeOK, TarjanInv, work # <<>>, Top.children = {},
         NEW d \in Nat, d = Len(work), NEW n, n = Top.node
  PROVE  /\ d \in Depth /\ Depth = 1..d /\ n = At(d) /\ n \in Node /\ OnStack(n)
         /\ work[d].children = {}
         /\ \A k \in Depth : k < d => index[At(k)] < index[n]
         /\ \A x \in Node : OnStack(x) /\ index[n] <= index[x] =>
              /\ Section(d, x)
              /\ \A y \in Succ(x) : Visited(y) /\ (OnStack(y) => lowlink[n] <= index[y])
<1>1. d \in Depth /\ Depth = 1..d /\ d \in Nat
  BY StackFacts DEF Depth, TypeOK
<1>2. n = At(d) /\ work[d].children = {} /\ n \in Node /\ OnStack(n)
  BY <1>1, StackFacts DEF At, Top
<1>3. \A k \in Depth : k < d => index[At(k)] < index[n]
  BY <1>1, <1>2 DEF TarjanInv, Numbered
<1>4. ASSUME NEW x \in Node, OnStack(x), index[n] <= index[x]
      PROVE  /\ Section(d, x)
             /\ \A y \in Succ(x) : Visited(y) /\ (OnStack(y) => lowlink[n] <= index[y])
  <2>1. Section(d, x)
    BY <1>2, <1>4 DEF Section
  <2>2. x # n => ~InWork(x)
    <3>1. SUFFICES ASSUME NEW k \in Depth, At(k) = x, x # n PROVE FALSE
      BY DEF InWork
    <3>2. k < d
      BY <3>1, <1>1, <1>2
    <3>3. QED
      BY <3>1, <3>2, <1>2, <1>3, <1>4, StackFacts
  <2>3. ASSUME NEW y \in Succ(x) PROVE Visited(y) /\ (OnStack(y) => lowlink[n] <= index[y])
    <3>1. y \in Node
      BY GraphFacts
    <3>2. Visited(y)
      BY <1>1, <1>2, <1>4, <2>2 DEF TarjanInv, Explored
    <3>3. OnStack(y) => lowlink[n] <= index[y]
      BY <1>1, <1>2, <2>1, <3>1 DEF TarjanInv, LowLeast
    <3>4. QED
      BY <3>2, <3>3
  <2>4. QED
    BY <2>1, <2>3
<1>5. QED
  BY <1>1, <1>2, <1>3, <1>4

\* If the call's lowlink is its own number, these nodes are a component.
LEMMA RootOfComponent ==
  ASSUME TypeOK, TarjanInv, work # <<>>, Top.children = {},
         NEW n, n = Top.node, lowlink[n] = index[n],
         NEW U \in SUBSET Node, U = {m \in Node : OnStack(m) /\ index[n] <= index[m]}
  PROVE  /\ U = Scc(n) /\ n \in Nodes
         /\ \A m \in U \cup Emitted : Succ(m) \subseteq U \cup Emitted
<1>0. PICK d \in Nat : d = Len(work)
  BY StackFacts
<1>1. /\ d \in Depth /\ Depth = 1..d /\ n = At(d) /\ n \in Node /\ OnStack(n)
      /\ \A k \in Depth : k < d => index[At(k)] < index[n]
      /\ \A x \in U : \A y \in Succ(x) : Visited(y) /\ (OnStack(y) => lowlink[n] <= index[y])
  BY <1>0, TopSection
<1>2. n \in U /\ n \in Nodes /\ U \cup Emitted \in SUBSET Node /\ U \subseteq Nodes
  BY <1>1, StackFacts DEF TarjanInv, Sorted, Visited, Emitted, TypeOK
<1>3. \A m \in U \cup Emitted : Succ(m) \subseteq U \cup Emitted
  <2>1. ASSUME NEW x \in U, NEW y \in Succ(x) PROVE y \in U \cup Emitted
    <3>1. y \in Node /\ Visited(y)
      BY <1>1, GraphFacts
    <3>2. OnStack(y) \/ y \in Emitted
      BY <3>1 DEF TarjanInv, Sorted
    <3>3. OnStack(y) => y \in U
      BY <1>1, <3>1
    <3>4. QED
      BY <3>2, <3>3
  <2>2. \A m \in Emitted : Succ(m) \subseteq Emitted
    BY DEF TarjanInv, Closed
  <2>3. QED
    BY <2>1, <2>2
<1>4. ASSUME NEW x \in U PROVE Reaches(x, n)
  <2>1. PICK k \in Depth : index[At(k)] <= index[x] /\ Reaches(x, At(k))
    BY DEF TarjanInv, Linked
  <2>2. At(k) \in U \cup Emitted
    BY <1>2, <1>3, <2>1, ReachWithin
  <2>3. At(k) \in U
    BY <2>2, StackFacts DEF TarjanInv, Sorted
  <2>4. ~(k < d)
    BY <1>1, <2>3, StackFacts
  <2>5. k = d
    BY <1>0, <1>1, <2>4
  <2>6. QED
    BY <1>1, <2>1, <2>5
<1>5. U \subseteq Scc(n)
  <2>1. ASSUME NEW x \in U PROVE Reaches(n, x)
    BY <1>1 DEF TarjanInv, Linked
  <2>2. QED
    BY <1>2, <1>4, <2>1 DEF Scc
<1>6. Scc(n) \subseteq U
  <2>1. SUFFICES ASSUME NEW m \in Scc(n), m \notin U PROVE FALSE
    OBVIOUS
  <2>2. Reaches(n, m) /\ Reaches(m, n)
    BY <2>1 DEF Scc
  <2>3. m \in Emitted
    BY <1>2, <1>3, <2>1, <2>2, ReachWithin
  <2>4. Emitted \in SUBSET Node /\ \A x \in Emitted : Succ(x) \subseteq Emitted
    BY DEF TarjanInv, Closed, TypeOK, Emitted
  <2>5. n \in Emitted
    BY <2>2, <2>3, <2>4, ReachWithin
  <2>6. QED
    BY <1>1, <2>5 DEF TarjanInv, Sorted
<1>7. QED
  BY <1>2, <1>3, <1>5, <1>6

\* The step in which the call on top, number d for the node n, returns.
Returned(d, n) ==
  /\ d > 0 /\ Depth = 1..d /\ Len(work') = d - 1
  /\ Depth' = 1..(d - 1) /\ Depth = Depth' \cup {d} /\ d \notin Depth'
  /\ \A k \in Depth' : /\ k \in Depth /\ k \in Nat /\ k < d
                       /\ work'[k] = work[k] /\ At(k)' = At(k)
  /\ \A m : InWork(m) <=> InWork(m)' \/ m = n
  /\ \A m : Visited(m)' <=> Visited(m)
  /\ index' = index /\ NextIndex' = NextIndex
  /\ \A m \in Node :
       lowlink'[m] = IF d > 1 /\ m = At(d - 1) THEN Lower(lowlink[m], lowlink[n])
                     ELSE lowlink[m]
  /\ \A a : Succ(a)' = Succ(a)
  /\ Nodes' = Nodes
  /\ \A a, b : Reaches(a, b)' <=> Reaches(a, b)
  /\ \A a : Scc(a)' = Scc(a)

\* It leaves the calls below as they were, and its lowlink to its caller.
LEMMA FinishFrames ==
  ASSUME TypeOK, TarjanInv, FinishNode, threads' = threads,
         NEW d \in Nat, d = Len(work), NEW n, n = Top.node
  PROVE  Returned(d, n)
<1>1. work \in Seq(Frame) /\ work # <<>> /\ d > 0 /\ lowlink \in [Node -> 0..N]
  <2>1. work \in Seq(Frame) /\ lowlink \in [Node -> 0..N]
    BY DEF TypeOK, Frame
  <2>2. work # <<>>
    BY DEF FinishNode
  <2>3. QED
    BY <2>1, <2>2
<1>2. work' = SubSeq(work, 1, d - 1) /\ index' = index
  BY DEF FinishNode
<1>3. /\ Depth = 1..d /\ Len(work') = d - 1 /\ \A k \in 1..(d - 1) : work'[k] = work[k]
  BY <1>1, <1>2 DEF Depth
<1>4. /\ Depth' = 1..(d - 1) /\ Depth = Depth' \cup {d} /\ d \notin Depth'
      /\ \A k \in Depth' : /\ k \in Depth /\ k \in Nat /\ k < d
                           /\ work'[k] = work[k] /\ At(k)' = At(k)
  <2>1. Depth' = 1..(d - 1) /\ 1..d = 1..(d - 1) \cup {d} /\ d \notin 1..(d - 1)
        /\ \A k \in 1..(d - 1) : k \in Nat /\ k < d
    BY <1>1, <1>3 DEF Depth
  <2>2. QED
    BY <1>3, <2>1 DEF At
<1>5. n = At(d)
  BY DEF At, Top
<1>6. \A m : InWork(m) <=> InWork(m)' \/ m = n
  <2>1. \A m : InWork(m)' <=> \E k \in Depth' : At(k) = m
    BY <1>4 DEF InWork
  <2>2. QED
    BY <2>1, <1>4, <1>5 DEF InWork
<1>7. NextIndex' = NextIndex /\ \A m : Visited(m)' <=> Visited(m)
  BY <1>2 DEF NextIndex, Visited
<1>8. ASSUME NEW m \in Node
      PROVE  lowlink'[m] = IF d > 1 /\ m = At(d - 1) THEN Lower(lowlink[m], lowlink[n])
                           ELSE lowlink[m]
  <2>1. CASE d = 1
    BY <2>1 DEF FinishNode
  <2>2. CASE d > 1
    <3>1. lowlink' = [lowlink EXCEPT ![At(d - 1)] = Lower(lowlink[At(d - 1)], lowlink[n])]
      BY <2>2 DEF FinishNode, At
    <3>2. QED
      BY <2>2, <3>1, <1>1
  <2>3. QED
    BY <1>1, <2>1, <2>2
<1>9. QED
  BY <1>1, <1>2, <1>3, <1>4, <1>6, <1>7, <1>8, SameGraph DEF Returned

\* Emitting a component keeps the invariant.
LEMMA EmitKeeps ==
  ASSUME TypeOK, TarjanInv, FinishNode, threads' = threads,
         lowlink[Top.node] = index[Top.node]
  PROVE  TarjanInv'
<1>0. PICK d \in Nat : d = Len(work)
  BY StackFacts
<1>1. PICK n : n = Top.node
  OBVIOUS
<1>2. work # <<>> /\ Top.children = {}
  BY DEF FinishNode
<1>3. /\ d \in Depth /\ Depth = 1..d /\ n = At(d) /\ n \in Node /\ OnStack(n)
      /\ \A k \in Depth : k < d => index[At(k)] < index[n]
  BY <1>0, <1>1, <1>2, TopSection
<1>4. /\ Len(work') = d - 1 /\ Depth' = 1..(d - 1) /\ Depth = Depth' \cup {d}
      /\ \A k \in Depth' : /\ k \in Depth /\ k \in Nat /\ k < d
                           /\ work'[k] = work[k] /\ At(k)' = At(k)
      /\ \A m : InWork(m) <=> InWork(m)' \/ m = n
      /\ \A m : Visited(m)' <=> Visited(m)
      /\ index' = index /\ NextIndex' = NextIndex
      /\ \A a : Succ(a)' = Succ(a)
      /\ Nodes' = Nodes
      /\ \A a, b : Reaches(a, b)' <=> Reaches(a, b)
      /\ \A a : Scc(a)' = Scc(a)
      /\ \A m \in Node :
           lowlink'[m] = IF d > 1 /\ m = At(d - 1) THEN Lower(lowlink[m], lowlink[n])
                         ELSE lowlink[m]
  <2>1. Returned(d, n)
    BY <1>0, <1>1, FinishFrames
  <2>2. QED
    BY <2>1 DEF Returned
<1>5. PICK U \in SUBSET Node : U = {m \in Node : OnStack(m) /\ index[n] <= index[m]}
  OBVIOUS
<1>6. /\ U = Scc(n) /\ n \in Nodes
      /\ \A m \in U \cup Emitted : Succ(m) \subseteq U \cup Emitted
  BY <1>1, <1>2, <1>5, RootOfComponent
<1>7. PICK h \in 1..Len(stack) :
        /\ stack[h] = n
        /\ components' = components \cup {{stack[k] : k \in h..Len(stack)}}
        /\ stack' = SubSeq(stack, 1, h - 1)
  <2>1. \E k \in 1..Len(stack) : stack[k] = n
    BY <1>3 DEF OnStack
  <2>2. QED
    BY <1>1, <2>1 DEF FinishNode
<1>8. Len(stack) \in Nat /\ h \in Nat /\ stack \in Seq(Node)
  BY <1>7, StackFacts DEF TypeOK
<1>9. /\ \A m \in Node : index[m] \in Nat /\ lowlink[m] \in Nat
      /\ \A m : OnStack(m) => m \in Node
      /\ \A k \in Depth : At(k) \in Node /\ OnStack(At(k))
  BY StackFacts
<1>10. \A k \in 1..Len(stack) : k < h <=> index[stack[k]] < index[n]
  <2>1. SUFFICES ASSUME NEW k \in 1..Len(stack) PROVE k < h <=> index[stack[k]] < index[n]
    OBVIOUS
  <2>2. stack[k] \in Node /\ index[stack[k]] \in Nat /\ index[n] \in Nat
    BY <1>3, <1>9, StackFacts
  <2>3. k < h => index[stack[k]] < index[n]
    BY <1>7 DEF TarjanInv, Numbered
  <2>4. h < k => index[n] < index[stack[k]]
    BY <1>7 DEF TarjanInv, Numbered
  <2>5. k = h => index[n] = index[stack[k]]
    BY <1>7
  <2>6. k < h \/ k = h \/ h < k
    BY <1>8
  <2>7. QED
    BY <2>2, <2>3, <2>4, <2>5, <2>6
<1>11. {stack[k] : k \in h..Len(stack)} = U
  <2>1. ASSUME NEW k \in h..Len(stack) PROVE stack[k] \in U
    <3>1. k \in 1..Len(stack) /\ ~(k < h)
      BY <1>8, <1>7
    <3>2. stack[k] \in Node /\ OnStack(stack[k]) /\ ~(index[stack[k]] < index[n])
      BY <3>1, <1>10, StackFacts
    <3>3. index[n] <= index[stack[k]]
      BY <3>2, <1>3, <1>9
    <3>4. QED
      BY <3>2, <3>3, <1>5
  <2>2. ASSUME NEW m \in U PROVE \E k \in h..Len(stack) : m = stack[k]
    <3>1. PICK k \in 1..Len(stack) : stack[k] = m
      BY <1>5 DEF OnStack
    <3>2. ~(index[stack[k]] < index[n])
      BY <3>1, <1>3, <1>5, <1>9
    <3>3. ~(k < h)
      BY <3>2, <1>10
    <3>4. k \in h..Len(stack)
      BY <3>3, <1>8
    <3>5. QED
      BY <3>1, <3>4
  <2>3. QED
    BY <2>1, <2>2
<1>12. Emitted' = Emitted \cup U /\ components' = components \cup {U}
  BY <1>7, <1>11 DEF Emitted
<1>13. /\ Len(stack') = h - 1 /\ \A k \in 1..(h - 1) : stack'[k] = stack[k]
       /\ \A k \in 1..(h - 1) : k \in 1..Len(stack) /\ k < h
  BY <1>7, <1>8
<1>14. \A m : OnStack(m)' <=> OnStack(m) /\ m \notin U
  <2>1. ASSUME NEW m PROVE OnStack(m)' <=> OnStack(m) /\ m \notin U
    <3>1. OnStack(m)' <=> \E k \in 1..(h - 1) : stack[k] = m
      BY <1>13 DEF OnStack
    <3>2. ASSUME NEW k \in 1..(h - 1), stack[k] = m PROVE OnStack(m) /\ m \notin U
      <4>1. k \in 1..Len(stack) /\ k < h
        BY <1>13
      <4>2. index[m] < index[n] /\ m \in Node /\ OnStack(m)
        BY <3>2, <4>1, <1>10, StackFacts
      <4>3. QED
        BY <4>2, <1>3, <1>5, <1>9
    <3>3. ASSUME OnStack(m), m \notin U PROVE \E k \in 1..(h - 1) : stack[k] = m
      <4>1. PICK k \in 1..Len(stack) : stack[k] = m
        BY <3>3 DEF OnStack
      <4>2. m \in Node /\ ~(index[n] <= index[m])
        BY <3>3, <1>5, <1>9
      <4>3. index[stack[k]] < index[n]
        BY <4>1, <4>2, <1>3, <1>9
      <4>4. k < h
        BY <4>3, <1>10
      <4>5. k \in 1..(h - 1)
        BY <4>4, <1>8
      <4>6. QED
        BY <4>1, <4>5
    <3>4. QED
      BY <3>1, <3>2, <3>3
  <2>2. QED
    BY <2>1
<1>15. \A m \in Node : OnStack(m)' => OnStack(m) /\ index[m] < index[n]
  BY <1>3, <1>5, <1>9, <1>14
<1>16. \A k \in Depth' : /\ index[At(k)] < index[n] /\ At(k) \in Node
                         /\ lowlink'[At(k)] = lowlink[At(k)]
  <2>1. SUFFICES ASSUME NEW k \in Depth'
                 PROVE  /\ index[At(k)] < index[n] /\ At(k) \in Node
                        /\ lowlink'[At(k)] = lowlink[At(k)]
    OBVIOUS
  <2>2. index[At(k)] < index[n] /\ At(k) \in Node
    BY <1>3, <1>4, <1>9
  <2>3. lowlink[At(k)] <= index[At(k)] /\ lowlink[n] = index[n]
    BY <1>1, <1>4 DEF TarjanInv, LowFound
  <2>4. Lower(lowlink[At(k)], lowlink[n]) = lowlink[At(k)]
    BY <2>2, <2>3, <1>3, <1>9 DEF Lower
  <2>5. QED
    BY <2>2, <2>4, <1>4
<1>17. Numbered'
  <2>1. \A j, k \in 1..Len(stack') : j < k => index'[stack'[j]] < index'[stack'[k]]
    BY <1>4, <1>13 DEF TarjanInv, Numbered
  <2>2. \A k \in Depth' : OnStack(At(k))'
    <3>1. SUFFICES ASSUME NEW k \in Depth' PROVE OnStack(At(k))'
      OBVIOUS
    <3>2. PICK m : m = At(k)
      OBVIOUS
    <3>3. OnStack(m) /\ m \notin U
      BY <3>2, <1>3, <1>4, <1>5, <1>9, <1>16
    <3>4. OnStack(m)' /\ m = At(k)'
      BY <3>2, <3>3, <1>4, <1>14
    <3>5. QED
      BY <3>4 DEF OnStack
  <2>3. QED
    BY <2>1, <2>2, <1>4 DEF TarjanInv, Numbered
<1>18. Sorted'
  BY <1>4, <1>5, <1>12, <1>14 DEF TarjanInv, Sorted
<1>19. Explored'
  <2>1. \A m : OnStack(m)' /\ ~InWork(m)' => OnStack(m) /\ ~InWork(m)
    <3>1. n \in U
      BY <1>3, <1>5, <1>9
    <3>2. QED
      BY <3>1, <1>4, <1>14
  <2>2. QED
    BY <2>1, <1>4 DEF TarjanInv, Explored
<1>20. Closed'
  BY <1>4, <1>6, <1>12 DEF TarjanInv, Closed
<1>21. Linked'
  <2>1. \A k \in Depth' : \A y \in Node :
          OnStack(y)' /\ index[At(k)] <= index[y] => Reaches(At(k), y)
    BY <1>4, <1>14 DEF TarjanInv, Linked
  <2>2. \A y \in Node : OnStack(y)' =>
          \E k \in Depth' : index[At(k)] <= index[y] /\ Reaches(y, At(k))
    <3>1. SUFFICES ASSUME NEW y \in Node, OnStack(y)'
                   PROVE  \E k \in Depth' : index[At(k)] <= index[y] /\ Reaches(y, At(k))
      OBVIOUS
    <3>2. OnStack(y) /\ index[y] < index[n]
      BY <3>1, <1>15
    <3>3. PICK k \in Depth : index[At(k)] <= index[y] /\ Reaches(y, At(k))
      BY <3>2 DEF TarjanInv, Linked
    <3>4. k # d
      BY <3>2, <3>3, <1>3, <1>9
    <3>5. QED
      BY <3>3, <3>4, <1>4
  <2>3. QED
    BY <2>1, <2>2, <1>4 DEF Linked
<1>22. LowFound'
  <2>1. SUFFICES ASSUME NEW k \in Depth'
                 PROVE  /\ lowlink[At(k)] <= index[At(k)]
                        /\ \E y \in Node : /\ OnStack(y)' /\ index[y] = lowlink[At(k)]
                                           /\ Reaches(At(k), y)
    BY <1>4, <1>16 DEF LowFound
  <2>2. lowlink[At(k)] <= index[At(k)]
    BY <1>4 DEF TarjanInv, LowFound
  <2>3. PICK y \in Node : OnStack(y) /\ index[y] = lowlink[At(k)] /\ Reaches(At(k), y)
    BY <1>4 DEF TarjanInv, LowFound
  <2>4. y \notin U
    <3>1. index[y] < index[n]
      BY <2>2, <2>3, <1>3, <1>9, <1>16
    <3>2. QED
      BY <3>1, <1>3, <1>5, <1>9
  <2>5. QED
    BY <2>2, <2>3, <2>4, <1>14
<1>23. LowLeast'
  <2>1. SUFFICES ASSUME NEW k \in Depth', NEW x \in Node, NEW y \in Node,
                        Section(k, x)', OnStack(y)', y \in Succ(x),
                        x = At(k) => y \notin work[k].children
                 PROVE  lowlink[At(k)] <= index[y]
    BY <1>4, <1>16 DEF LowLeast
  <2>2. OnStack(x)' /\ index[At(k)] <= index[x]
        /\ (k < d - 1 => index[x] < index[At(k + 1)])
    <3>1. k < d - 1 => k + 1 \in Depth'
      BY <1>4
    <3>2. QED
      BY <2>1, <3>1, <1>4 DEF Section
  <2>3. OnStack(x) /\ OnStack(y) /\ index[x] < index[n]
    BY <2>1, <2>2, <1>14, <1>15
  <2>4. k < d => index[x] < index[At(k + 1)]
    <3>1. k < d - 1 \/ k + 1 = d
      BY <1>4
    <3>2. QED
      BY <2>2, <2>3, <3>1, <1>3
  <2>5. Section(k, x)
    BY <2>2, <2>3, <2>4, <1>0 DEF Section
  <2>6. QED
    BY <2>1, <2>3, <2>5, <1>4 DEF TarjanInv, LowLeast
<1>24. QED
  BY <1>17, <1>18, <1>19, <1>20, <1>21, <1>22, <1>23 DEF TarjanInv

\* A call that returns without emitting a component hands its part of the stack
\* over to its caller: the invariant is kept.
LEMMA PassOnKeeps ==
  ASSUME TypeOK, TarjanInv, FinishNode, threads' = threads,
         lowlink[Top.node] # index[Top.node]
  PROVE  TarjanInv'
<1>0. PICK d \in Nat : d = Len(work)
  BY StackFacts
<1>1. PICK n : n = Top.node
  OBVIOUS
<1>2. work # <<>> /\ Top.children = {} /\ components' = components /\ stack' = stack
  BY DEF FinishNode
<1>3. /\ d \in Depth /\ Depth = 1..d /\ n = At(d) /\ n \in Node /\ OnStack(n)
      /\ work[d].children = {}
      /\ \A k \in Depth : k < d => index[At(k)] < index[n]
      /\ \A x \in Node : OnStack(x) /\ index[n] <= index[x] =>
           \A y \in Succ(x) : Visited(y) /\ (OnStack(y) => lowlink[n] <= index[y])
  BY <1>0, <1>1, <1>2, TopSection
<1>4. /\ Len(work') = d - 1 /\ Depth' = 1..(d - 1) /\ Depth = Depth' \cup {d}
      /\ \A k \in Depth' : /\ k \in Depth /\ k \in Nat /\ k < d
                           /\ work'[k] = work[k] /\ At(k)' = At(k)
      /\ \A m : InWork(m) <=> InWork(m)' \/ m = n
      /\ \A m : Visited(m)' <=> Visited(m)
      /\ index' = index /\ NextIndex' = NextIndex
      /\ \A a : Succ(a)' = Succ(a)
      /\ Nodes' = Nodes
      /\ \A a, b : Reaches(a, b)' <=> Reaches(a, b)
      /\ \A a : Scc(a)' = Scc(a)
      /\ \A m \in Node :
           lowlink'[m] = IF d > 1 /\ m = At(d - 1) THEN Lower(lowlink[m], lowlink[n])
                         ELSE lowlink[m]
  <2>1. Returned(d, n)
    BY <1>0, <1>1, FinishFrames
  <2>2. QED
    BY <2>1 DEF Returned
<1>5. Emitted' = Emitted /\ \A m : OnStack(m)' <=> OnStack(m)
  BY <1>2 DEF Emitted, OnStack
<1>6. /\ \A m \in Node : index[m] \in Nat /\ lowlink[m] \in Nat
      /\ \A m : OnStack(m) => m \in Node
      /\ \A k \in Depth : At(k) \in Node /\ OnStack(At(k))
  BY StackFacts
<1>7. PICK below \in Node : /\ OnStack(below) /\ index[below] = lowlink[n]
                            /\ Reaches(n, below) /\ index[below] < index[n]
  <2>1. lowlink[n] <= index[n] /\ lowlink[n] # index[n]
    BY <1>1, <1>3 DEF TarjanInv, LowFound
  <2>2. lowlink[n] < index[n]
    BY <2>1, <1>3, <1>6
  <2>3. QED
    BY <2>2, <1>3 DEF TarjanInv, LowFound
<1>8. PICK g \in Depth' : index[At(g)] < index[n] /\ Reaches(n, At(g))
  <2>1. PICK k \in Depth : index[At(k)] <= index[below] /\ Reaches(below, At(k))
    BY <1>7 DEF TarjanInv, Linked
  <2>2. index[At(k)] < index[n]
    BY <2>1, <1>3, <1>6, <1>7
  <2>3. k # d
    BY <2>2, <1>3, <1>6
  <2>4. QED
    BY <2>1, <2>2, <2>3, <1>4, <1>7, ReachFacts
<1>9. d > 1 /\ d - 1 \in Depth'
  BY <1>4, <1>8
<1>10. PICK p \in Node : p = At(d - 1) /\ OnStack(p) /\ index[p] < index[n] /\ Reaches(p, n)
  <2>1. d - 1 \in Depth /\ d - 1 < d
    BY <1>4, <1>9
  <2>2. At(d - 1) \in Node /\ OnStack(At(d - 1)) /\ index[At(d - 1)] < index[n]
    BY <2>1, <1>3, <1>6
  <2>3. index[At(d - 1)] <= index[n]
    BY <2>2, <1>3, <1>6
  <2>4. Reaches(At(d - 1), n)
    BY <2>1, <2>3, <1>3 DEF TarjanInv, Linked
  <2>5. QED
    BY <2>2, <2>4
<1>11. /\ lowlink'[p] \in Nat /\ lowlink'[p] <= lowlink[p] /\ lowlink'[p] <= lowlink[n]
       /\ lowlink'[p] = lowlink[p] \/ lowlink'[p] = lowlink[n]
       /\ \A m \in Node : m # p => lowlink'[m] = lowlink[m]
  <2>1. lowlink'[p] = Lower(lowlink[p], lowlink[n])
    BY <1>4, <1>9, <1>10
  <2>2. \A m \in Node : m # p => lowlink'[m] = lowlink[m]
    BY <1>4, <1>10
  <2>3. QED
    BY <2>1, <2>2, <1>3, <1>6 DEF Lower
<1>12. Numbered'
  <2>1. \A k \in Depth' : OnStack(At(k))'
    <3>1. SUFFICES ASSUME NEW k \in Depth' PROVE OnStack(At(k))'
      OBVIOUS
    <3>2. PICK m : m = At(k)
      OBVIOUS
    <3>3. OnStack(m)' /\ m = At(k)'
      BY <3>2, <1>4, <1>5, <1>6
    <3>4. QED
      BY <3>3 DEF OnStack
  <2>2. QED
    BY <2>1, <1>2, <1>4 DEF TarjanInv, Numbered
<1>13. Sorted'
  BY <1>4, <1>5 DEF TarjanInv, Sorted
<1>14. Explored'
  <2>1. \A y \in Succ(n) : Visited(y)
    <3>1. index[n] <= index[n]
      BY <1>3, <1>6
    <3>2. QED
      BY <3>1, <1>3
  <2>2. QED
    BY <2>1, <1>4, <1>5 DEF TarjanInv, Explored
<1>15. Closed'
  BY <1>2, <1>4, <1>5 DEF TarjanInv, Closed
<1>16. Linked'
  <2>1. \A y \in Node : OnStack(y) =>
          \E k \in Depth' : index[At(k)] <= index[y] /\ Reaches(y, At(k))
    <3>1. SUFFICES ASSUME NEW y \in Node, OnStack(y)
                   PROVE  \E k \in Depth' : index[At(k)] <= index[y] /\ Reaches(y, At(k))
      OBVIOUS
    <3>2. PICK k \in Depth : index[At(k)] <= index[y] /\ Reaches(y, At(k))
      BY <3>1 DEF TarjanInv, Linked
    <3>3. CASE k \in Depth'
      BY <3>2, <3>3
    <3>4. CASE k = d
      <4>1. index[At(g)] <= index[y]
        BY <3>2, <3>4, <1>3, <1>4, <1>6, <1>8
      <4>2. Reaches(y, At(g))
        BY <3>2, <3>4, <1>3, <1>8, ReachFacts
      <4>3. QED
        BY <4>1, <4>2
    <3>5. QED
      BY <3>3, <3>4, <1>4
  <2>2. QED
    BY <2>1, <1>4, <1>5 DEF TarjanInv, Linked
<1>17. LowFound'
  <2>1. SUFFICES ASSUME NEW k \in Depth'
                 PROVE  /\ lowlink'[At(k)] <= index[At(k)]
                        /\ \E y \in Node : /\ OnStack(y) /\ index[y] = lowlink'[At(k)]
                                           /\ Reaches(At(k), y)
    BY <1>4, <1>5 DEF LowFound
  <2>2. /\ lowlink[At(k)] <= index[At(k)]
        /\ \E y \in Node : /\ OnStack(y) /\ index[y] = lowlink[At(k)]
                           /\ Reaches(At(k), y)
    BY <1>4 DEF TarjanInv, LowFound
  <2>3. CASE At(k) # p \/ lowlink'[p] = lowlink[p]
    BY <2>2, <2>3, <1>4, <1>6, <1>11
  <2>4. CASE At(k) = p /\ lowlink'[p] = lowlink[n]
    <3>1. lowlink'[p] <= index[p]
      BY <2>2, <2>4, <1>6, <1>11
    <3>2. Reaches(p, below)
      BY <1>7, <1>10, ReachFacts
    <3>3. QED
      BY <2>4, <3>1, <3>2, <1>7
  <2>5. QED
    BY <2>3, <2>4, <1>11
<1>18. LowLeast'
  <2>1. SUFFICES ASSUME NEW k \in Depth', NEW x \in Node, NEW y \in Node,
                        Section(k, x)', OnStack(y), y \in Succ(x),
                        x = At(k) => y \notin work[k].children
                 PROVE  lowlink'[At(k)] <= index[y]
    BY <1>4, <1>5 DEF LowLeast
  <2>2. OnStack(x) /\ index[At(k)] <= index[x]
        /\ (k < d - 1 => index[x] < index[At(k + 1)])
    <3>1. k < d - 1 => k + 1 \in Depth'
      BY <1>4
    <3>2. QED
      BY <2>1, <3>1, <1>4, <1>5 DEF Section
  <2>3. k < d - 1 \/ k = d - 1
    BY <1>4
  <2>4. CASE Section(k, x)
    <3>1. lowlink[At(k)] <= index[y]
      BY <2>1, <2>4, <1>4 DEF TarjanInv, LowLeast
    <3>2. At(k) \in Node /\ lowlink'[At(k)] \in Nat /\ lowlink'[At(k)] <= lowlink[At(k)]
      <4>1. At(k) \in Node /\ lowlink[At(k)] \in Nat
        BY <1>4, <1>6
      <4>2. CASE At(k) = p
        BY <4>2, <1>10, <1>11
      <4>3. CASE At(k) # p
        BY <4>1, <4>3, <1>11
      <4>4. QED
        BY <4>2, <4>3
    <3>3. QED
      BY <3>1, <3>2, <1>6
  <2>5. CASE ~Section(k, x)
    <3>1. k = d - 1
      <4>1. k < d - 1 => Section(k, x)
        BY <2>2, <1>0, <1>4 DEF Section
      <4>2. QED
        BY <2>3, <2>5, <4>1
    <3>2. k + 1 = d
      BY <3>1, <1>4
    <3>3. ~(index[x] < index[n])
      BY <2>2, <2>5, <3>2, <1>0, <1>3 DEF Section
    <3>4. index[n] <= index[x]
      BY <3>3, <1>3, <1>6
    <3>5. lowlink[n] <= index[y]
      BY <2>1, <2>2, <3>4, <1>3
    <3>6. QED
      BY <3>1, <3>5, <1>3, <1>6, <1>10, <1>11
  <2>6. QED
    BY <2>4, <2>5
<1>19. QED
  BY <1>12, <1>13, <1>14, <1>15, <1>16, <1>17, <1>18 DEF TarjanInv

\* The component search keeps the types.
LEMMA TarjanTypes ==
  ASSUME TypeOK, TarjanInv, Tarjan
  PROVE  TypeOK'
<1>1. /\ index \in [Node -> 0..N] /\ lowlink \in [Node -> 0..N] /\ N \in Nat
      /\ stack \in Seq(Node) /\ work \in Seq(Frame)
      /\ components \subseteq SUBSET Node /\ searched \subseteq components
  BY StackFacts DEF TypeOK, Frame
<1>2. /\ UNCHANGED <<threads, members, path, choices, cycles, findings, truncated, done>>
      /\ searched' = searched
  BY DEF Tarjan, searchVars
<1>3. SUFFICES /\ index' \in [Node -> 0..N] /\ lowlink' \in [Node -> 0..N]
               /\ stack' \in Seq(Node) /\ work' \in Seq(Frame)
               /\ components' \subseteq SUBSET Node /\ components \subseteq components'
  BY <1>1, <1>2 DEF TypeOK, Frame
<1>4. ASSUME NEW n \in Node, index[n] = 0, NEW below \in Seq(Frame), Visit(n, below),
             components' = components
      PROVE  /\ index' \in [Node -> 0..N] /\ lowlink' \in [Node -> 0..N]
             /\ stack' \in Seq(Node) /\ work' \in Seq(Frame)
             /\ components' \subseteq SUBSET Node /\ components \subseteq components'
  <2>1. NextIndex \in 0..N
    BY <1>1, <1>4, NextIndexFacts
  <2>2. index' \in [Node -> 0..N] /\ lowlink' \in [Node -> 0..N] /\ stack' \in Seq(Node)
    BY <1>1, <1>4, <2>1 DEF Visit
  <2>3. Succ(n) \in SUBSET Node
    BY DEF Succ
  <2>4. [node |-> n, children |-> Succ(n)] \in Frame
    BY <2>3 DEF Frame
  <2>5. work' \in Seq(Frame)
    BY <1>4, <2>4 DEF Visit
  <2>6. QED
    BY <1>1, <1>4, <2>2, <2>5
<1>5. CASE VisitRoot
  <2>1. Unvisited \in SUBSET Node /\ Unvisited # {}
    BY <1>5 DEF VisitRoot, Unvisited, Nodes
  <2>2. Min(Unvisited) \in Unvisited
    BY <2>1, MinNode
  <2>3. Min(Unvisited) \in Node /\ index[Min(Unvisited)] = 0
    BY <2>1, <2>2 DEF Unvisited
  <2>4. <<>> \in Seq(Frame)
    OBVIOUS
  <2>5. QED
    BY <1>4, <1>5, <2>3, <2>4 DEF VisitRoot
<1>6. CASE \E c \in Node : VisitChild(c)
  <2>1. PICK c \in Node : VisitChild(c)
    BY <1>6
  <2>2. PICK rest : rest = [work EXCEPT ![Len(work)].children = @ \ {c}]
    OBVIOUS
  <2>3. rest \in Seq(Frame)
    <3>0. PICK d \in Nat : d = Len(work)
      BY <1>1
    <3>1. d \in 1..Len(work) /\ work[d] \in Frame
      BY <2>1, <1>1, <3>0 DEF VisitChild
    <3>2. PICK f \in Frame : f = [work[d] EXCEPT !.children = @ \ {c}]
      BY <3>1 DEF Frame
    <3>3. rest = [work EXCEPT ![d] = f]
      BY <2>2, <3>0, <3>2
    <3>4. work \in Seq(Frame)
      BY <1>1
    <3>5. QED
      BY ONLY <3>1, <3>2, <3>3, <3>4, ExceptSeq
  <2>4. CASE index[c] = 0
    <3>1. Visit(c, rest) /\ components' = components
      BY <2>1, <2>2, <2>4 DEF VisitChild
    <3>2. QED
      BY <1>4, <2>3, <2>4, <3>1
  <2>5. CASE index[c] # 0
    <3>1. /\ work' = rest /\ index' = index /\ stack' = stack /\ components' = components
          /\ lowlink' = IF OnStack(c)
                        THEN [lowlink EXCEPT ![Top.node] = Lower(@, index[c])]
                        ELSE lowlink
      BY <2>1, <2>2, <2>5 DEF VisitChild
    <3>2. Top.node \in Node
      <4>1. work # <<>>
        BY <2>1 DEF VisitChild
      <4>2. Len(work) \in 1..Len(work) /\ work[Len(work)] \in Frame
        BY <1>1, <4>1
      <4>3. QED
        BY <4>2 DEF Top, Frame
    <3>3. Lower(lowlink[Top.node], index[c]) \in 0..N
      BY <3>2, <1>1 DEF Lower
    <3>4. lowlink' \in [Node -> 0..N]
      BY <3>1, <3>3, <1>1
    <3>5. QED
      BY <3>1, <3>4, <2>3, <1>1
  <2>6. QED
    BY <2>4, <2>5
<1>7. CASE FinishNode
  <2>0. PICK d \in Nat : d = Len(work)
    BY <1>1
  <2>1. PICK n : n = Top.node
    OBVIOUS
  <2>2. d \in Depth /\ n \in Node /\ OnStack(n) /\ Returned(d, n) /\ n = At(d) /\ d > 0
        /\ work # <<>>
    <3>1. work # <<>> /\ Top.children = {} /\ threads' = threads
      BY <1>7, <1>2 DEF FinishNode
    <3>2. Returned(d, n)
      BY <1>7, <2>0, <2>1, <3>1, FinishFrames
    <3>3. d \in Depth /\ n \in Node /\ OnStack(n) /\ n = At(d)
      BY <2>0, <2>1, <3>1, TopSection
    <3>4. QED
      BY <3>1, <3>2, <3>3 DEF Returned
  <2>3. work' \in Seq(Frame) /\ index' = index
    BY <1>1, <1>7, <2>0, <2>2 DEF FinishNode
  <2>4. lowlink' \in [Node -> 0..N]
    <3>1. CASE d = 1
      BY <1>1, <1>7, <2>0, <3>1 DEF FinishNode
    <3>2. CASE d > 1
      <4>1. lowlink' = [lowlink EXCEPT ![At(d - 1)] = Lower(lowlink[At(d - 1)], lowlink[n])]
        BY <1>7, <2>0, <2>1, <3>2 DEF FinishNode, At
      <4>2. d - 1 \in Depth
        BY <2>0, <3>2 DEF Depth
      <4>3. At(d - 1) \in Node
        BY <4>2, StackFacts
      <4>4. Lower(lowlink[At(d - 1)], lowlink[n]) \in 0..N
        BY <4>3, <2>2, <1>1 DEF Lower
      <4>5. QED
        BY <4>1, <4>4, <1>1
    <3>3. QED
      BY <2>2, <3>1, <3>2
  <2>5. CASE lowlink[n] # index[n]
    <3>1. components' = components /\ stack' = stack
      BY <1>7, <2>1, <2>5 DEF FinishNode
    <3>2. QED
      BY <3>1, <2>3, <2>4, <1>1
  <2>6. CASE lowlink[n] = index[n]
    <3>1. \E k \in 1..Len(stack) : stack[k] = n
      BY <2>2 DEF OnStack
    <3>2. PICK h \in 1..Len(stack) :
            /\ components' = components \cup {{stack[k] : k \in h..Len(stack)}}
            /\ stack' = SubSeq(stack, 1, h - 1)
      BY <1>7, <2>1, <2>6, <3>1 DEF FinishNode
    <3>3. Len(stack) \in Nat /\ \A k \in h..Len(stack) : k \in 1..Len(stack)
      BY <1>1, <3>2
    <3>4. {stack[k] : k \in h..Len(stack)} \subseteq Node
      BY <3>3, <1>1
    <3>5. stack' \in Seq(Node)
      BY <1>1, <3>2, <3>3
    <3>6. QED
      BY <3>2, <3>4, <3>5, <2>3, <2>4, <1>1
  <2>7. QED
    BY <2>5, <2>6
<1>8. QED
  BY <1>5, <1>6, <1>7 DEF Tarjan

\* The component search keeps its invariant.
LEMMA TarjanKeeps ==
  ASSUME TypeOK, TarjanInv, Tarjan
  PROVE  TarjanInv'
<1>1. threads' = threads /\ work \in Seq(Frame)
  BY DEF Tarjan, TypeOK, Frame
<1>2. CASE VisitRoot
  <2>1. /\ work = <<>> /\ Unvisited # {} /\ Visit(Min(Unvisited), <<>>)
        /\ components' = components
    BY <1>2 DEF VisitRoot
  <2>2. Unvisited \in SUBSET Node
    BY DEF Unvisited, Nodes
  <2>3. PICK n : n = Min(Unvisited)
    OBVIOUS
  <2>4. n \in Nodes /\ index[n] = 0
    BY <2>1, <2>2, <2>3, MinNode DEF Unvisited
  <2>5. Depth = {} /\ <<>> \in Seq(Frame) /\ Len(<<>>) = Len(work) /\ ~(work # <<>>)
    BY <2>1 DEF Depth
  <2>6. QED
    BY <2>1, <2>3, <2>4, <2>5, <1>1, VisitKeeps
<1>3. CASE \E c \in Node : VisitChild(c)
  <2>0. PICK d \in Nat : d = Len(work)
    BY <1>1
  <2>1. PICK c \in Node : VisitChild(c)
    BY <1>3
  <2>2. work # <<>> /\ c \in Top.children /\ components' = components
    BY <2>1 DEF VisitChild
  <2>3. d \in 1..Len(work) /\ d \in Depth /\ Top = work[d] /\ work[d] \in Frame
    BY <1>1, <2>0, <2>2 DEF Depth, Top
  <2>4. CASE index[c] # 0
    BY <1>1, <2>1, <2>2, <2>4, LookKeeps DEF VisitChild
  <2>5. CASE index[c] = 0
    <3>1. PICK rest : rest = [work EXCEPT ![Len(work)].children = @ \ {c}]
      OBVIOUS
    <3>2. PICK f \in Frame : f = [work[d] EXCEPT !.children = @ \ {c}]
      BY <2>3 DEF Frame
    <3>3. rest = [work EXCEPT ![d] = f]
      BY <2>0, <3>1, <3>2
    <3>4. /\ rest \in Seq(Frame) /\ Len(rest) = Len(work)
          /\ \A j \in 1..Len(work) : rest[j] = IF j = d THEN f ELSE work[j]
      BY ONLY <1>1, <2>3, <3>2, <3>3, ExceptSeq
    <3>5. f.node = work[d].node /\ f.children = work[d].children \ {c}
      BY <2>3, <3>2 DEF Frame
    <3>6. /\ \A k \in Depth : rest[k].node = At(k)
          /\ \A k \in Depth : k < Len(work) => rest[k] = work[k]
          /\ rest[Len(work)].children = Top.children \ {c}
      BY <2>0, <2>3, <3>4, <3>5 DEF Depth, At
    <3>7. c \in Nodes
      <4>1. c \in Succ(At(d))
        BY <2>2, <2>3 DEF TarjanInv, Explored
      <4>2. At(d) \in Node
        BY <2>3 DEF At, Frame
      <4>3. QED
        BY <4>1, <4>2, GraphFacts
    <3>8. Visit(c, rest)
      BY <2>1, <2>5, <3>1 DEF VisitChild
    <3>9. QED
      BY <1>1, <2>2, <2>5, <3>4, <3>6, <3>7, <3>8, VisitKeeps
  <2>6. QED
    BY <2>4, <2>5
<1>4. CASE FinishNode
  BY <1>1, <1>4, EmitKeeps, PassOnKeeps
<1>5. QED
  BY <1>2, <1>3, <1>4 DEF Tarjan

\* The cycle search leaves the component search alone.
LEMMA SameTarjan ==
  ASSUME TarjanInv, UNCHANGED <<threads, tarjanVars, components>>
  PROVE  TarjanInv'
<1>1. threads' = threads /\ components' = components /\ index' = index
      /\ lowlink' = lowlink /\ stack' = stack /\ work' = work
  BY DEF tarjanVars
<1>2. /\ \A m : OnStack(m)' <=> OnStack(m)
      /\ \A m : InWork(m)' <=> InWork(m)
      /\ \A m : Visited(m)' <=> Visited(m)
      /\ \A k : At(k)' = At(k)
      /\ Depth' = Depth /\ Emitted' = Emitted /\ NextIndex' = NextIndex
      /\ \A k, x : Section(k, x)' <=> Section(k, x)
  BY <1>1 DEF OnStack, InWork, Visited, At, Depth, Emitted, NextIndex, Section
<1>3. /\ \A a : Succ(a)' = Succ(a)
      /\ Nodes' = Nodes
      /\ \A a, b : Reaches(a, b)' <=> Reaches(a, b)
      /\ \A a : Scc(a)' = Scc(a)
  BY <1>1, SameGraph
<1>4. Numbered'
  <2>1. \A k \in Depth' : OnStack(At(k))'
    BY <1>1 DEF OnStack, At, Depth, TarjanInv, Numbered
  <2>2. QED
    BY <1>1, <1>2, <2>1 DEF TarjanInv, Numbered
<1>5. Sorted' /\ Explored' /\ Closed'
  BY <1>1, <1>2, <1>3 DEF TarjanInv, Sorted, Explored, Closed
<1>6. Linked' /\ LowFound' /\ LowLeast'
  BY <1>1, <1>2, <1>3 DEF TarjanInv, Linked, LowFound, LowLeast
<1>7. QED
  BY <1>4, <1>5, <1>6 DEF TarjanInv

-----------------------------------------------------------------------------
(* The components found are the strongly connected components. *)

\* A function on 1..k is a sequence of length k.
LEMMA FunctionSeq ==
  ASSUME NEW S, NEW k \in Nat, NEW q \in [1..k -> S]
  PROVE  q \in Seq(S) /\ Len(q) = k
<1>1. q \in Seq(S)
  BY SeqDef
<1>2. DOMAIN q = 1..Len(q) /\ Len(q) \in Nat /\ DOMAIN q = 1..k
  BY <1>1, LenProperties
<1>3. QED
  BY <1>1, <1>2

\* A sequence without repetition is no longer than there are nodes.
LEMMA NoRepetition ==
  ASSUME NEW k \in Nat, NEW q \in [1..k -> Node],
         \A i, j \in 1..k : i # j => q[i] # q[j]
  PROVE  k <= N
<1>1. N \in Nat /\ N \in Int /\ k \in Int /\ 1 \in Int
  BY LockCyclesAssumption
<1>2. IsFiniteSet(1..N) /\ Cardinality(1..N) = N
  <2>1. IsFiniteSet(1..N) /\ Cardinality(1..N) = IF 1 > N THEN 0 ELSE N - 1 + 1
    BY <1>1, FS_Interval
  <2>2. QED
    BY <2>1, <1>1
<1>3. IsFiniteSet(1..k) /\ Cardinality(1..k) = k
  <2>1. IsFiniteSet(1..k) /\ Cardinality(1..k) = IF 1 > k THEN 0 ELSE k - 1 + 1
    BY <1>1, FS_Interval
  <2>2. QED
    BY <2>1, <1>1
<1>4. SUFFICES ASSUME N < k PROVE FALSE
  BY <1>1
<1>5. \E x, y \in 1..k : x # y /\ q[x] = q[y]
  BY <1>2, <1>3, <1>4, FS_PigeonHole DEF Node
<1>6. QED
  BY <1>5

\* A path of the definition is a sequence of nodes without repetition.
LEMMA PathFacts ==
  ASSUME NEW p \in Paths
  PROVE  /\ p \in Seq(Node) /\ Len(p) \in 1..N /\ p \in [1..Len(p) -> Node]
         /\ \A i, j \in 1..Len(p) : i # j => p[i] # p[j]
<1>1. PICK k \in 1..N : p \in [1..k -> Node] /\ \A i, j \in 1..k : i # j => p[i] # p[j]
  BY DEF Paths
<1>2. k \in Nat
  BY LockCyclesAssumption
<1>3. p \in Seq(Node) /\ Len(p) = k
  BY <1>1, <1>2, FunctionSeq
<1>4. QED
  BY <1>1, <1>3

\* And conversely.
LEMMA IsAPath ==
  ASSUME NEW k \in Nat \ {0}, NEW q \in [1..k -> Node],
         \A i, j \in 1..k : i # j => q[i] # q[j]
  PROVE  q \in Paths /\ Len(q) = k
<1>1. k <= N /\ N \in Nat
  BY NoRepetition, LockCyclesAssumption
<1>2. k \in 1..N
  BY <1>1
<1>3. q \in Paths
  BY <1>2 DEF Paths
<1>4. QED
  BY <1>3, FunctionSeq

\* A path leads to what its start reaches.
LEMMA PathsReach ==
  ASSUME NEW a \in Node, NEW b, Connects(a, b)
  PROVE  Reaches(a, b)
<1>1. PICK p \in Paths : p[1] = a /\ p[Len(p)] = b /\ IsPath(p)
  BY DEF Connects
<1>2. /\ Len(p) \in 1..N /\ N \in Nat
      /\ \A k \in 1..Len(p) : p[k] \in Node
      /\ \A i, j \in 1..Len(p) : i # j => p[i] # p[j]
  BY <1>1, PathFacts, LockCyclesAssumption
<1>3. SUFFICES ASSUME NEW S \in SUBSET Node, a \in S, \A x \in S : Succ(x) \subseteq S
               PROVE  b \in S
  BY DEF Reaches
<1> DEFINE T == {k \in 1..Len(p) : p[k] \notin S}
<1>4. T = {}
  <2>1. SUFFICES ASSUME T # {} PROVE FALSE
    OBVIOUS
  <2>2. T \in SUBSET Node
    BY <1>2 DEF Node
  <2>3. PICK m \in T : \A i \in T : m <= i
    BY <2>1, <2>2, MinNode
  <2>4. m \in 1..Len(p) /\ m # 1
    BY <1>1, <1>3, <2>3
  <2>5. m - 1 \in 1..(Len(p) - 1) /\ m - 1 \in 1..Len(p) /\ m - 1 < m /\ (m - 1) + 1 = m
    BY <1>2, <2>4
  <2>6. m - 1 \notin T
    BY <2>3, <2>4, <2>5
  <2>7. p[m - 1] \in S
    BY <2>5, <2>6
  <2>8. threads[<<p[m - 1], p[m]>>] # {} /\ p[m] \in Node /\ p[m] # p[m - 1]
    BY <1>1, <1>2, <2>4, <2>5 DEF IsPath
  <2>9. p[m] \in Succ(p[m - 1])
    BY <2>8 DEF Succ
  <2>10. QED
    BY <1>3, <2>3, <2>7, <2>9
<1>5. Len(p) \in 1..Len(p)
  BY <1>2
<1>6. QED
  BY <1>1, <1>4, <1>5

\* And to all of it: what paths lead to is closed.
LEMMA ReachHasPath ==
  ASSUME NEW a \in Node, NEW b, Reaches(a, b)
  PROVE  Connects(a, b)
<1> DEFINE S == {c \in Node : Connects(a, c)}
<1>1. a \in S
  <2> DEFINE q == [i \in 1..1 |-> a]
  <2>1. q \in [1..1 -> Node] /\ \A i, j \in 1..1 : i # j => q[i] # q[j]
    OBVIOUS
  <2>2. q \in Paths /\ Len(q) = 1
    <3>1. 1 \in Nat \ {0}
      OBVIOUS
    <3> HIDE DEF q
    <3>2. QED
      BY <2>1, <3>1, IsAPath
  <2>3. q[1] = a /\ IsPath(q)
    BY <2>2 DEF IsPath
  <2>4. QED
    BY <2>2, <2>3 DEF Connects
<1>2. ASSUME NEW c \in S, NEW e \in Succ(c) PROVE e \in S
  <2>1. PICK p \in Paths : p[1] = a /\ p[Len(p)] = c /\ IsPath(p)
    BY DEF Connects
  <2>2. PICK n \in Nat \ {0} : n = Len(p)
    BY <2>1, PathFacts
  <2>3. /\ p \in [1..n -> Node]
        /\ \A i, j \in 1..n : i # j => p[i] # p[j]
        /\ \A i \in 1..(n - 1) : threads[<<p[i], p[i + 1]>>] # {}
    BY <2>1, <2>2, PathFacts DEF IsPath
  <2>4. e \in Node /\ threads[<<c, e>>] # {}
    BY DEF Succ
  <2>5. CASE \E k \in 1..n : p[k] = e
    <3>1. PICK k \in 1..n : p[k] = e
      BY <2>5
    <3> DEFINE q == [i \in 1..k |-> p[i]]
    <3>2. k \in Nat \ {0} /\ \A i \in 1..k : i \in 1..n
      OBVIOUS
    <3>3. q \in [1..k -> Node] /\ \A i, j \in 1..k : i # j => q[i] # q[j]
      BY <2>3, <3>2
    <3>4. q \in Paths /\ Len(q) = k
      BY <3>2, <3>3, IsAPath
    <3>5. \A i \in 1..(k - 1) : i \in 1..k /\ i + 1 \in 1..k /\ i \in 1..(n - 1)
      BY <3>2
    <3>6. \A i \in 1..(k - 1) : threads[<<q[i], q[i + 1]>>] # {}
      BY <2>3, <3>5
    <3>7. q[1] = a /\ q[k] = e
      BY <2>1, <3>1, <3>2
    <3>8. QED
      BY <2>4, <3>4, <3>6, <3>7 DEF Connects, IsPath
  <2>6. CASE \A k \in 1..n : p[k] # e
    <3> DEFINE q == [i \in 1..(n + 1) |-> IF i <= n THEN p[i] ELSE e]
    <3>1. n + 1 \in Nat \ {0} /\ \A i \in 1..(n + 1) : i \in 1..n \/ i = n + 1
      OBVIOUS
    <3>2. (\A i \in 1..n : q[i] = p[i]) /\ q[n + 1] = e
      OBVIOUS
    <3>3. q \in [1..(n + 1) -> Node]
      BY <2>3, <2>4
    <3>4. \A i, j \in 1..(n + 1) : i # j => q[i] # q[j]
      BY <2>3, <2>6, <3>1, <3>2
    <3>5. q \in Paths /\ Len(q) = n + 1
      BY <3>1, <3>3, <3>4, IsAPath
    <3>6. q[1] = a /\ (n + 1) - 1 = n
      BY <2>1, <3>2
    <3> HIDE DEF q
    <3>7. ASSUME NEW i \in 1..n PROVE threads[<<q[i], q[i + 1]>>] # {}
      <4>1. CASE i = n
        <5>1. q[i] = c /\ q[i + 1] = e
          <6>1. p[n] = c /\ n \in 1..n
            BY <2>1, <2>2
          <6>2. QED
            BY <6>1, <3>2, <4>1
        <5>2. QED
          BY ONLY <2>4, <5>1
      <4>2. CASE i \in 1..(n - 1)
        <5>1. i + 1 \in 1..n
          BY <4>2
        <5>2. QED
          BY <2>3, <3>2, <4>2, <5>1
      <4>3. QED
        BY <4>1, <4>2
    <3>8. IsPath(q)
      BY <3>5, <3>6, <3>7 DEF IsPath
    <3>9. QED
      BY <2>4, <3>2, <3>5, <3>6, <3>8 DEF Connects
  <2>7. QED
    BY <2>5, <2>6
<1>3. S \in SUBSET Node /\ \A x \in S : Succ(x) \subseteq S
  BY <1>2
<1>4. b \in S
  BY <1>1, <1>3, ReachWithin
<1>5. QED
  BY <1>4

\* The nodes left to no call are in the components found: these are the strongly
\* connected components of the definition.
LEMMA ComponentsFound ==
  ASSUME TypeOK, TarjanInv, SccsFound
  PROVE  components = Sccs
<1>1. Depth = {} /\ Nodes \subseteq Node
  BY DEF SccsFound, Depth, Nodes
<1>2. \A n \in Nodes : Scc(n) = {m \in Nodes : Connects(n, m) /\ Connects(m, n)}
  BY <1>1, PathsReach, ReachHasPath DEF Scc
<1>3. Sccs = {Scc(n) : n \in Nodes}
  BY <1>2 DEF Sccs
<1>4. ASSUME NEW n \in Nodes PROVE Scc(n) \in components
  <2>1. index[n] # 0
    BY DEF SccsFound, Unvisited
  <2>2. ~OnStack(n)
    BY <1>1 DEF TarjanInv, Linked
  <2>3. n \in Emitted
    BY <1>1, <2>1, <2>2 DEF TarjanInv, Sorted, Visited
  <2>4. PICK c \in components : n \in c
    BY <2>3 DEF Emitted
  <2>5. PICK m \in Nodes : c = Scc(m)
    BY DEF TarjanInv, Closed
  <2>6. Reaches(n, m) /\ Reaches(m, n)
    BY <2>4, <2>5 DEF Scc
  <2>7. \A x : Reaches(n, x) <=> Reaches(m, x)
    BY <2>6, ReachFacts
  <2>8. \A x : Reaches(x, n) <=> Reaches(x, m)
    BY <2>6, ReachFacts
  <2>9. Scc(n) = Scc(m)
    BY <2>7, <2>8 DEF Scc
  <2>10. QED
    BY <2>5, <2>9
<1>5. \A c \in components : \E n \in Nodes : c = Scc(n)
  BY DEF TarjanInv, Closed
<1>6. QED
  BY <1>3, <1>4, <1>5

-----------------------------------------------------------------------------
(* The cycle search. *)

\* Types of the search path and its choices.
LEMMA SearchFacts ==
  ASSUME TypeOK
  PROVE  /\ \A m \in Node : m \in Nat
         /\ N \in Nat /\ MaxCycles \in Nat \ {0}
         /\ path \in Seq(Node) /\ choices \in Seq(SUBSET Node)
         /\ Last \in Nat /\ Len(choices) = Last
         /\ \A k \in 1..Last : path[k] \in Node /\ choices[k] \in SUBSET Node
         /\ path # <<>> <=> Last > 0
         /\ cycles \in Seq(Seq(Node)) /\ Len(cycles) \in Nat
<1>1. (\A m \in Node : m \in Nat) /\ N \in Nat /\ MaxCycles \in Nat \ {0}
  BY LockCyclesAssumption DEF Node
<1>2. path \in Seq(Node) /\ choices \in Seq(SUBSET Node) /\ Len(choices) = Len(path)
      /\ cycles \in Seq(Seq(Node))
  BY DEF TypeOK
<1>3. \A k \in 1..Len(path) : path[k] \in Node /\ choices[k] \in SUBSET Node
  BY <1>2
<1>4. QED
  BY <1>1, <1>2, <1>3 DEF Last

\* What follows in a cycle is a successor, among the nodes of the cycle, and not
\* below its start.
LEMMA FollowFacts ==
  ASSUME NEW c \in Seq(Node), IsCycle(c), NEW M, Within(c, M), NEW k \in 1..Len(c)
  PROVE  /\ Follow(c, k) \in Succ(c[k]) \cap M
         /\ c[1] \in M /\ c[1] \in Node /\ Len(c) \in Nat
         /\ c[1] <= Follow(c, k)
         /\ Follow(c, k) = c[1] => k = Len(c)
         /\ \A j \in 1..k : Follow(c, k) = c[j] => j = 1
<1>1. Len(c) \in Nat /\ Len(c) > 1 /\ \A j \in 1..Len(c) : c[j] \in Node
  BY DEF IsCycle
<1>2. \A m \in Node : m \in Nat /\ m <= m
  BY LockCyclesAssumption DEF Node
<1>3. 1 \in 1..Len(c) /\ c[1] \in Node /\ c[1] \in M
  BY <1>1 DEF Within
<1>0. Follow(c, k) \in Succ(c[k])
  BY DEF IsCycle
<1>4. CASE k = Len(c)
  <2>1. Follow(c, k) = c[1]
    BY <1>4 DEF Follow
  <2>2. c[1] \in Nat /\ c[1] <= c[1]
    BY <1>2, <1>3
  <2>3. \A j \in 1..k : c[1] = c[j] => j = 1
    BY <1>3, <1>4 DEF IsCycle
  <2>4. QED
    BY <1>0, <1>1, <1>3, <1>4, <2>1, <2>2, <2>3
<1>5. CASE k # Len(c)
  <2>1. k + 1 \in 2..Len(c) /\ k + 1 \in 1..Len(c) /\ Follow(c, k) = c[k + 1]
    BY <1>1, <1>5 DEF Follow
  <2>2. c[1] < c[k + 1] /\ Follow(c, k) \in Succ(c[k]) /\ c[k + 1] \in M /\ c[k + 1] \in Node
    BY <2>1, <1>1 DEF IsCycle, Within
  <2>3. \A j \in 1..k : j \in 1..Len(c) /\ j # k + 1
    BY <1>1
  <2>4. \A j \in 1..k : c[k + 1] # c[j]
    BY <2>1, <2>3 DEF IsCycle
  <2>5. 1 \in 1..k
    OBVIOUS
  <2>6. c[1] \in Nat /\ c[k + 1] \in Nat /\ c[1] <= c[k + 1] /\ c[k + 1] # c[1]
    BY <2>2, <2>4, <2>5, <1>2, <1>3
  <2>7. QED
    BY <2>1, <2>2, <2>4, <2>6, <1>0, <1>1, <1>3
<1>6. QED
  BY <1>4, <1>5

\* Cycles and their classification depend on the graph only.
LEMMA SameCycles ==
  ASSUME threads' = threads
  PROVE  /\ \A c : IsCycle(c)' <=> IsCycle(c)
         /\ \A c : Interleaves(c)' <=> Interleaves(c)
<1>1. \A a : Succ(a)' = Succ(a)
  BY SameGraph
<1>2. QED
  BY <1>1 DEF IsCycle, Interleaves, DistinctPossible

\* While a component is searched no component is left to be found.
LEMMA TarjanSearch ==
  ASSUME TypeOK, TarjanInv, SearchInv, Tarjan
  PROVE  SearchInv'
<1>1. /\ threads' = threads /\ path' = path /\ choices' = choices /\ cycles' = cycles
      /\ members' = members /\ searched' = searched /\ findings' = findings
      /\ truncated' = truncated /\ done' = done
  BY DEF Tarjan, searchVars
<1>2. ~SccsFound
  BY DEF SccsFound, Tarjan, VisitRoot, VisitChild, FinishNode
<1>3. members = {} /\ path = <<>> /\ ~done
  BY <1>2 DEF SearchInv, PathInv, DoneInv
<1>4. PathInv'
  BY <1>1, <1>3 DEF SearchInv, PathInv, Last, Full, Succ
<1>5. \A c : (IsCycle(c)' <=> IsCycle(c)) /\ (Interleaves(c)' <=> Interleaves(c))
  BY <1>1, SameCycles
<1>6. CyclesInv'
  BY <1>1, <1>3, <1>5 DEF SearchInv, CyclesInv, FoundCycles
<1>7. FoundInv'
  BY <1>1, <1>3, <1>5 DEF SearchInv, FoundInv, FoundCycles
<1>8. QED
  BY <1>1, <1>3, <1>4, <1>6, <1>7 DEF SearchInv, DoneInv, QuotaRespected

\* Choices of the last node are given up.
Narrowed(l, X, rest) ==
  /\ rest \in Seq(SUBSET Node) /\ Len(rest) = l /\ rest[l] = X
  /\ \A k \in 1..l : k # l => rest[k] = choices[k]
  /\ \A k \in 1..l : rest[k] \subseteq choices[k]

\* The other choices stay.
LEMMA Narrowing ==
  ASSUME TypeOK, path # <<>>, NEW l \in Nat, l = Last, NEW X \in SUBSET choices[l],
         NEW rest, rest = [choices EXCEPT ![l] = X]
  PROVE  Narrowed(l, X, rest)
<1>1. /\ choices \in Seq(SUBSET Node) /\ l \in 1..Len(choices) /\ Len(choices) = l
      /\ choices[l] \in SUBSET Node
  BY SearchFacts
<1>2. X \in SUBSET Node
  BY <1>1
<1>3. /\ rest \in Seq(SUBSET Node) /\ Len(rest) = Len(choices)
      /\ \A j \in 1..Len(choices) : rest[j] = IF j = l THEN X ELSE choices[j]
  <2>1. choices \in Seq(SUBSET Node) /\ l \in 1..Len(choices) /\ rest = [choices EXCEPT ![l] = X]
    BY <1>1
  <2>2. QED
    BY ONLY <1>2, <2>1, ExceptSeq
<1>4. QED
  BY <1>1, <1>3 DEF Narrowed

\* Closing a cycle keeps the invariant: it is a new one, and the quota was not met.
LEMMA CloseKeeps ==
  ASSUME TypeOK, SearchInv, path # <<>>, NEW l \in Nat, l = Last,
         path[1] \in choices[l],
         path' = path, cycles' = Append(cycles, path),
         choices' = IF Len(cycles) + 1 >= MaxCycles
                    THEN [choices EXCEPT ![l] = {}]
                    ELSE [choices EXCEPT ![l] = @ \ {path[1]}],
         UNCHANGED <<threads, tarjanVars, components, searched, members, findings,
                     truncated, done>>
  PROVE  SearchInv' /\ TypeOK'
<1>1. /\ MaxCycles \in Nat \ {0} /\ Len(cycles) \in Nat /\ l > 0 /\ cycles \in Seq(Seq(Node))
      /\ path \in Seq(Node) /\ \A k \in 1..l : path[k] \in Node /\ choices[k] \in SUBSET Node
      /\ choices \in Seq(SUBSET Node) /\ l \in 1..l /\ 1 \in 1..l
  BY SearchFacts
<1>2. /\ Len(cycles') = Len(cycles) + 1 /\ cycles' \in Seq(Seq(Node))
      /\ cycles'[Len(cycles) + 1] = path
      /\ \A k \in 1..Len(cycles) : cycles'[k] = cycles[k]
      /\ \A k \in 1..(Len(cycles) + 1) : k \in 1..Len(cycles) \/ k = Len(cycles) + 1
  BY <1>1
<1>0. FoundCycles' = FoundCycles \cup {path}
  BY <1>1, <1>2 DEF FoundCycles
<1>3. ~Full
  BY <1>1 DEF SearchInv, PathInv
<1>4. PICK X \in SUBSET choices[l] :
        /\ choices' = [choices EXCEPT ![l] = X] /\ path[1] \notin X
        /\ Full' => X = {}
        /\ ~Full' => X = choices[l] \ {path[1]}
  <2>1. Full' <=> Len(cycles) + 1 >= MaxCycles
    BY <1>2 DEF Full
  <2>2. CASE Full'
    BY <2>1, <2>2
  <2>3. CASE ~Full'
    BY <2>1, <2>3
  <2>4. QED
    BY <2>2, <2>3
<1>5. /\ choices' \in Seq(SUBSET Node) /\ Len(choices') = l /\ choices'[l] = X
      /\ \A k \in 1..l : k # l => choices'[k] = choices[k]
      /\ \A k \in 1..l : choices'[k] \subseteq choices[k]
  <2>1. choices[l] \in SUBSET Node /\ X \in SUBSET choices[l]
    BY <1>1
  <2>2. PICK rest : rest = [choices EXCEPT ![l] = X]
    OBVIOUS
  <2>3. Narrowed(l, X, rest)
    BY <2>2, Narrowing
  <2>4. QED
    BY <2>2, <2>3, <1>4 DEF Narrowed
<1>6. /\ Last' = l /\ members' = members /\ SccsFound' = SccsFound /\ searched' = searched
      /\ \A a : Succ(a)' = Succ(a)
      /\ \A c : IsCycle(c)' <=> IsCycle(c)
      /\ \A c : Interleaves(c)' <=> Interleaves(c)
  BY SameGraph, SameCycles DEF Last, SccsFound, Unvisited, Nodes, tarjanVars
<1>7. TypeOK'
  BY <1>2, <1>5, <1>6 DEF TypeOK, tarjanVars, Last
<1>8. IsCycle(path)
  <2>1. path[1] \in Succ(path[l])
    BY <1>1 DEF SearchInv, PathInv
  <2>2. l > 1
    <3>1. path[1] # path[l]
      BY <2>1 DEF Succ
    <3>2. QED
      BY <3>1, <1>1
  <2>3. \A k \in 1..l : Follow(path, k) \in Succ(path[k])
    <3>1. \A k \in 1..l : k # l => k \in 1..(l - 1)
      OBVIOUS
    <3>2. QED
      BY <2>1, <3>1, <1>1 DEF Follow, SearchInv, PathInv, Last
  <2>4. \A k \in 2..l : path[1] < path[k]
    <3>1. \A k \in 2..l : k \in 1..l /\ k > 1
      OBVIOUS
    <3>2. QED
      BY <3>1 DEF SearchInv, PathInv
  <2>5. QED
    BY <2>2, <2>3, <2>4, <1>1 DEF IsCycle, SearchInv, PathInv, Last
<1>9. \A c : Passed(c) => Passed(c)'
  BY <1>5, <1>6 DEF Passed
<1>10. Passed(path)'
  <2>1. Follow(path, l) = path[1]
    BY DEF Follow, Last
  <2>2. l \in 1..l /\ l <= Len(path) /\ ~(l < l)
    BY <1>1 DEF Last
  <2>3. QED
    BY <2>1, <2>2, <1>4, <1>5, <1>6 DEF Passed
<1>11. \A k \in 1..Len(cycles) : cycles[k] # path
  <2>1. SUFFICES ASSUME Passed(path) PROVE FALSE
    BY DEF SearchInv, CyclesInv, FoundCycles
  <2>2. ~(path[1] < path[1])
    BY <1>1, SearchFacts
  <2>3. PICK k \in 1..l : /\ Follow(path, k) \notin choices[k]
                          /\ k < l => Follow(path, k) # path[k + 1]
    BY <2>1, <2>2 DEF Passed
  <2>4. CASE k = l
    BY <2>3, <2>4 DEF Follow, Last
  <2>5. CASE k # l
    <3>1. k < l /\ k # Len(path)
      BY <2>5 DEF Last
    <3>2. QED
      BY <2>3, <3>1 DEF Follow
  <2>6. QED
    BY <2>4, <2>5
<1>12. PathInv'
  <2>1. \A k \in 1..l : Full' => path[1] \notin choices'[k]
    <3>1. \A k \in 1..l : k # l => k \in 1..(l - 1)
      OBVIOUS
    <3>2. QED
      BY <3>1, <1>4, <1>5 DEF SearchInv, PathInv
  <2>2. QED
    BY <2>1, <1>5, <1>6 DEF SearchInv, PathInv
<1>13. CyclesInv'
  <2>1. \A c \in FoundCycles' : IsCycle(c)' /\ Passed(c)'
    BY <1>0, <1>6, <1>8, <1>9, <1>10 DEF SearchInv, CyclesInv
  <2>2. \A j, k \in 1..Len(cycles') : j # k => cycles'[j] # cycles'[k]
    BY <1>2, <1>11 DEF SearchInv, CyclesInv
  <2>3. QED
    BY <2>1, <2>2, <1>6 DEF SearchInv, CyclesInv
<1>14. FoundInv'
  <2>1. ASSUME ~Full', NEW c \in Seq(Node), IsCycle(c), Within(c, members), Passed(c)'
        PROVE  c \in FoundCycles'
    <3>1. CASE Passed(c)
      BY <2>1, <3>1, <1>0, <1>3 DEF SearchInv, FoundInv
    <3>2. CASE ~Passed(c)
      <4>1. ~(c[1] < path[1])
        BY <3>2 DEF Passed
      <4>2. PICK k \in 1..l : /\ k <= Len(c) /\ \A j \in 1..k : c[j] = path[j]
                              /\ Follow(c, k) \notin choices'[k]
                              /\ k < l => Follow(c, k) # path[k + 1]
        BY <2>1, <4>1, <1>6 DEF Passed
      <4>3. k = l /\ Follow(c, k) = path[1]
        BY <3>2, <4>2, <2>1, <1>4, <1>5 DEF Passed
      <4>4. Len(c) \in Nat /\ c \in Seq(Node)
        OBVIOUS
      <4>5. k \in 1..Len(c) /\ c[1] = path[1]
        BY <4>2, <4>4
      <4>6. k = Len(c)
        BY <4>3, <4>5, <2>1, FollowFacts
      <4>7. c = path
        BY <4>2, <4>3, <4>6, <1>1, SeqEqual DEF Last
      <4>8. QED
        BY <4>7, <1>0
    <3>3. QED
      BY <3>1, <3>2
  <2>2. \A c : Within(c, members)' <=> Within(c, members)
    BY DEF Within
  <2>3. QED
    BY <2>1, <2>2, <1>6 DEF SearchInv, FoundInv
<1>15. QuotaRespected' /\ DoneInv'
  BY <1>1, <1>2, <1>3, <1>6 DEF Full, QuotaRespected, SearchInv, DoneInv
<1>16. QED
  BY <1>7, <1>12, <1>13, <1>14, <1>15 DEF SearchInv

\* Leaving a successor out keeps the invariant: no cycle goes on there.
LEMMA SkipKeeps ==
  ASSUME TypeOK, SearchInv, path # <<>>, NEW l \in Nat, l = Last,
         NEW n \in choices[l], n # path[1], LeftOut(n),
         path' = path, cycles' = cycles,
         choices' = [choices EXCEPT ![l] = @ \ {n}],
         UNCHANGED <<threads, tarjanVars, components, searched, members, findings,
                     truncated, done>>
  PROVE  SearchInv' /\ TypeOK'
<1>1. /\ l > 0 /\ path \in Seq(Node) /\ l \in 1..l /\ 1 \in 1..l /\ choices[l] \in SUBSET Node
      /\ \A m \in Node : m \in Nat
      /\ \A k \in 1..l : path[k] \in Node
  BY SearchFacts
<1>2. PICK X \in SUBSET choices[l] : choices' = [choices EXCEPT ![l] = X] /\ X = choices[l] \ {n}
  OBVIOUS
<1>3. /\ choices' \in Seq(SUBSET Node) /\ Len(choices') = l /\ choices'[l] = X
      /\ \A k \in 1..l : k # l => choices'[k] = choices[k]
      /\ \A k \in 1..l : choices'[k] \subseteq choices[k]
  <2>1. PICK rest : rest = [choices EXCEPT ![l] = X]
    OBVIOUS
  <2>2. Narrowed(l, X, rest)
    BY <2>1, Narrowing
  <2>3. QED
    BY <2>1, <2>2, <1>2 DEF Narrowed
<1>4. /\ Last' = l /\ members' = members /\ SccsFound' = SccsFound /\ searched' = searched
      /\ FoundCycles' = FoundCycles /\ Full' = Full
      /\ \A a : Succ(a)' = Succ(a)
      /\ \A c : IsCycle(c)' <=> IsCycle(c)
      /\ \A c : Interleaves(c)' <=> Interleaves(c)
  BY SameGraph, SameCycles DEF Last, SccsFound, Unvisited, Nodes, tarjanVars, FoundCycles, Full
<1>5. TypeOK'
  BY <1>3 DEF TypeOK, tarjanVars, Last
<1>6. \A c : Passed(c) => Passed(c)'
  BY <1>3, <1>4 DEF Passed
<1>7. PathInv'
  BY <1>3, <1>4 DEF SearchInv, PathInv
<1>8. CyclesInv'
  BY <1>4, <1>6 DEF SearchInv, CyclesInv
<1>9. ASSUME NEW c \in Seq(Node), IsCycle(c), Within(c, members), Passed(c)', ~Passed(c)
      PROVE  FALSE
  <2>1. ~(c[1] < path[1])
    BY <1>9 DEF Passed
  <2>2. PICK k \in 1..l : /\ k <= Len(c) /\ \A j \in 1..k : c[j] = path[j]
                          /\ Follow(c, k) \notin choices'[k]
                          /\ k < l => Follow(c, k) # path[k + 1]
    BY <1>9, <2>1, <1>4 DEF Passed
  <2>3. k = l /\ Follow(c, k) = n
    BY <1>9, <2>2, <1>2, <1>3 DEF Passed
  <2>4. k \in 1..Len(c) /\ c[1] = path[1] /\ n \in Node /\ c[1] \in Node
    BY <2>2, <1>1
  <2>5. c[1] <= n /\ \A j \in 1..k : n = c[j] => j = 1
    BY <2>3, <2>4, <1>9, FollowFacts
  <2>6. ~(n < path[1])
    BY <2>4, <2>5, <1>1
  <2>7. PICK j \in 1..l : path[j] = n
    BY <2>6 DEF LeftOut
  <2>8. c[j] = n
    BY <2>2, <2>3, <2>7
  <2>9. QED
    BY <2>3, <2>5, <2>7, <2>8
<1>10. FoundInv'
  <2>1. \A c : Within(c, members)' <=> Within(c, members)
    BY DEF Within
  <2>2. QED
    BY <2>1, <1>4, <1>9 DEF SearchInv, FoundInv
<1>11. QuotaRespected' /\ DoneInv'
  BY <1>4 DEF QuotaRespected, SearchInv, DoneInv
<1>12. QED
  BY <1>5, <1>7, <1>8, <1>10, <1>11 DEF SearchInv

\* Going on to a successor keeps the invariant: none that was smaller is left, the
\* start among them.
LEMMA ExtendKeeps ==
  ASSUME TypeOK, SearchInv, path # <<>>, NEW l \in Nat, l = Last,
         NEW n \in choices[l], \A m \in choices[l] : n <= m, n # path[1], ~LeftOut(n),
         path' = Append(path, n), cycles' = cycles,
         choices' = Append([choices EXCEPT ![l] = @ \ {n}], IF Full THEN {} ELSE Adjacent(n)),
         UNCHANGED <<threads, tarjanVars, components, searched, members, findings,
                     truncated, done>>
  PROVE  SearchInv' /\ TypeOK'
<1>1. /\ l > 0 /\ path \in Seq(Node) /\ l \in 1..l /\ 1 \in 1..l /\ choices[l] \in SUBSET Node
      /\ \A m \in Node : m \in Nat
      /\ \A k \in 1..l : path[k] \in Node
      /\ n \in Node /\ Len(path) = l
  BY SearchFacts DEF Last
<1>2. PICK rest, X : rest = [choices EXCEPT ![l] = @ \ {n}] /\ X = choices[l] \ {n}
  OBVIOUS
<1>3. Narrowed(l, X, rest)
  BY <1>2, Narrowing
<1>4. PICK A : A = IF Full THEN {} ELSE Adjacent(n)
  OBVIOUS
<1>5. A \in SUBSET Node /\ A \subseteq Succ(n) \cap members
  BY <1>4 DEF Adjacent, Succ
<1>6. /\ choices' \in Seq(SUBSET Node) /\ Len(choices') = l + 1
      /\ choices'[l + 1] = A /\ choices'[l] = X
      /\ \A k \in 1..l : k # l => choices'[k] = choices[k]
      /\ \A k \in 1..l : choices'[k] \subseteq choices[k]
  BY <1>1, <1>2, <1>3, <1>4, <1>5 DEF Narrowed
<1>7. /\ path' \in Seq(Node) /\ Len(path') = l + 1 /\ path'[l + 1] = n
      /\ \A k \in 1..l : path'[k] = path[k]
      /\ path'[1] = path[1]
  BY <1>1
<1>8. /\ Last' = l + 1 /\ members' = members /\ SccsFound' = SccsFound /\ searched' = searched
      /\ FoundCycles' = FoundCycles /\ Full' = Full
      /\ \A a : Succ(a)' = Succ(a)
      /\ \A c : IsCycle(c)' <=> IsCycle(c)
      /\ \A c : Interleaves(c)' <=> Interleaves(c)
  BY <1>7, SameGraph, SameCycles
     DEF Last, SccsFound, Unvisited, Nodes, tarjanVars, FoundCycles, Full
<1>9. TypeOK'
  BY <1>6, <1>7, <1>8 DEF TypeOK, tarjanVars, Last
<1>10. /\ \A k \in 1..(l + 1) : k \in 1..l \/ k = l + 1
       /\ \A k \in 1..l : k \in 1..(l + 1) /\ k < l + 1 /\ (k = l \/ k \in 1..(l - 1))
       /\ \A k \in 1..l : k # l => k < l /\ k + 1 \in 1..l
       /\ l + 1 > 1
  BY <1>1
<1>11. n \in Succ(path[l]) \cap members /\ path[1] < n /\ \A k \in 1..l : path[k] # n
  <2>1. ~(n < path[1]) /\ \A k \in 1..l : path[k] # n
    BY DEF LeftOut
  <2>2. path[1] \in Nat /\ n \in Nat
    BY <1>1
  <2>3. n \in Succ(path[l]) \cap members
    BY <1>1 DEF SearchInv, PathInv
  <2>4. QED
    BY <2>1, <2>2, <2>3
<1>12. path[1] \notin choices[l]
  <2>1. path[1] \in Nat /\ n \in Nat
    BY <1>1
  <2>2. QED
    BY <2>1, <1>11
<1>13. \A c : Passed(c) => Passed(c)'
  <2>1. SUFFICES ASSUME NEW c, Passed(c) PROVE Passed(c)'
    OBVIOUS
  <2>2. CASE c[1] < path[1]
    BY <2>2, <1>7 DEF Passed
  <2>3. CASE ~(c[1] < path[1])
    <3>1. PICK k \in 1..l : /\ k <= Len(c) /\ \A j \in 1..k : c[j] = path[j]
                            /\ Follow(c, k) \notin choices[k]
                            /\ k < l => Follow(c, k) # path[k + 1]
      BY <2>1, <2>3 DEF Passed
    <3>2. \A j \in 1..k : j \in 1..l
      OBVIOUS
    <3>3. Follow(c, k) # path'[k + 1]
      <4>1. CASE k = l
        BY <3>1, <4>1, <1>7
      <4>2. CASE k # l
        BY <3>1, <4>2, <1>7, <1>10
      <4>3. QED
        BY <4>1, <4>2
    <3>4. Follow(c, k) \notin choices'[k] /\ \A j \in 1..k : c[j] = path'[j]
      BY <3>1, <3>2, <1>6, <1>7
    <3>5. k \in 1..Last' /\ k <= Len(c)
      BY <3>1, <1>8, <1>10
    <3>6. QED
      BY <3>3, <3>4, <3>5 DEF Passed
  <2>4. QED
    BY <2>2, <2>3
<1>14. PathInv'
  <2>1. \A k \in 1..(l + 1) : /\ path'[k] \in members
                              /\ choices'[k] \subseteq Succ(path'[k]) \cap members
                              /\ k > 1 => path[1] < path'[k]
                              /\ Full => path[1] \notin choices'[k]
    <3>1. \A k \in 1..l : /\ path'[k] \in members
                          /\ choices'[k] \subseteq Succ(path'[k]) \cap members
                          /\ k > 1 => path[1] < path'[k]
                          /\ Full => path[1] \notin choices'[k]
      BY <1>6, <1>7 DEF SearchInv, PathInv
    <3>2. /\ path'[l + 1] \in members
          /\ choices'[l + 1] \subseteq Succ(path'[l + 1]) \cap members
          /\ path[1] < path'[l + 1]
          /\ Full => path[1] \notin choices'[l + 1]
      BY <1>4, <1>5, <1>6, <1>7, <1>11
    <3>3. QED
      BY <3>1, <3>2, <1>10
  <2>2. \A k \in 1..l : /\ path'[k + 1] \in Succ(path'[k])
                        /\ path'[k + 1] \notin choices'[k]
                        /\ path[1] \notin choices'[k]
    <3>1. SUFFICES ASSUME NEW k \in 1..l
                   PROVE  /\ path'[k + 1] \in Succ(path'[k])
                          /\ path'[k + 1] \notin choices'[k]
                          /\ path[1] \notin choices'[k]
      OBVIOUS
    <3>2. CASE k = l
      BY <3>2, <1>2, <1>6, <1>7, <1>11, <1>12
    <3>3. CASE k # l
      <4>1. k \in 1..(l - 1) /\ path'[k + 1] = path[k + 1] /\ path'[k] = path[k]
        BY <3>3, <1>7, <1>10
      <4>2. choices'[k] \subseteq choices[k]
        BY <1>6
      <4>3. QED
        BY <4>1, <4>2 DEF SearchInv, PathInv
    <3>4. QED
      BY <3>2, <3>3
  <2>3. \A j, k \in 1..(l + 1) : j # k => path'[j] # path'[k]
    BY <1>7, <1>10, <1>11 DEF SearchInv, PathInv
  <2>4. path' # <<>> /\ members # {} /\ (l + 1) - 1 = l
    BY <1>7, <1>11
  <2>5. QED
    BY <2>1, <2>2, <2>3, <2>4, <1>7, <1>8 DEF SearchInv, PathInv
<1>15. CyclesInv'
  <2>1. CyclesInv
    BY DEF SearchInv
  <2>2. ASSUME NEW c \in FoundCycles PROVE IsCycle(c)' /\ Passed(c)'
    BY <1>7, <1>8, <1>13, <2>1, <2>2 DEF CyclesInv
  <2>3. cycles' = cycles /\ findings' = findings
    BY <1>7
  <2>4. \A c \in findings : IsCycle(c)'
    BY <1>8, <2>1 DEF CyclesInv
  <2>5. \A c \in FoundCycles' : IsCycle(c)' /\ (path' # <<>> => Passed(c)')
    BY <1>8, <2>2
  <2>6. QED
    BY <2>1, <2>3, <2>4, <2>5 DEF CyclesInv
<1>16. ASSUME ~Full, NEW c \in Seq(Node), IsCycle(c), Within(c, members), Passed(c)', ~Passed(c)
       PROVE  FALSE
  <2>1. ~(c[1] < path'[1])
    BY <1>16, <1>7 DEF Passed
  <2>2. PICK k \in 1..(l + 1) : /\ k <= Len(c) /\ \A j \in 1..k : c[j] = path'[j]
                                /\ Follow(c, k) \notin choices'[k]
                                /\ k < l + 1 => Follow(c, k) # path'[k + 1]
    BY <1>16, <2>1, <1>8 DEF Passed
  <2>3. CASE k = l + 1
    <3>1. k \in 1..Len(c) /\ c[k] = n
      BY <2>2, <2>3, <1>1, <1>7
    <3>2. Follow(c, k) \in Succ(n) \cap members
      BY <3>1, <1>16, FollowFacts
    <3>3. QED
      BY <2>2, <2>3, <3>2, <1>4, <1>6, <1>16 DEF Adjacent
  <2>4. CASE k \in 1..l
    <3>1. \A j \in 1..k : c[j] = path[j]
      <4>1. \A j \in 1..k : j \in 1..l
        BY <2>4
      <4>2. QED
        BY <2>2, <4>1, <1>7
    <3>2. k < l => Follow(c, k) # path[k + 1]
      BY <2>2, <2>4, <1>7, <1>10
    <3>3. Follow(c, k) \notin choices[k]
      <4>1. CASE k = l
        BY <2>2, <4>1, <1>2, <1>6, <1>7, <1>10
      <4>2. CASE k # l
        BY <2>2, <2>4, <4>2, <1>6
      <4>3. QED
        BY <4>1, <4>2
    <3>4. QED
      BY <2>2, <2>4, <3>1, <3>2, <3>3, <1>16 DEF Passed
  <2>5. QED
    BY <2>3, <2>4, <1>10
<1>17. FoundInv'
  <2>1. \A c : Within(c, members)' <=> Within(c, members)
    BY DEF Within
  <2>2. QED
    BY <2>1, <1>8, <1>16 DEF SearchInv, FoundInv
<1>18. QuotaRespected' /\ DoneInv'
  BY <1>8 DEF QuotaRespected, SearchInv, DoneInv
<1>19. QED
  BY <1>9, <1>14, <1>15, <1>17, <1>18 DEF SearchInv

\* Returning from a node keeps the invariant: the search is past all that goes on
\* from it.
LEMMA PopKeeps ==
  ASSUME TypeOK, SearchInv, NEW l \in Nat, l = Last, l > 1, choices[l] = {},
         path' = SubSeq(path, 1, l - 1), choices' = SubSeq(choices, 1, l - 1),
         UNCHANGED <<threads, tarjanVars, components, searched, members, cycles, findings,
                     truncated, done>>
  PROVE  SearchInv' /\ TypeOK'
<1>1. /\ path \in Seq(Node) /\ choices \in Seq(SUBSET Node)
      /\ Len(path) = l /\ Len(choices) = l /\ path # <<>>
      /\ \A k \in 1..l : path[k] \in Node /\ choices[k] \in SUBSET Node
  BY SearchFacts DEF Last
<1>2. PICK u \in Nat : u = l - 1
  OBVIOUS
<1>3. /\ u \in 1..l /\ u + 1 = l /\ u < l /\ 1 \in 1..u /\ ~(u < u)
      /\ \A k \in 1..u : k \in 1..l /\ k < l
      /\ \A k \in 1..u : k # u => k < u /\ k + 1 \in 1..u /\ k \in 1..(l - 1)
      /\ \A k \in 1..u : k < u => k + 1 \in 1..u
      /\ \A k \in 1..(u - 1) : k \in 1..u /\ k + 1 \in 1..u /\ k \in 1..(l - 1)
      /\ \A k \in 1..l : k \in 1..u \/ k = l
  BY <1>2
<1>4. /\ path' \in Seq(Node) /\ Len(path') = u /\ choices' \in Seq(SUBSET Node) /\ Len(choices') = u
      /\ \A k \in 1..u : path'[k] = path[k] /\ choices'[k] = choices[k]
  BY <1>1, <1>2
<1>5. /\ Last' = u /\ members' = members /\ SccsFound' = SccsFound /\ searched' = searched
      /\ FoundCycles' = FoundCycles /\ Full' = Full /\ path'[1] = path[1]
      /\ \A a : Succ(a)' = Succ(a)
      /\ \A c : IsCycle(c)' <=> IsCycle(c)
      /\ \A c : Interleaves(c)' <=> Interleaves(c)
  BY <1>3, <1>4, SameGraph, SameCycles
     DEF Last, SccsFound, Unvisited, Nodes, tarjanVars, FoundCycles, Full
<1>6. TypeOK'
  BY <1>4, <1>5 DEF TypeOK, tarjanVars, Last
<1>7. path[l] # path[1] /\ path[l] \notin choices[u] /\ members # {}
  BY <1>1, <1>2, <1>3 DEF SearchInv, PathInv
<1>8. ASSUME NEW c \in Seq(Node), Passed(c), Len(c) > 1 PROVE Passed(c)'
  <2>1. CASE c[1] < path[1]
    BY <2>1, <1>5 DEF Passed
  <2>2. CASE ~(c[1] < path[1])
    <3>1. PICK k \in 1..l : /\ k <= Len(c) /\ \A j \in 1..k : c[j] = path[j]
                            /\ Follow(c, k) \notin choices[k]
                            /\ k < l => Follow(c, k) # path[k + 1]
      BY <1>8, <2>2 DEF Passed
    <3>2. CASE k \in 1..u
      <4>1. /\ \A j \in 1..k : j \in 1..u
            /\ k < u => k + 1 \in 1..u /\ k < l
        BY <3>2, <1>3
      <4>2. /\ \A j \in 1..k : c[j] = path'[j]
            /\ Follow(c, k) \notin choices'[k]
            /\ k < u => Follow(c, k) # path'[k + 1]
        BY <3>1, <3>2, <4>1, <1>4
      <4>3. QED
        BY <3>1, <3>2, <4>2, <1>5 DEF Passed
    <3>3. CASE k = l
      <4>1. u <= Len(c) /\ u # Len(c) /\ \A j \in 1..u : j \in 1..k
        BY <3>1, <3>3, <1>3
      <4>2. Follow(c, u) = path[l]
        BY <4>1, <3>1, <3>3, <1>3 DEF Follow
      <4>3. \A j \in 1..u : c[j] = path'[j]
        BY <4>1, <3>1, <1>4
      <4>4. u \in 1..u /\ choices'[u] = choices[u]
        BY <1>3, <1>4
      <4>5. QED
        BY <4>1, <4>2, <4>3, <4>4, <1>3, <1>5, <1>7 DEF Passed
    <3>4. QED
      BY <3>2, <3>3, <1>3
  <2>3. QED
    BY <2>1, <2>2
<1>9. ASSUME NEW c \in Seq(Node), Passed(c)' PROVE Passed(c)
  <2>1. CASE c[1] < path[1]
    BY <2>1 DEF Passed
  <2>2. CASE ~(c[1] < path[1])
    <3>1. PICK k \in 1..u : /\ k <= Len(c) /\ \A j \in 1..k : c[j] = path'[j]
                            /\ Follow(c, k) \notin choices'[k]
                            /\ k < u => Follow(c, k) # path'[k + 1]
      BY <1>5, <1>9, <2>2 DEF Passed
    <3>2. \A j \in 1..k : j \in 1..u
      BY <3>1
    <3>3. /\ \A j \in 1..k : c[j] = path[j]
          /\ Follow(c, k) \notin choices[k]
      BY <3>1, <3>2, <1>4
    <3>4. CASE k < l => Follow(c, k) # path[k + 1]
      BY <3>1, <3>3, <3>4, <1>3 DEF Passed
    <3>5. CASE k < l /\ Follow(c, k) = path[k + 1]
      <4>1. k = u
        BY <3>1, <3>5, <1>3, <1>4
      <4>2. Len(c) \in Nat /\ k # Len(c)
        <5>1. 1 \in 1..k
          BY <4>1, <1>3
        <5>2. c[1] = path[1]
          BY <3>3, <5>1
        <5>3. Follow(c, k) # c[1]
          BY <3>5, <4>1, <5>2, <1>3, <1>7
        <5>4. QED
          BY <5>3 DEF Follow
      <4>3. l <= Len(c) /\ c[l] = path[l]
        BY <3>1, <3>5, <4>1, <4>2, <1>3 DEF Follow
      <4>4. \A j \in 1..l : c[j] = path[j]
        BY <3>3, <4>1, <4>3, <1>3
      <4>5. l \in 1..l /\ ~(l < l) /\ Follow(c, l) \notin choices[l]
        BY <1>3
      <4>6. QED
        BY <4>3, <4>4, <4>5 DEF Passed
    <3>6. QED
      BY <3>4, <3>5
  <2>3. QED
    BY <2>1, <2>2
<1>10. PathInv'
  <2>1. \A k \in 1..u : /\ path'[k] \in members
                        /\ choices'[k] \subseteq Succ(path'[k]) \cap members
                        /\ k > 1 => path[1] < path'[k]
                        /\ Full => path[1] \notin choices'[k]
    BY <1>3, <1>4 DEF SearchInv, PathInv
  <2>2. \A k \in 1..(u - 1) : /\ path'[k + 1] \in Succ(path'[k])
                              /\ path'[k + 1] \notin choices'[k]
                              /\ path[1] \notin choices'[k]
    BY <1>3, <1>4 DEF SearchInv, PathInv
  <2>3. \A j, k \in 1..u : j # k => path'[j] # path'[k]
    BY <1>3, <1>4 DEF SearchInv, PathInv
  <2>4. path' # <<>>
    <3>1. path' = <<>> => Len(path') = 0
      OBVIOUS
    <3>2. u # 0
      BY <1>2
    <3>3. QED
      BY <3>1, <3>2, <1>4
  <2>5. QED
    BY <2>1, <2>2, <2>3, <2>4, <1>5, <1>7 DEF SearchInv, PathInv
<1>11. CyclesInv'
  <2>1. \A c \in FoundCycles : c \in Seq(Node) /\ Len(c) > 1 /\ IsCycle(c) /\ Passed(c)
    BY <1>1 DEF SearchInv, CyclesInv, IsCycle
  <2>2. \A c \in FoundCycles' : IsCycle(c)' /\ Passed(c)'
    BY <2>1, <1>5, <1>8
  <2>3. QED
    BY <2>2, <1>5 DEF SearchInv, CyclesInv
<1>12. FoundInv'
  <2>1. \A c : Within(c, members)' <=> Within(c, members)
    BY DEF Within
  <2>2. QED
    BY <2>1, <1>1, <1>5, <1>9 DEF SearchInv, FoundInv
<1>13. QuotaRespected' /\ DoneInv'
  BY <1>5 DEF QuotaRespected, SearchInv, DoneInv
<1>14. QED
  BY <1>6, <1>10, <1>11, <1>12, <1>13 DEF SearchInv

\* At a start with no choice left the search is past the cycles from it and from
\* smaller nodes.
LEMMA StartExhausted ==
  ASSUME TypeOK, path # <<>>, Last = 1, choices[1] = {},
         NEW c \in Seq(Node), Len(c) > 1
  PROVE  Passed(c) <=> c[1] <= path[1]
<1>1. /\ c[1] \in Nat /\ path[1] \in Nat /\ Len(c) \in Nat /\ 1 <= Len(c)
      /\ \A k \in 1..1 : k = 1
      /\ 1 \in 1..1 /\ ~(1 < 1)
  <2>1. 1 \in 1..Len(c) /\ 1 \in 1..Last
    BY SearchFacts
  <2>2. c[1] \in Node /\ path[1] \in Node
    BY <2>1, SearchFacts
  <2>3. QED
    BY <2>1, <2>2, SearchFacts
<1>2. ASSUME c[1] < path[1] PROVE Passed(c) /\ c[1] <= path[1]
  BY <1>1, <1>2 DEF Passed
<1>3. ASSUME c[1] = path[1] PROVE Passed(c) /\ c[1] <= path[1]
  <2>1. 1 \in 1..Last /\ ~(1 < Last) /\ \A j \in 1..1 : c[j] = path[j]
    BY <1>1, <1>3
  <2>2. Passed(c)
    BY <1>1, <2>1 DEF Passed
  <2>3. QED
    BY <2>2, <1>1, <1>3
<1>4. ASSUME Passed(c) PROVE c[1] < path[1] \/ c[1] = path[1]
  BY <1>1, <1>4 DEF Passed
<1>5. c[1] <= path[1] => c[1] < path[1] \/ c[1] = path[1]
  BY <1>1
<1>6. QED
  BY <1>2, <1>3, <1>4, <1>5

\* A search that starts at s is past the cycles from smaller nodes only.
LEMMA Started ==
  ASSUME TypeOK, threads' = threads, NEW M \in SUBSET Node, NEW s \in M,
         path' = <<s>>, choices' = <<Succ(s) \cap M>>
  PROVE  /\ path' \in Seq(Node) /\ choices' \in Seq(SUBSET Node)
         /\ Last' = 1 /\ Len(choices') = 1 /\ Len(path') = 1 /\ path' # <<>>
         /\ path'[1] = s /\ choices'[1] = Succ(s) \cap M /\ s \notin Succ(s)
         /\ \A k \in 1..1 : k = 1
         /\ \A c : c[1] < s => Passed(c)'
         /\ \A c \in Seq(Node) : IsCycle(c) /\ Within(c, M) /\ Passed(c)' => c[1] < s
<1>1. /\ path' \in Seq(Node) /\ choices' \in Seq(SUBSET Node)
      /\ Len(path') = 1 /\ Len(choices') = 1 /\ path' # <<>>
      /\ path'[1] = s /\ choices'[1] = Succ(s) \cap M
  <2>1. s \in Node /\ Succ(s) \cap M \in SUBSET Node
    OBVIOUS
  <2>2. <<s>> \in Seq(Node) /\ Len(<<s>>) = 1 /\ <<s>>[1] = s /\ <<s>> # <<>>
    BY <2>1
  <2>3. PICK X : X = Succ(s) \cap M
    OBVIOUS
  <2>4. X \in SUBSET Node
    BY <2>1, <2>3
  <2>5. <<X>> \in Seq(SUBSET Node) /\ Len(<<X>>) = 1 /\ <<X>>[1] = X
    BY <2>4
  <2>6. QED
    BY <2>2, <2>3, <2>5
<1>2. Last' = 1 /\ (\A k \in 1..1 : k = 1) /\ s \notin Succ(s)
  BY <1>1 DEF Last, Succ
<1>3. \A c : c[1] < s => Passed(c)'
  BY <1>1 DEF Passed
<1>4. ASSUME NEW c \in Seq(Node), IsCycle(c), Within(c, M), Passed(c)', ~(c[1] < s)
      PROVE  FALSE
  <2>1. c[1] = s /\ Follow(c, 1) \notin Succ(s) \cap M
    BY <1>1, <1>2, <1>4 DEF Passed
  <2>2. 1 \in 1..Len(c)
    BY <1>4 DEF IsCycle
  <2>3. Follow(c, 1) \in Succ(c[1]) \cap M
    BY <1>4, <2>2, FollowFacts
  <2>4. QED
    BY <2>1, <2>3
<1>5. QED
  BY <1>1, <1>2, <1>3, <1>4

\* Taking the next start keeps the invariant: no node of the component lies between.
LEMMA RestartKeeps ==
  ASSUME TypeOK, SearchInv, path # <<>>, Last = 1, choices[1] = {},
         NEW s \in LaterStarts, \A m \in LaterStarts : s <= m,
         path' = <<s>>, choices' = <<Succ(s) \cap members>>,
         UNCHANGED <<threads, tarjanVars, components, searched, members, cycles, findings,
                     truncated, done>>
  PROVE  SearchInv' /\ TypeOK'
<1>1. s \in members /\ s > path[1] /\ members \in SUBSET Node
  BY DEF LaterStarts, TypeOK
<1>2. /\ path' \in Seq(Node) /\ choices' \in Seq(SUBSET Node)
      /\ Last' = 1 /\ Len(choices') = 1 /\ Len(path') = 1 /\ path' # <<>>
      /\ path'[1] = s /\ choices'[1] = Succ(s) \cap members /\ s \notin Succ(s)
      /\ \A k \in 1..1 : k = 1
      /\ \A c : c[1] < s => Passed(c)'
      /\ \A c \in Seq(Node) : IsCycle(c) /\ Within(c, members) /\ Passed(c)' => c[1] < s
  BY <1>1, Started
<1>3. /\ members' = members /\ SccsFound' = SccsFound /\ searched' = searched
      /\ FoundCycles' = FoundCycles /\ Full' = Full
      /\ \A a : Succ(a)' = Succ(a)
      /\ \A c : IsCycle(c)' <=> IsCycle(c)
      /\ \A c : Interleaves(c)' <=> Interleaves(c)
  BY SameGraph, SameCycles DEF SccsFound, Unvisited, Nodes, tarjanVars, FoundCycles, Full
<1>4. TypeOK'
  BY <1>2, <1>3 DEF TypeOK, tarjanVars
<1>5. path[1] \in Nat /\ s \in Nat /\ path[1] < s
  <2>1. 1 \in 1..Last
    BY SearchFacts
  <2>2. path[1] \in Node /\ s \in Node
    BY <1>1, <2>1, SearchFacts
  <2>3. QED
    BY <1>1, <2>2, SearchFacts
<1>6. PathInv'
  <2>1. \A k \in 1..1 : /\ path'[k] \in members
                        /\ choices'[k] \subseteq Succ(path'[k]) \cap members
                        /\ ~(k > 1)
                        /\ s \notin choices'[k]
    BY <1>1, <1>2
  <2>2. 1..(1 - 1) = {} /\ \A j, k \in 1..1 : j = k
    OBVIOUS
  <2>3. members # {}
    BY <1>1
  <2>4. QED
    BY <2>1, <2>2, <2>3, <1>2, <1>3 DEF SearchInv, PathInv
<1>7. CyclesInv'
  <2>1. ASSUME NEW c \in FoundCycles PROVE Passed(c)'
    <3>1. c \in Seq(Node) /\ Len(c) > 1 /\ Passed(c)
      BY DEF SearchInv, CyclesInv, IsCycle
    <3>2. c[1] <= path[1]
      BY <3>1, StartExhausted
    <3>3. c[1] \in Nat
      <4>1. 1 \in 1..Len(c)
        BY <3>1
      <4>2. c[1] \in Node
        BY <3>1, <4>1
      <4>3. QED
        BY <4>2, SearchFacts
    <3>4. c[1] < s
      BY <3>2, <3>3, <1>5
    <3>5. QED
      BY <3>4, <1>2
  <2>2. QED
    BY <2>1, <1>3 DEF SearchInv, CyclesInv
<1>8. ASSUME NEW c \in Seq(Node), IsCycle(c), Within(c, members), Passed(c)' PROVE Passed(c)
  <2>1. c[1] < s
    BY <1>2, <1>8
  <2>2. 1 \in 1..Len(c) /\ Len(c) > 1
    BY <1>8 DEF IsCycle
  <2>3. c[1] \in members /\ c[1] \in Nat
    <3>1. c[1] \in members /\ c[1] \in Node
      BY <1>8, <2>2 DEF Within
    <3>2. QED
      BY <3>1, SearchFacts
  <2>4. ~(c[1] > path[1])
    <3>1. SUFFICES ASSUME c[1] > path[1] PROVE FALSE
      OBVIOUS
    <3>2. c[1] \in LaterStarts
      BY <2>3, <3>1 DEF LaterStarts
    <3>3. s <= c[1]
      BY <3>2
    <3>4. QED
      BY <2>1, <2>3, <3>3, <1>5
  <2>5. c[1] <= path[1]
    BY <2>3, <2>4, <1>5
  <2>6. QED
    BY <2>2, <2>5, StartExhausted
<1>9. FoundInv'
  <2>1. \A c : Within(c, members)' <=> Within(c, members)
    BY DEF Within
  <2>2. QED
    BY <2>1, <1>2, <1>3, <1>8 DEF SearchInv, FoundInv
<1>10. QuotaRespected' /\ DoneInv'
  BY <1>3 DEF QuotaRespected, SearchInv, DoneInv
<1>11. QED
  BY <1>4, <1>6, <1>7, <1>9, <1>10 DEF SearchInv

\* Leaving the component keeps the invariant: but for a search its quota ended, the
\* cycles within it were all found.
LEMMA StopKeeps ==
  ASSUME TypeOK, SearchInv, path # <<>>, Last = 1, choices[1] = {},
         Full \/ LaterStarts = {},
         path' = <<>>, choices' = <<>>, members' = {}, truncated' = (truncated \/ Full),
         findings' = findings \cup
           {cycles[k] : k \in {j \in 1..Len(cycles) :
                          DistinctPossible(threads, CycleEdges(cycles[j]), RealThread)}},
         UNCHANGED <<threads, tarjanVars, components, searched, cycles, done>>
  PROVE  SearchInv' /\ TypeOK'
<1>1. /\ Last' = 0 /\ SccsFound' = SccsFound /\ searched' = searched
      /\ FoundCycles' = FoundCycles
      /\ \A c : IsCycle(c)' <=> IsCycle(c)
      /\ \A c : Interleaves(c)' <=> Interleaves(c)
  BY SameGraph, SameCycles DEF Last, SccsFound, Unvisited, Nodes, tarjanVars, FoundCycles
<1>2. findings' = findings \cup {c \in FoundCycles : Interleaves(c)}
  BY DEF FoundCycles, Interleaves
<1>3. \A c \in FoundCycles : IsCycle(c) /\ c \in Seq(Node)
  BY DEF SearchInv, CyclesInv, IsCycle
<1>4. TypeOK'
  <2>1. findings' \subseteq Seq(Node)
    BY <1>2, <1>3 DEF TypeOK
  <2>2. truncated' \in BOOLEAN
    BY DEF TypeOK
  <2>3. /\ path' \in Seq(Node) /\ choices' \in Seq(SUBSET Node) /\ Len(choices') = Len(path')
        /\ members' \subseteq Node
    OBVIOUS
  <2>4. QED
    BY <2>1, <2>2, <2>3 DEF TypeOK, tarjanVars
<1>5. PathInv'
  <2>1. 1..0 = {} /\ 1..(0 - 1) = {}
    OBVIOUS
  <2>2. QED
    BY <1>1, <2>1 DEF PathInv
<1>6. CyclesInv'
  BY <1>1, <1>2, <1>3 DEF SearchInv, CyclesInv
<1>7. ASSUME ~truncated', NEW C \in searched, NEW c \in Seq(Node),
             IsCycle(c), Within(c, C), Interleaves(c)
      PROVE  c \in findings'
  <2>1. ~truncated /\ ~Full /\ LaterStarts = {}
    BY <1>7
  <2>2. CASE C # members
    BY <2>1, <2>2, <1>2, <1>7 DEF SearchInv, FoundInv
  <2>3. CASE C = members
    <3>1. 1 \in 1..Len(c) /\ Len(c) > 1
      BY <1>7 DEF IsCycle
    <3>2. c[1] \in members /\ c[1] \in Node /\ 1 \in 1..Last
      BY <2>3, <3>1, <1>7 DEF Within
    <3>3. ~(c[1] > path[1])
      BY <2>1, <3>2 DEF LaterStarts
    <3>4. c[1] \in Nat /\ path[1] \in Nat
      <4>1. path[1] \in Node
        BY <3>2, SearchFacts
      <4>2. QED
        BY <3>2, <4>1, SearchFacts
    <3>5. c[1] <= path[1]
      BY <3>3, <3>4
    <3>6. Passed(c)
      BY <3>1, <3>5, StartExhausted
    <3>7. c \in FoundCycles
      BY <2>1, <2>3, <3>6, <1>7 DEF SearchInv, FoundInv
    <3>8. QED
      BY <3>7, <1>2, <1>7
  <2>4. QED
    BY <2>2, <2>3
<1>8. FoundInv'
  <2>1. \A c, C : Within(c, C)' <=> Within(c, C)
    BY DEF Within
  <2>2. QED
    BY <2>1, <1>1, <1>7 DEF FoundInv
<1>9. QuotaRespected' /\ DoneInv'
  BY <1>1 DEF QuotaRespected, SearchInv, DoneInv
<1>10. QED
  BY <1>4, <1>5, <1>6, <1>8, <1>9 DEF SearchInv

\* A component of fewer than two nodes holds no cycle, the others are not empty.
LEMMA TrivialFacts ==
  ASSUME NEW C \in SUBSET Node
  PROVE  /\ Trivial(C) => \A c \in Seq(Node) : IsCycle(c) => ~Within(c, C)
         /\ ~Trivial(C) => C # {}
<1>1. IsFiniteSet(C)
  <2>1. N \in Int /\ 1 \in Int
    BY LockCyclesAssumption
  <2>2. IsFiniteSet(1..N)
    BY <2>1, FS_Interval
  <2>3. QED
    BY <2>2, FS_Subset DEF Node
<1>2. Cardinality(C) \in Nat
  BY <1>1, FS_CardinalityType
<1>3. Trivial(C) => C = {} \/ \E x : C = {x}
  <2>1. Trivial(C) => Cardinality(C) = 0 \/ Cardinality(C) = 1
    BY <1>2 DEF Trivial
  <2>2. Cardinality(C) = 0 => C = {}
    BY <1>1, FS_EmptySet
  <2>3. Cardinality(C) = 1 => \E x : C = {x}
    BY <1>1, FS_Singleton
  <2>4. QED
    BY <2>1, <2>2, <2>3
<1>4. ASSUME Trivial(C), NEW c \in Seq(Node), IsCycle(c), Within(c, C) PROVE FALSE
  <2>1. 1 \in 1..Len(c) /\ 2 \in 1..Len(c) /\ 1 # 2
    BY <1>4 DEF IsCycle
  <2>2. c[1] # c[2]
    BY <1>4, <2>1 DEF IsCycle
  <2>3. c[1] \in C /\ c[2] \in C
    BY <1>4, <2>1 DEF Within
  <2>4. QED
    BY <1>3, <1>4, <2>2, <2>3
<1>5. C = {} => Trivial(C)
  <2>1. C = {} => Cardinality(C) = 0
    BY FS_EmptySet
  <2>2. QED
    BY <2>1 DEF Trivial
<1>6. QED
  BY <1>4, <1>5

\* Taking up a component keeps the invariant.
LEMMA ComponentKeeps ==
  ASSUME TypeOK, SearchInv, NEW C, SearchComponent(C),
         UNCHANGED <<threads, tarjanVars, components>>
  PROVE  SearchInv' /\ TypeOK'
<1>1. /\ SccsFound /\ members = {} /\ ~done /\ C \in components \ searched
      /\ searched' = searched \cup {C} /\ cycles' = <<>>
      /\ findings' = findings /\ truncated' = truncated /\ done' = done
  BY DEF SearchComponent
<1>2. path = <<>> /\ C \in SUBSET Node
  BY <1>1 DEF SearchInv, PathInv, TypeOK
<1>3. /\ SccsFound' = SccsFound
      /\ \A a : Succ(a)' = Succ(a)
      /\ \A c : IsCycle(c)' <=> IsCycle(c)
      /\ \A c : Interleaves(c)' <=> Interleaves(c)
      /\ \A c, D : Within(c, D)' <=> Within(c, D)
  BY SameGraph, SameCycles DEF SccsFound, Unvisited, Nodes, tarjanVars, Within
<1>4. FoundCycles' = {} /\ Len(cycles') = 0 /\ ~Full' /\ cycles' \in Seq(Seq(Node))
  <2>1. Len(<<>>) = 0 /\ 1..0 = {} /\ <<>> \in Seq(Seq(Node))
    OBVIOUS
  <2>2. ~(0 >= MaxCycles)
    BY SearchFacts
  <2>3. QED
    BY <1>1, <2>1, <2>2 DEF FoundCycles, Full
<1>5. QuotaRespected' /\ DoneInv'
  <2>1. 0 <= MaxCycles
    BY SearchFacts
  <2>2. QED
    BY <1>1, <1>4, <2>1 DEF QuotaRespected, DoneInv
<1>6. ASSUME ~truncated', NEW D \in searched, NEW c \in Seq(Node),
             IsCycle(c), Within(c, D), Interleaves(c)
      PROVE  c \in findings'
  <2>1. 1 \in 1..Len(c)
    BY <1>6 DEF IsCycle
  <2>2. D # members
    BY <1>1, <1>6, <2>1 DEF Within
  <2>3. QED
    BY <1>1, <1>6, <2>2 DEF SearchInv, FoundInv
<1>7. searched' \subseteq components /\ components' = components
  BY <1>1 DEF TypeOK
<1>8. CASE Trivial(C)
  <2>1. members' = members /\ path' = path /\ choices' = choices
    BY <1>8 DEF SearchComponent
  <2>2. TypeOK'
    BY <1>1, <1>4, <1>7, <2>1 DEF TypeOK, tarjanVars
  <2>3. PathInv'
    <3>1. Last' = 0 /\ 1..0 = {} /\ 1..(0 - 1) = {}
      BY <1>2, <2>1 DEF Last
    <3>2. QED
      BY <3>1, <1>1, <1>2, <2>1 DEF PathInv
  <2>4. CyclesInv'
    BY <1>1, <1>3, <1>4 DEF SearchInv, CyclesInv
  <2>5. FoundInv'
    <3>1. \A c \in Seq(Node) : IsCycle(c) => ~Within(c, C)
      BY <1>2, <1>8, TrivialFacts
    <3>2. QED
      BY <3>1, <1>1, <1>2, <1>3, <1>6, <2>1 DEF FoundInv
  <2>6. QED
    BY <1>5, <2>2, <2>3, <2>4, <2>5 DEF SearchInv
<1>9. CASE ~Trivial(C)
  <2>1. PICK s : s = Min(C)
    OBVIOUS
  <2>2. members' = C /\ path' = <<s>> /\ choices' = <<Succ(s) \cap C>>
    BY <1>9, <2>1 DEF SearchComponent, Start
  <2>3. s \in C /\ \A m \in C : s <= m
    BY <1>2, <1>9, <2>1, MinNode, TrivialFacts
  <2>4. /\ path' \in Seq(Node) /\ choices' \in Seq(SUBSET Node)
        /\ Last' = 1 /\ Len(choices') = 1 /\ Len(path') = 1 /\ path' # <<>>
        /\ path'[1] = s /\ choices'[1] = Succ(s) \cap C /\ s \notin Succ(s)
        /\ \A k \in 1..1 : k = 1
        /\ \A c \in Seq(Node) : IsCycle(c) /\ Within(c, C) /\ Passed(c)' => c[1] < s
    BY <1>2, <2>2, <2>3, Started
  <2>5. TypeOK'
    BY <1>1, <1>2, <1>4, <1>7, <2>2, <2>4 DEF TypeOK, tarjanVars
  <2>6. PathInv'
    <3>1. \A k \in 1..1 : /\ path'[k] \in C
                          /\ choices'[k] \subseteq Succ(path'[k]) \cap C
                          /\ ~(k > 1)
                          /\ s \notin choices'[k]
      BY <2>3, <2>4
    <3>2. 1..(1 - 1) = {} /\ \A j, k \in 1..1 : j = k
      OBVIOUS
    <3>3. C # {} /\ C \in searched'
      BY <1>1, <2>3
    <3>4. QED
      BY <3>1, <3>2, <3>3, <1>1, <1>3, <2>2, <2>4 DEF PathInv
  <2>7. CyclesInv'
    BY <1>1, <1>3, <1>4 DEF SearchInv, CyclesInv
  <2>8. ASSUME NEW c \in Seq(Node), IsCycle(c), Within(c, C), Passed(c)' PROVE FALSE
    <3>1. c[1] < s
      BY <2>4, <2>8
    <3>2. 1 \in 1..Len(c)
      BY <2>8 DEF IsCycle
    <3>3. c[1] \in C
      BY <2>8, <3>2 DEF Within
    <3>4. c[1] \in Nat /\ s \in Nat /\ s <= c[1]
      BY <3>3, <2>3, <1>2, SearchFacts
    <3>5. QED
      BY <3>1, <3>4
  <2>9. FoundInv'
    BY <1>1, <1>3, <1>6, <2>2, <2>8 DEF FoundInv
  <2>10. QED
    BY <1>5, <2>5, <2>6, <2>7, <2>9 DEF SearchInv
<1>10. QED
  BY <1>8, <1>9

\* The end.
LEMMA FinishKeeps ==
  ASSUME TypeOK, SearchInv, Finish, UNCHANGED <<threads, tarjanVars, components>>
  PROVE  SearchInv' /\ TypeOK'
<1>1. /\ SccsFound /\ components = searched /\ members = {} /\ done' = TRUE
      /\ searched' = searched /\ members' = members /\ path' = path /\ choices' = choices
      /\ cycles' = cycles /\ findings' = findings /\ truncated' = truncated
  BY DEF Finish, searchVars
<1>2. /\ SccsFound' = SccsFound
      /\ \A a : Succ(a)' = Succ(a)
      /\ \A c : IsCycle(c)' <=> IsCycle(c)
      /\ \A c : Interleaves(c)' <=> Interleaves(c)
      /\ \A c, D : Within(c, D)' <=> Within(c, D)
      /\ FoundCycles' = FoundCycles /\ Full' = Full
  BY <1>1, SameGraph, SameCycles
     DEF SccsFound, Unvisited, Nodes, tarjanVars, Within, FoundCycles, Full
<1>3. TypeOK'
  BY <1>1 DEF TypeOK, tarjanVars
<1>4. PathInv'
  BY <1>1, <1>2 DEF SearchInv, PathInv, Last
<1>5. CyclesInv'
  BY <1>1, <1>2 DEF SearchInv, CyclesInv, Passed, Last
<1>6. FoundInv'
  BY <1>1, <1>2 DEF SearchInv, FoundInv, Passed, Last
<1>7. QuotaRespected' /\ DoneInv'
  BY <1>1, <1>2 DEF SearchInv, QuotaRespected, DoneInv
<1>8. QED
  BY <1>3, <1>4, <1>5, <1>6, <1>7 DEF SearchInv

\* A step of the search keeps the invariant.
LEMMA SearchKeeps ==
  ASSUME TypeOK, SearchInv, Search
  PROVE  SearchInv' /\ TypeOK'
<1>0. UNCHANGED <<threads, tarjanVars, components>>
  BY DEF Search
<1>1. ASSUME NEW C \in components, SearchComponent(C) PROVE SearchInv' /\ TypeOK'
  BY <1>0, <1>1, ComponentKeeps
<1>2. CASE TrySuccessor
  <2>1. PICK l \in Nat : l = Last
    BY SearchFacts
  <2>2. PICK n : n = Min(choices[l])
    OBVIOUS
  <2>3. path # <<>> /\ choices[l] # {}
    BY <1>2, <2>1 DEF TrySuccessor
  <2>4. choices[l] \in SUBSET Node
    <3>1. l \in 1..Last
      BY <2>1, <2>3, SearchFacts
    <3>2. QED
      BY <3>1, SearchFacts
  <2>5. n \in choices[l] /\ \A m \in choices[l] : n <= m
    BY <2>2, <2>3, <2>4, MinNode
  <2>6. UNCHANGED <<searched, members, findings, truncated, done>>
    BY <1>2 DEF TrySuccessor
  <2>7. CASE n = path[1]
    <3>1. /\ path' = path /\ cycles' = Append(cycles, path)
          /\ choices' = IF Len(cycles) + 1 >= MaxCycles
                        THEN [choices EXCEPT ![l] = {}]
                        ELSE [choices EXCEPT ![l] = @ \ {path[1]}]
      BY <1>2, <2>1, <2>2, <2>7 DEF TrySuccessor, NextSuccessor
    <3>2. path[1] \in choices[l]
      BY <2>5, <2>7
    <3>3. QED
      BY <1>0, <2>1, <2>3, <2>6, <3>1, <3>2, CloseKeeps
  <2>8. CASE n # path[1] /\ LeftOut(n)
    <3>1. path' = path /\ cycles' = cycles /\ choices' = [choices EXCEPT ![l] = @ \ {n}]
      BY <1>2, <2>1, <2>2, <2>8 DEF TrySuccessor, NextSuccessor
    <3>2. QED
      BY <1>0, <2>1, <2>3, <2>5, <2>6, <2>8, <3>1, SkipKeeps
  <2>9. CASE n # path[1] /\ ~LeftOut(n)
    <3>1. /\ path' = Append(path, n) /\ cycles' = cycles
          /\ choices' = Append([choices EXCEPT ![l] = @ \ {n}], IF Full THEN {} ELSE Adjacent(n))
      BY <1>2, <2>1, <2>2, <2>9 DEF TrySuccessor, NextSuccessor
    <3>2. QED
      BY <1>0, <2>1, <2>3, <2>5, <2>6, <2>9, <3>1, ExtendKeeps
  <2>10. QED
    BY <2>7, <2>8, <2>9
<1>3. CASE Backtrack
  <2>1. PICK l \in Nat : l = Last
    BY SearchFacts
  <2>2. /\ path # <<>> /\ choices[l] = {} /\ l > 0
        /\ UNCHANGED <<searched, cycles, done>>
    BY <1>3, <2>1, SearchFacts DEF Backtrack
  <2>3. CASE l > 1
    <3>1. /\ path' = SubSeq(path, 1, l - 1) /\ choices' = SubSeq(choices, 1, l - 1)
          /\ UNCHANGED <<members, truncated, findings>>
      BY <1>3, <2>1, <2>3 DEF Backtrack
    <3>2. QED
      BY <1>0, <2>1, <2>2, <2>3, <3>1, PopKeeps
  <2>4. CASE ~(l > 1) /\ ~Full /\ LaterStarts # {}
    <3>1. l = 1
      BY <2>2, <2>4
    <3>2. PICK s : s = Min(LaterStarts)
      OBVIOUS
    <3>3. LaterStarts \in SUBSET Node
      BY DEF LaterStarts, TypeOK
    <3>4. s \in LaterStarts /\ \A m \in LaterStarts : s <= m
      BY <2>4, <3>2, <3>3, MinNode
    <3>5. /\ path' = <<s>> /\ choices' = <<Succ(s) \cap members>>
          /\ UNCHANGED <<members, truncated, findings>>
      BY <1>3, <2>1, <2>4, <3>2 DEF Backtrack, Start
    <3>6. QED
      BY <1>0, <2>1, <2>2, <3>1, <3>4, <3>5, RestartKeeps
  <2>5. CASE ~(l > 1) /\ ~(~Full /\ LaterStarts # {})
    <3>1. l = 1
      BY <2>2, <2>5
    <3>2. /\ path' = <<>> /\ choices' = <<>> /\ members' = {}
          /\ truncated' = (truncated \/ Full)
          /\ findings' = findings \cup
               {cycles[k] : k \in {j \in 1..Len(cycles) :
                              DistinctPossible(threads, CycleEdges(cycles[j]), RealThread)}}
      BY <1>3, <2>1, <2>5 DEF Backtrack
    <3>3. QED
      BY <1>0, <2>1, <2>2, <2>5, <3>1, <3>2, StopKeeps
  <2>6. QED
    BY <2>3, <2>4, <2>5
<1>4. CASE Finish
  BY <1>0, <1>4, FinishKeeps
<1>5. QED
  BY <1>1, <1>2, <1>3, <1>4 DEF Search

-----------------------------------------------------------------------------
(* The invariant, and the theorems. *)

Inv == TypeOK /\ TarjanInv /\ SearchInv

\* Nothing is numbered, found or searched at first.
LEMMA InitInv ==
  ASSUME Init
  PROVE  Inv
<1>1. TypeOK
  <2>1. [n \in Node |-> 0] \in [Node -> 0..N]
    <3>1. 0 \in 0..N
      BY LockCyclesAssumption
    <3>2. QED
      BY <3>1
  <2>2. /\ <<>> \in Seq(Node) /\ <<>> \in Seq([node : Node, children : SUBSET Node])
        /\ <<>> \in Seq(SUBSET Node) /\ <<>> \in Seq(Seq(Node))
    OBVIOUS
  <2>3. QED
    BY <2>1, <2>2 DEF Init, TypeOK
<1>2. /\ \A m \in Node : index[m] = 0
      /\ Len(stack) = 0 /\ Len(work) = 0 /\ 1..0 = {} /\ Depth = {} /\ components = {}
  BY DEF Init, Depth
<1>3. Numbered
  <2>1. NextIndex \in Nat \ {0}
    BY <1>1, NextIndexFacts
  <2>2. \A m \in Node : index[m] < NextIndex
    BY <1>2, <2>1
  <2>3. QED
    BY <1>2, <2>2 DEF Numbered
<1>4. \A m : ~OnStack(m)
  BY <1>2 DEF OnStack
<1>5. Emitted = {}
  BY <1>2 DEF Emitted
<1>6. TarjanInv
  BY <1>2, <1>3, <1>4, <1>5
     DEF TarjanInv, Sorted, Visited, Explored, Closed, Linked, LowFound, LowLeast
<1>7. PathInv
  <2>1. 1..(0 - 1) = {} /\ Last = 0
    BY DEF Init, Last
  <2>2. QED
    BY <1>2, <2>1 DEF Init, PathInv
<1>8. CyclesInv /\ FoundInv /\ DoneInv
  BY <1>2 DEF Init, CyclesInv, FoundInv, FoundCycles, DoneInv
<1>9. QuotaRespected
  <2>1. 0 <= MaxCycles
    BY LockCyclesAssumption
  <2>2. QED
    BY <2>1 DEF Init, QuotaRespected
<1>10. QED
  BY <1>1, <1>6, <1>7, <1>8, <1>9 DEF Inv, SearchInv

\* Every step keeps the invariant.
LEMMA InvKept ==
  ASSUME Inv, [Next]_vars
  PROVE  Inv'
<1>1. TypeOK /\ TarjanInv /\ SearchInv
  BY DEF Inv
<1>2. CASE Tarjan
  BY <1>1, <1>2, TarjanTypes, TarjanKeeps, TarjanSearch DEF Inv
<1>3. CASE Search
  <2>1. UNCHANGED <<threads, tarjanVars, components>>
    BY <1>3 DEF Search
  <2>2. TarjanInv'
    BY <1>1, <2>1, SameTarjan
  <2>3. SearchInv' /\ TypeOK'
    BY <1>1, <1>3, SearchKeeps
  <2>4. QED
    BY <2>2, <2>3 DEF Inv
<1>4. CASE UNCHANGED vars
  <2>1. UNCHANGED <<threads, tarjanVars, components>>
    BY <1>4 DEF vars
  <2>2. TarjanInv'
    BY <1>1, <2>1, SameTarjan
  <2>3. /\ searched' = searched /\ members' = members /\ path' = path /\ choices' = choices
        /\ cycles' = cycles /\ findings' = findings /\ truncated' = truncated /\ done' = done
    BY <1>4 DEF vars, searchVars
  <2>4. /\ SccsFound' = SccsFound
        /\ \A a : Succ(a)' = Succ(a)
        /\ \A c : IsCycle(c)' <=> IsCycle(c)
        /\ \A c : Interleaves(c)' <=> Interleaves(c)
        /\ \A c, D : Within(c, D)' <=> Within(c, D)
        /\ FoundCycles' = FoundCycles /\ Full' = Full
    BY <2>1, <2>3, SameGraph, SameCycles
       DEF SccsFound, Unvisited, Nodes, tarjanVars, Within, FoundCycles, Full
  <2>5. TypeOK'
    BY <1>1, <2>1, <2>3 DEF TypeOK, tarjanVars
  <2>6. PathInv'
    BY <1>1, <2>3, <2>4 DEF SearchInv, PathInv, Last
  <2>7. CyclesInv' /\ FoundInv'
    BY <1>1, <2>3, <2>4 DEF SearchInv, CyclesInv, FoundInv, Passed, Last
  <2>8. QuotaRespected' /\ DoneInv'
    BY <1>1, <2>1, <2>3, <2>4 DEF SearchInv, QuotaRespected, DoneInv
  <2>9. QED
    BY <2>2, <2>5, <2>6, <2>7, <2>8 DEF Inv, SearchInv
<1>5. QED
  BY <1>2, <1>3, <1>4 DEF Next

\* The invariant holds in every reachable state.
LEMMA InvHolds ==
  Spec => []Inv
<1>1. Init => Inv
  BY InitInv
<1>2. Inv /\ [Next]_vars => Inv'
  BY InvKept
<1>3. QED
  BY <1>1, <1>2, PTL DEF Spec

\* The cycles of the invariant are the elementary cycles of the definition.
LEMMA CyclesAgree ==
  ElementaryCycles = {c \in Seq(Node) : IsCycle(c)}
<1>1. ASSUME NEW p \in ElementaryCycles PROVE p \in Seq(Node) /\ IsCycle(p)
  <2>1. /\ p \in Paths /\ Len(p) > 1 /\ IsPath(p) /\ threads[<<p[Len(p)], p[1]>>] # {}
        /\ \A k \in 2..Len(p) : p[1] < p[k]
    BY DEF ElementaryCycles
  <2>2. /\ p \in Seq(Node) /\ Len(p) \in Nat
        /\ \A i, j \in 1..Len(p) : i # j => p[i] # p[j]
        /\ \A i \in 1..Len(p) : p[i] \in Node
    <3>1. p \in Seq(Node) /\ \A i, j \in 1..Len(p) : i # j => p[i] # p[j]
      BY <2>1, PathFacts
    <3>2. QED
      BY <3>1
  <2>3. ASSUME NEW k \in 1..Len(p) PROVE Follow(p, k) \in Succ(p[k])
    <3>1. CASE k = Len(p)
      <4>1. 1 \in 1..Len(p) /\ k # 1
        BY <2>1, <2>2, <3>1
      <4>2. p[1] # p[k] /\ p[1] \in Node /\ threads[<<p[k], p[1]>>] # {}
        BY <2>1, <2>2, <3>1, <4>1
      <4>3. QED
        BY <3>1, <4>2 DEF Follow, Succ
    <3>2. CASE k # Len(p)
      <4>1. k + 1 \in 1..Len(p) /\ k + 1 # k /\ k \in 1..(Len(p) - 1)
        BY <2>2, <3>2
      <4>2. p[k + 1] # p[k] /\ p[k + 1] \in Node
        BY <2>2, <4>1
      <4>3. threads[<<p[k], p[k + 1]>>] # {}
        BY <2>1, <4>1 DEF IsPath
      <4>4. QED
        BY <3>2, <4>2, <4>3 DEF Follow, Succ
    <3>3. QED
      BY <3>1, <3>2
  <2>4. QED
    BY <2>1, <2>2, <2>3 DEF IsCycle
<1>2. ASSUME NEW c \in Seq(Node), IsCycle(c) PROVE c \in ElementaryCycles
  <2>1. /\ Len(c) \in Nat \ {0} /\ Len(c) > 1
        /\ c \in [1..Len(c) -> Node]
        /\ \A i, j \in 1..Len(c) : i # j => c[i] # c[j]
        /\ \A k \in 2..Len(c) : c[1] < c[k]
    BY <1>2 DEF IsCycle
  <2>2. c \in Paths
    BY <2>1, IsAPath
  <2>3. \A k \in 1..Len(c) : threads[<<c[k], Follow(c, k)>>] # {}
    BY <1>2 DEF IsCycle, Succ
  <2>4. IsPath(c)
    <3>1. PICK u \in Nat : u = Len(c)
      BY <2>1
    <3>2. \A k \in 1..(u - 1) : k \in 1..u /\ k # u
      OBVIOUS
    <3>3. QED
      BY <2>3, <3>1, <3>2 DEF IsPath, Follow
  <2>5. threads[<<c[Len(c)], c[1]>>] # {}
    <3>1. Len(c) \in 1..Len(c)
      BY <2>1
    <3>2. QED
      BY <2>3, <3>1 DEF Follow
  <2>6. QED
    BY <2>1, <2>2, <2>4, <2>5 DEF ElementaryCycles
<1>3. QED
  BY <1>1, <1>2

\* A closed set holds the whole of a cycle from each of its nodes on.
LEMMA CycleUpward ==
  ASSUME NEW S \in SUBSET Node, \A x \in S : Succ(x) \subseteq S,
         NEW c \in Seq(Node), IsCycle(c), NEW j \in 1..Len(c), c[j] \in S
  PROVE  \A k \in 1..Len(c) : k >= j => c[k] \in S
<1> DEFINE T == {k \in 1..Len(c) : k >= j /\ c[k] \notin S}
<1>1. Len(c) \in Nat /\ c \in [1..Len(c) -> Node] /\ N \in Nat
  BY LockCyclesAssumption
<1>2. Len(c) <= N
  BY <1>1, NoRepetition DEF IsCycle
<1>3. T \in SUBSET Node
  BY <1>1, <1>2 DEF Node
<1>4. SUFFICES ASSUME T # {} PROVE FALSE
  OBVIOUS
<1>5. PICK m : m = Min(T)
  OBVIOUS
<1>6. m \in T /\ \A i \in T : m <= i
  BY <1>3, <1>4, <1>5, MinNode
<1>7. m # j
  BY <1>6
<1>8. /\ m - 1 \in 1..Len(c) /\ m - 1 >= j /\ ~(m <= m - 1) /\ m - 1 # Len(c)
      /\ (m - 1) + 1 = m
  BY <1>1, <1>6, <1>7
<1>9. c[m - 1] \in S
  BY <1>6, <1>8
<1>10. c[m] \in Succ(c[m - 1])
  <2>1. Follow(c, m - 1) = c[m]
    BY <1>8 DEF Follow
  <2>2. QED
    BY <1>8, <2>1 DEF IsCycle
<1>11. QED
  BY <1>6, <1>9, <1>10

\* The nodes of a cycle reach each other.
LEMMA CycleConnected ==
  ASSUME NEW c \in Seq(Node), IsCycle(c), NEW j \in 1..Len(c), NEW k \in 1..Len(c)
  PROVE  Reaches(c[j], c[k]) /\ c[k] \in Nodes
<1>1. SUFFICES ASSUME NEW S \in SUBSET Node, c[j] \in S, \A x \in S : Succ(x) \subseteq S
               PROVE  c[k] \in S
  <2>1. Follow(c, k) \in Succ(c[k]) /\ c[k] \in Node
    BY DEF IsCycle
  <2>2. c[k] \in Nodes
    BY <2>1, GraphFacts
  <2>3. QED
    BY <2>2 DEF Reaches
<1>2. Len(c) \in 1..Len(c) /\ 1 \in 1..Len(c) /\ Len(c) >= j /\ k >= 1
  BY DEF IsCycle
<1>3. c[Len(c)] \in S
  BY <1>1, <1>2, CycleUpward
<1>4. c[1] \in Succ(c[Len(c)])
  BY <1>2 DEF IsCycle, Follow
<1>5. c[1] \in S
  BY <1>1, <1>3, <1>4
<1>6. QED
  BY <1>1, <1>2, <1>5, CycleUpward

\* Threads of their own drive two of the edges.
LEMMA InterleavingFound ==
  ASSUME NEW c \in Seq(Node), IsCycle(c), CanInterleave(c)
  PROVE  Interleaves(c)
<1>1. PICK who \in [1..Len(c) -> RealThread] :
        /\ \A j, k \in 1..Len(c) : j # k => who[j] # who[k]
        /\ \A k \in 1..Len(c) : who[k] \in threads[<<c[k], IF k = Len(c) THEN c[1] ELSE c[k + 1]>>]
  BY DEF CanInterleave
<1>2. 1 \in 1..Len(c) /\ 2 \in 1..Len(c) /\ 1 # 2
  BY DEF IsCycle
<1>3. PICK e, f : /\ e = <<c[1], IF 1 = Len(c) THEN c[1] ELSE c[1 + 1]>>
                  /\ f = <<c[2], IF 2 = Len(c) THEN c[1] ELSE c[2 + 1]>>
  OBVIOUS
<1>4. e \in CycleEdges(c) /\ f \in CycleEdges(c)
  BY <1>2, <1>3 DEF CycleEdges
<1>5. e # f
  <2>1. c[1] # c[2]
    BY <1>2 DEF IsCycle
  <2>2. QED
    BY <1>3, <2>1
<1>6. /\ who[1] \in threads[e] \cap RealThread /\ who[2] \in threads[f] \cap RealThread
      /\ who[1] # who[2]
  BY <1>1, <1>2, <1>3
<1>7. QED
  BY <1>4, <1>5, <1>6 DEF Interleaves, DistinctPossible

\* The types of the search, and its quota although the callers of the search that
\* met it go on (guarded_port_analyzer.py:379).
THEOREM SearchInvariantHolds ==
  Spec => []SearchInvariant
<1>1. Inv => SearchInvariant
  BY DEF Inv, SearchInv, SearchInvariant
<1>2. QED
  BY <1>1, InvHolds, PTL

\* The iterative Tarjan finds exactly the strongly connected components.
THEOREM ComponentsExactHolds ==
  Spec => []ComponentsExact
<1>1. Inv => ComponentsExact
  BY ComponentsFound DEF Inv, ComponentsExact
<1>2. QED
  BY <1>1, InvHolds, PTL

\* Only elementary cycles are found, each once.
THEOREM CyclesSoundHolds ==
  Spec => []CyclesSound
<1>1. Inv => CyclesSound
  <2>1. SUFFICES ASSUME Inv PROVE CyclesSound
    OBVIOUS
  <2>2. CyclesInv
    BY <2>1 DEF Inv, SearchInv
  <2>3. \A c \in findings : c \in Seq(Node) /\ IsCycle(c)
    BY <2>2 DEF CyclesInv, IsCycle
  <2>4. findings \subseteq ElementaryCycles
    BY <2>3, CyclesAgree
  <2>5. QED
    BY <2>2, <2>4 DEF CyclesInv, CyclesSound
<1>2. QED
  BY <1>1, InvHolds, PTL

\* A cycle whose edges distinct real threads drive is reported, unless the report
\* says it is truncated.
THEOREM CircularWaitsReportedHolds ==
  Spec => []CircularWaitsReported
<1>1. Inv => CircularWaitsReported
  <2>1. SUFFICES ASSUME Inv, done, ~truncated,
                        NEW c \in ElementaryCycles, CanInterleave(c)
                 PROVE  c \in findings
    BY DEF CircularWaitsReported
  <2>2. c \in Seq(Node) /\ IsCycle(c)
    BY CyclesAgree
  <2>3. Interleaves(c)
    BY <2>1, <2>2, InterleavingFound
  <2>4. SccsFound /\ components = searched /\ members = {} /\ components = Sccs
    BY <2>1, ComponentsFound DEF Inv, SearchInv, DoneInv
  <2>5. 1 \in 1..Len(c)
    BY <2>2 DEF IsCycle
  <2>6. PICK C : C = {m \in Nodes : Connects(c[1], m) /\ Connects(m, c[1])}
    OBVIOUS
  <2>7. \A k \in 1..Len(c) : c[k] \in Nodes /\ Reaches(c[1], c[k]) /\ Reaches(c[k], c[1])
    BY <2>2, <2>5, CycleConnected
  <2>8. Within(c, C)
    <3>1. Nodes \subseteq Node
      BY DEF Nodes
    <3>2. \A k \in 1..Len(c) : Connects(c[1], c[k]) /\ Connects(c[k], c[1])
      BY <2>5, <2>7, <3>1, ReachHasPath
    <3>3. QED
      BY <2>6, <2>7, <3>2 DEF Within
  <2>9. C \in searched \ {members}
    <3>1. C \in Sccs
      BY <2>5, <2>6, <2>7 DEF Sccs
    <3>2. C # {}
      BY <2>5, <2>8 DEF Within
    <3>3. QED
      BY <2>4, <3>1, <3>2
  <2>10. QED
    BY <2>1, <2>2, <2>3, <2>8, <2>9 DEF Inv, SearchInv, FoundInv
<1>2. QED
  BY <1>1, InvHolds, PTL
=============================================================================
