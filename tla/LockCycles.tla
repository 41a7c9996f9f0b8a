----------------------------- MODULE LockCycles -----------------------------
(***************************************************************************)
(* From the lock-order graph to findings (guarded_port_analyzer.py,        *)
(* detect_cycles): Tarjan's strongly connected components, iteratively;    *)
(* the elementary cycles of each, by a depth-first search cut off at       *)
(* max_cycles; and the classification of each cycle by the threads of its  *)
(* edges.  Instances are numbered in the order of their names.             *)
(***************************************************************************)
EXTENDS LockOrder, Naturals, Sequences, FiniteSets, FiniteSetsExt

CONSTANTS
  N,            \* number of instances
  RealThread,   \* <thread:...> origins
  OtherOrigin,  \* <external:...> origins and <unknown>
  LockOrders,   \* the lock-order graphs considered
  MaxCycles,    \* max_cycles
  RecursionLimit  \* bound: calls of dfs within each other, beyond which Python raises

Node == 1..N
Edge == {e \in Node \X Node : e[1] # e[2]}

ASSUME LockCyclesAssumption ==
  /\ N \in Nat \ {0}
  /\ MaxCycles \in Nat \ {0}
  /\ RecursionLimit \in Nat
  /\ RealThread \cap OtherOrigin = {}
  /\ LockOrders \subseteq [Edge -> SUBSET (RealThread \cup OtherOrigin)]

VARIABLES
  threads,     \* lock_edges: the threads of each edge, {} for no edge
  index, lowlink,  \* Tarjan's numbers, 0 before a node is visited
  stack,       \* Tarjan's node stack
  work,        \* its explicit call stack: nodes and children left
  components,  \* the components found
  searched,    \* those that were searched for cycles
  members,     \* the component being searched, {} for none
  path,        \* the nodes of the search path, the start first
  choices,     \* for each of them, the successors left
  cycles,      \* cycles of this component
  findings,    \* ABBA findings: their cycles
  truncated,
  done

tarjanVars == <<index, lowlink, stack, work>>
searchVars == <<searched, members, path, choices, cycles>>
vars == <<threads, tarjanVars, components, searchVars, findings, truncated, done>>

Succ(n) == {m \in Node \ {n} : threads[<<n, m>>] # {}}
Nodes == {n \in Node : \E m \in Node \ {n} : threads[<<n, m>>] # {} \/ threads[<<m, n>>] # {}}

Init ==
  /\ threads \in LockOrders
  /\ index = [n \in Node |-> 0]
  /\ lowlink = [n \in Node |-> 0]
  /\ stack = <<>>
  /\ work = <<>>
  /\ components = {}
  /\ searched = {}
  /\ members = {}
  /\ path = <<>>
  /\ choices = <<>>
  /\ cycles = <<>>
  /\ findings = {}
  /\ truncated = FALSE
  /\ done = FALSE

-----------------------------------------------------------------------------
(* Strongly connected components *)

Top == work[Len(work)]

\* Mutant: a node left on no stack still counts.
WasVisited(n) == index[n] # 0

OnStack(n) == \E k \in 1..Len(stack) : stack[k] = n
Unvisited == {n \in Nodes : index[n] = 0}
Lower(a, b) == IF a < b THEN a ELSE b
NextIndex == Cardinality({m \in Node : index[m] # 0}) + 1

\* A node is numbered and pushed the first time it is on top of the call stack.
Visit(n, below) ==
  /\ index' = [index EXCEPT ![n] = NextIndex]
  /\ lowlink' = [lowlink EXCEPT ![n] = NextIndex]
  /\ stack' = Append(stack, n)
  /\ work' = Append(below, [node |-> n, children |-> Succ(n)])

VisitRoot ==
  /\ work = <<>> /\ Unvisited # {}
  /\ Visit(Min(Unvisited), <<>>)
  /\ UNCHANGED components

VisitChild(c) ==
  /\ work # <<>> /\ c \in Top.children
  /\ LET rest == [work EXCEPT ![Len(work)].children = @ \ {c}]
     IN  IF index[c] = 0
         THEN Visit(c, rest)
         ELSE /\ work' = rest
              /\ lowlink' = IF OnStack(c)
                            THEN [lowlink EXCEPT ![Top.node] = Lower(@, index[c])]
                            ELSE lowlink
              /\ UNCHANGED <<index, stack>>
  /\ UNCHANGED components

\* All children seen: emit the component whose root this node is, and pass the
\* lowlink on to the caller.
FinishNode ==
  /\ work # <<>> /\ Top.children = {}
  /\ LET n    == Top.node
         here == CHOOSE k \in 1..Len(stack) : stack[k] = n
         up   == Len(work) - 1
     IN  /\ IF lowlink[n] = index[n]
            THEN /\ components' = components \cup {{stack[k] : k \in here..Len(stack)}}
                 /\ stack' = SubSeq(stack, 1, here - 1)
            ELSE UNCHANGED <<components, stack>>
         /\ work' = SubSeq(work, 1, up)
         /\ lowlink' = IF up = 0 THEN lowlink
                       ELSE [lowlink EXCEPT ![work[up].node] = Lower(@, lowlink[n])]
  /\ UNCHANGED index

Tarjan ==
  /\ VisitRoot \/ (\E c \in Node : VisitChild(c)) \/ FinishNode
  /\ UNCHANGED <<threads, searchVars, findings, truncated, done>>

SccsFound == work = <<>> /\ Unvisited = {}

-----------------------------------------------------------------------------
(* Elementary cycles of one component *)

Adjacent(n) == Succ(n) \cap members
Full == Len(cycles) >= MaxCycles
Last == Len(path)

\* dfs(start, start, [start], {start})
Start(n, within) ==
  /\ path' = <<n>>
  /\ choices' = <<Succ(n) \cap within>>

\* Mutant: a cycle of two is taken for no cycle.
TrivialPair(c) == Cardinality(c) < 3

Trivial(c) == Cardinality(c) < 2

SearchComponent(c) ==
  /\ SccsFound /\ members = {} /\ ~done
  /\ c \in components \ searched
  /\ searched' = searched \cup {c}
  /\ IF Trivial(c)
     THEN UNCHANGED <<members, path, choices>>
     ELSE members' = c /\ Start(Min(c), c)
  /\ cycles' = <<>>
  /\ UNCHANGED <<findings, truncated, done>>

\* Mutants: largest first; a node on the path is taken again; a start is searched
\* again.
LargestSuccessor == Max(choices[Last])
SmallerThanStart(n) == n < path[1]
StartsAgain == {n \in members : n >= path[1]}

NextSuccessor == Min(choices[Last])
LeftOut(n) == n < path[1] \/ \E k \in 1..Last : path[k] = n
LaterStarts == {n \in members : n > path[1]}

\* The loop over the successors of the last node, smallest first.  Beyond the
\* recursion limit the search stops with an exception and reports nothing.
TrySuccessor ==
  /\ path # <<>> /\ choices[Last] # {}
  /\ LET n    == NextSuccessor
         rest == [choices EXCEPT ![Last] = @ \ {n}]
     IN  IF n = path[1]
         THEN /\ cycles' = Append(cycles, path)
              /\ choices' = IF Len(cycles) + 1 >= MaxCycles
                            THEN [choices EXCEPT ![Last] = {}] ELSE rest
              /\ UNCHANGED path
         ELSE IF LeftOut(n)
         THEN /\ choices' = rest
              /\ UNCHANGED <<path, cycles>>
         ELSE /\ Last < RecursionLimit
              /\ path' = Append(path, n)
              /\ choices' = Append(rest, IF Full THEN {} ELSE Adjacent(n))
              /\ UNCHANGED cycles
  /\ UNCHANGED <<searched, members, findings, truncated, done>>

\* dfs returns.  At the outermost call the next start is taken, unless the
\* quota ended the search; then the cycles found are classified.
Backtrack ==
  /\ path # <<>> /\ choices[Last] = {}
  /\ IF Last > 1
     THEN /\ path' = SubSeq(path, 1, Last - 1)
          /\ choices' = SubSeq(choices, 1, Last - 1)
          /\ UNCHANGED <<members, truncated, findings>>
     ELSE IF ~Full /\ LaterStarts # {}
     THEN /\ Start(Min(LaterStarts), members)
          /\ UNCHANGED <<members, truncated, findings>>
     ELSE /\ path' = <<>>
          /\ choices' = <<>>
          /\ members' = {}
          /\ truncated' = (truncated \/ Full)
          /\ findings' = findings \cup
               {cycles[k] : k \in {j \in 1..Len(cycles) :
                              DistinctPossible(threads, CycleEdges(cycles[j]), RealThread)}}
  /\ UNCHANGED <<searched, cycles, done>>

Finish ==
  /\ SccsFound /\ components = searched /\ members = {} /\ ~done
  /\ done' = TRUE
  /\ UNCHANGED <<searchVars, findings, truncated>>

Search ==
  /\ (\E c \in components : SearchComponent(c)) \/ TrySuccessor \/ Backtrack \/ Finish
  /\ UNCHANGED <<threads, tarjanVars, components>>

Next == Tarjan \/ Search

Spec == Init /\ [][Next]_vars /\ WF_vars(Next)

-----------------------------------------------------------------------------
(* What is to be found, from the definitions of graph theory. *)

Paths ==
  UNION { {p \in [1..k -> Node] : \A i, j \in 1..k : i # j => p[i] # p[j]} : k \in 1..N }

IsPath(p) == \A k \in 1..(Len(p) - 1) : threads[<<p[k], p[k + 1]>>] # {}

Connects(a, b) == \E p \in Paths : p[1] = a /\ p[Len(p)] = b /\ IsPath(p)

\* The node sets of the strongly connected components.
Sccs == {{m \in Nodes : Connects(n, m) /\ Connects(m, n)} : n \in Nodes}

\* The elementary cycles, each written from its smallest node.
ElementaryCycles ==
  { p \in Paths : Len(p) > 1 /\ IsPath(p) /\ threads[<<p[Len(p)], p[1]>>] # {}
                  /\ \A k \in 2..Len(p) : p[1] < p[k] }

\* A circular wait: every edge of the cycle has a real thread of its own.
CanInterleave(c) ==
  \E who \in [1..Len(c) -> RealThread] :
    /\ \A j, k \in 1..Len(c) : j # k => who[j] # who[k]
    /\ \A k \in 1..Len(c) : who[k] \in threads[<<c[k], IF k = Len(c) THEN c[1] ELSE c[k + 1]>>]

-----------------------------------------------------------------------------
TypeOK ==
  /\ threads \in LockOrders
  /\ index \in [Node -> 0..N] /\ lowlink \in [Node -> 0..N]
  /\ stack \in Seq(Node)
  /\ work \in Seq([node : Node, children : SUBSET Node])
  /\ components \subseteq SUBSET Node /\ searched \subseteq components
  /\ members \subseteq Node
  /\ path \in Seq(Node) /\ choices \in Seq(SUBSET Node) /\ Len(choices) = Len(path)
  /\ cycles \in Seq(Seq(Node)) /\ findings \subseteq Seq(Node)
  /\ truncated \in BOOLEAN /\ done \in BOOLEAN

\* The iterative Tarjan finds exactly the strongly connected components,
\* whatever order the dictionary gives the children in.
ComponentsExact == SccsFound => components = Sccs

\* No cycle is found twice, and only cycles are found.
CyclesSound ==
  /\ \A j, k \in 1..Len(cycles) : j # k => cycles[j] # cycles[k]
  /\ done => findings \subseteq ElementaryCycles

\* max_cycles is a bound although the search goes on in the callers of the dfs
\* that met it: it holds only because successors are tried smallest first.
QuotaRespected == Len(cycles) <= MaxCycles

\* The search keeps its types and its quota.
SearchInvariant == TypeOK /\ QuotaRespected

\* A lock-order cycle whose edges distinct real threads drive is reported,
\* unless the report says it is truncated.
CircularWaitsReported ==
  done /\ ~truncated => {c \in ElementaryCycles : CanInterleave(c)} \subseteq findings

\* Both searches end, on every graph, and dfs never calls itself deeper than there
\* are nodes: what ends it is that a path takes no node twice, for a way back to
\* the start may lie behind a branch that is tried first.
SearchEnds == <>done
=============================================================================
