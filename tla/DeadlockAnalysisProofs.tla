------------------------ MODULE DeadlockAnalysisProofs ------------------------
(***************************************************************************)
(* Proofs about the guarded-port analyzer and the deployment it speaks     *)
(* about, for every topology, budget, number of threads and depth of       *)
(* calls.  What the walk records in the lock-order graph is real, and when *)
(* it was neither truncated nor refused it recorded everything; so the     *)
(* nestings, re-entries and circular waits of the running threads are in   *)
(* that graph.                                                             *)
(***************************************************************************)
EXTENDS DeadlockAnalysis, FprimeRuntimeProofs

-----------------------------------------------------------------------------
(* The lock states calls lead to. *)

\* There are finitely many handlers and lock states.
LEMMA LockStateFinite == IsFiniteSet(Handler) /\ IsFiniteSet(LockState)
<1>1. IsFiniteSet(Handler)
  BY NamesAssumption, FS_Union DEF Handler
<1>2. IsFiniteSet(SUBSET Instance)
  BY NamesAssumption, FS_SUBSET
<1>3. QED
  BY <1>1, <1>2, FS_Product DEF LockState

\* Calls lead to lock states.
LEMMA CallsUnderType ==
  ASSUME NEW t \in Topology, NEW c \in LockState
  PROVE  CallsUnder(t, c) \subseteq LockState
<1>1. c[1] \in Handler /\ c[2] \in SUBSET Instance
  BY DEF LockState
<1>2. t.owner \in [Handler \cup OutPort -> Instance]
  BY DEF Topology
<1>3. ASSUME NEW hop \in ThreadHops(t, c[1])
      PROVE  /\ hop.port \in InPort /\ hop.kind \in SyncKind
             /\ t.owner[hop.port] \in Instance
             /\ FlowEntries(t, hop.port, hop.kind) \subseteq Handler
  <2>1. hop.port \in InPort /\ hop.kind \in SyncKind
    BY <1>1, HopsType
  <2>2. QED
    BY <1>2, <2>1, FlowEntriesType DEF Handler
<1>4. QED
  BY <1>1, <1>3 DEF CallsUnder, LockState

\* What a set of lock states leads to: itself, closed under calls, and no more.
LEMMA LeadsToFacts ==
  ASSUME NEW t \in Topology, NEW S \in SUBSET LockState
  PROVE  /\ LeadsTo(t, S) \subseteq LockState
         /\ S \subseteq LeadsTo(t, S)
         /\ \A c \in LeadsTo(t, S) : CallsUnder(t, c) \subseteq LeadsTo(t, S)
         /\ \A C \in SUBSET LockState :
              S \subseteq C /\ (\A c \in C : CallsUnder(t, c) \subseteq C) => LeadsTo(t, S) \subseteq C
<1> DEFINE next == [c \in LockState |-> CallsUnder(t, c)]
<1>1. next \in [LockState -> SUBSET LockState]
  BY CallsUnderType
<1>2. IsFiniteSet(LockState)
  BY LockStateFinite
<1>3. LeadsTo(t, S) = Closure(next, S)
  BY DEF LeadsTo
<1>4. \A c \in LockState : next[c] = CallsUnder(t, c)
  OBVIOUS
<1> HIDE DEF next
<1>5. /\ Closure(next, S) \subseteq LockState
      /\ S \subseteq Closure(next, S)
      /\ \A x \in Closure(next, S) : next[x] \subseteq Closure(next, S)
      /\ \A C \in SUBSET LockState :
           S \subseteq C /\ (\A y \in C : next[y] \subseteq C) => Closure(next, S) \subseteq C
  BY <1>1, <1>2, ClosureFacts
<1>6. ASSUME NEW c \in Closure(next, S) PROVE CallsUnder(t, c) \subseteq Closure(next, S)
  BY <1>4, <1>5
<1>7. ASSUME NEW C \in SUBSET LockState, S \subseteq C, \A c \in C : CallsUnder(t, c) \subseteq C
      PROVE  Closure(next, S) \subseteq C
  BY <1>4, <1>5, <1>7
<1>8. QED
  BY <1>3, <1>5, <1>6, <1>7

\* A guarded entry begins in lock states.
LEMMA EntryStateType ==
  ASSUME NEW t \in Topology, NEW p \in InPort, NEW h \in FlowEntries(t, p, "guarded")
  PROVE  h \in Handler /\ t.owner[p] \in Instance /\ EntryState(t, p, h) \in LockState
<1>1. h \in Handler
  BY FlowEntriesType DEF SyncKind
<1>2. t.owner[p] \in Instance
  BY DEF Topology, Handler
<1>3. QED
  BY <1>1, <1>2 DEF EntryState, LockState

\* The lock states of a guarded entry.
LEMMA LockStatesFacts ==
  ASSUME NEW t \in Topology, NEW p \in InPort
  PROVE  /\ LockStates(t, p) \subseteq LockState
         /\ \A h \in FlowEntries(t, p, "guarded") : EntryState(t, p, h) \in LockStates(t, p)
         /\ \A c \in LockStates(t, p) : CallsUnder(t, c) \subseteq LockStates(t, p)
<1> DEFINE S == {EntryState(t, p, h) : h \in FlowEntries(t, p, "guarded")}
<1>1. S \in SUBSET LockState
  BY EntryStateType
<1>2. LockStates(t, p) = LeadsTo(t, S)
  BY DEF LockStates
<1>3. /\ LeadsTo(t, S) \subseteq LockState
      /\ S \subseteq LeadsTo(t, S)
      /\ \A c \in LeadsTo(t, S) : CallsUnder(t, c) \subseteq LeadsTo(t, S)
  BY <1>1, LeadsToFacts
<1>4. QED
  BY <1>2, <1>3

\* Each of them is one that a single handler behind the entry leads to.
LEMMA LockStatesByHandler ==
  ASSUME NEW t \in Topology, NEW p \in InPort, NEW c \in LockStates(t, p)
  PROVE  \E h \in FlowEntries(t, p, "guarded") : c \in LeadsTo(t, {EntryState(t, p, h)})
<1> DEFINE H == FlowEntries(t, p, "guarded")
           S == {EntryState(t, p, h) : h \in H}
           C == UNION {LeadsTo(t, {EntryState(t, p, h)}) : h \in H}
<1>1. ASSUME NEW h \in H
      PROVE  LET L == LeadsTo(t, {EntryState(t, p, h)})
             IN  /\ L \subseteq LockState /\ EntryState(t, p, h) \in L
                 /\ \A x \in L : CallsUnder(t, x) \subseteq L
  <2>1. {EntryState(t, p, h)} \in SUBSET LockState
    BY EntryStateType
  <2>2. QED
    BY <2>1, LeadsToFacts
<1>2. S \in SUBSET LockState /\ C \in SUBSET LockState /\ S \subseteq C
  BY <1>1, EntryStateType
<1>3. \A x \in C : CallsUnder(t, x) \subseteq C
  BY <1>1
<1>4. LockStates(t, p) = LeadsTo(t, S)
  BY DEF LockStates
<1> HIDE DEF S, C
<1>5. LeadsTo(t, S) \subseteq C
  BY <1>2, <1>3, LeadsToFacts
<1>6. QED
  BY <1>4, <1>5 DEF C

-----------------------------------------------------------------------------
(* The nestings and re-entries there are. *)

\* The threads of a nesting are those of the guarded entries with such a chain.
LEMMA NestedDef ==
  ASSUME NEW t \in Topology, NEW a \in Instance, NEW b \in Instance
  PROVE  Nested(t)[<<a, b>>] =
           UNION {ThreadsAt(t)[p] : p \in {x \in GuardedEntries(t) :
             \E c \in LockStates(t, x) : a \in c[2] /\ b \notin c[2]
                /\ \E q \in GuardedCalls(t, c) : t.owner[q] = b}}
BY DEF Nested

\* So are those of a re-entry.
LEMMA ReenteredDef ==
  ASSUME NEW t \in Topology, NEW i \in Instance
  PROVE  Reentered(t)[i] =
           UNION {ThreadsAt(t)[p] : p \in {x \in GuardedEntries(t) :
             \E c \in LockStates(t, x) : i \in c[2]
                /\ \E q \in GuardedCalls(t, c) : t.owner[q] = i}}
BY DEF Reentered

\* Labels are origins, or the mark of a port that no origin reaches.
LEMMA ThreadsAtType ==
  ASSUME NEW t \in Topology
  PROVE  ThreadsAt(t) \in [InPort -> Labels]
<1>1. ASSUME NEW p \in InPort PROVE ThreadsReaching(t)[p] \subseteq Origin
  BY ThreadsReachingDef, OriginSeedsType DEF Seed
<1>2. QED
  BY <1>1 DEF ThreadsAt, Labels

-----------------------------------------------------------------------------
(* The inductive invariant: what is recorded is real. *)

\* The history variables, and the labels, are what they were computed to be.
InputExact ==
  /\ labels = ThreadsAt(topo)
  /\ real = [nested |-> Nested(topo), reentered |-> Reentered(topo)]

\* Every frame stands for lock states of the entry being walked, and so does what
\* it is about to enter.
FramesReal ==
  /\ frames = <<>> <=> entry = NoEntry
  /\ entry # NoEntry => entry \in GuardedEntries(topo)
  /\ \A n \in 1..Len(frames) :
       /\ \A hop \in frames[n].hops : \E h \in Handler :
            hop \in OutwardHops(topo, h) /\ <<h, frames[n].held>> \in LockStates(topo, entry)
       /\ \A g \in frames[n].entries : <<g, frames[n].inner>> \in LockStates(topo, entry)

RealInv == TypeOK /\ InputExact /\ FramesReal /\ EdgesSound

\* The frames with their top replaced.
LEMMA TopReplaced ==
  ASSUME frames \in Seq(FrameType), frames # <<>>, NEW f \in FrameType
  PROVE  /\ Top \in FrameType /\ Len(frames) \in 1..Len(frames) /\ Top = frames[Len(frames)]
         /\ Below \in Seq(FrameType) /\ Len(Below) = Len(frames) - 1
         /\ \A n \in 1..Len(Below) : n \in 1..Len(frames) /\ Below[n] = frames[n]
         /\ Append(Below, f) \in Seq(FrameType)
         /\ Len(Append(Below, f)) = Len(frames)
         /\ Append(Below, f) # <<>>
         /\ \A n \in 1..Len(frames) :
              Append(Below, f)[n] = IF n = Len(frames) THEN f ELSE frames[n]
<1>1. Len(frames) \in Nat /\ Len(frames) > 0
  OBVIOUS
<1>2. Below \in Seq(FrameType) /\ Len(Below) = Len(frames) - 1
      /\ \A n \in 1..Len(Below) : n \in 1..Len(frames) /\ Below[n] = frames[n]
  BY FrontFacts DEF Below
<1>3. QED
  BY <1>1, <1>2 DEF Top

\* A hop of a handler goes to a port of an instance, under a kind, into handlers.
LEMMA HopFacts ==
  ASSUME NEW t \in Topology, NEW h \in Handler, NEW hop \in OutwardHops(t, h)
  PROVE  /\ hop \in [port : InPort, kind : SyncKind]
         /\ t.owner[hop.port] \in Instance
         /\ FlowEntries(t, hop.port, hop.kind) \subseteq Handler
         /\ hop.kind # "async" => hop \in ThreadHops(t, h)
<1>1. hop \in [port : InPort, kind : SyncKind]
  BY HopsType
<1>2. t.owner[hop.port] \in Instance
  BY <1>1 DEF Topology, Handler
<1>3. QED
  BY <1>1, <1>2, FlowEntriesType DEF ThreadHops

\* Every state a walk begins in satisfies the invariant: nothing is recorded.
LEMMA RealInit == Init => RealInv
<1> SUFFICES ASSUME Init PROVE RealInv
  OBVIOUS
<1>1. topo \in Topology /\ options \in Option
  BY TopologiesAssumption, LockGraphAssumption DEF Init
<1>2. TypeOK
  <2>1. labels \in [InPort -> Labels]
    BY <1>1, ThreadsAtType DEF Init
  <2>2. budget \in 0..options.maxStates
    BY <1>1 DEF Init, Option
  <2>3. lockEdges \in [Instance \X Instance -> Labels] /\ selfLocks \in [Instance -> Labels]
    BY DEF Init, Labels
  <2>4. frames \in Seq(FrameType)
    BY DEF Init
  <2>5. QED
    BY <1>1, <2>1, <2>2, <2>3, <2>4 DEF Init, TypeOK
<1>3. InputExact /\ FramesReal
  BY DEF Init, InputExact, FramesReal
<1>4. EdgesSound
  BY DEF Init, EdgesSound
<1>5. QED
  BY <1>2, <1>3, <1>4 DEF RealInv

\* Frames that stand for lock states still do when only the top one is replaced
\* by another such frame.
LEMMA FramesReplaced ==
  ASSUME RealInv, UNCHANGED <<topo, entry>>, frames # <<>>, NEW f \in FrameType,
         frames' = Append(Below, f),
         \A hop \in f.hops : \E h \in Handler :
            hop \in OutwardHops(topo, h) /\ <<h, f.held>> \in LockStates(topo, entry),
         \A g \in f.entries : <<g, f.inner>> \in LockStates(topo, entry)
  PROVE  FramesReal' /\ frames' \in Seq(FrameType)
<1>1. frames \in Seq(FrameType)
  BY DEF RealInv, TypeOK
<1>2. /\ frames' \in Seq(FrameType) /\ Len(frames') = Len(frames) /\ frames' # <<>>
      /\ \A n \in 1..Len(frames) : frames'[n] = IF n = Len(frames) THEN f ELSE frames[n]
  BY <1>1, TopReplaced
<1>3. QED
  BY <1>2 DEF RealInv, FramesReal

\* Taking up a guarded entry, or refusing to.
LEMMA StartReal ==
  ASSUME RealInv, NEW w \in todo, StartWalk(w)
  PROVE  RealInv'
<1>1. topo \in Topology /\ topo' = topo /\ w \in Walks(topo)
  BY DEF RealInv, TypeOK, StartWalk, input
<1>2. /\ w[1] \in InPort /\ w[2] \in Handler /\ w[1] \in GuardedEntries(topo)
      /\ w[2] \in FlowEntries(topo, w[1], "guarded")
  BY <1>1 DEF Walks
<1>3. topo.owner[w[1]] \in Instance
  BY <1>1, <1>2, EntryStateType
<1>4. CASE OriginsRaise(topo)
  BY <1>4 DEF StartWalk, RealInv, TypeOK, InputExact, FramesReal, EdgesSound, NestedNow,
              ReenteredNow, ToReport, input
<1>5. CASE ~OriginsRaise(topo)
  <2> DEFINE f == Frame({}, {}, {w[2]}, {topo.owner[w[1]]})
  <2>1. f \in FrameType /\ frames' = <<f>> /\ entry' = w[1]
    BY <1>2, <1>3, <1>5 DEF StartWalk, Frame, FrameType
  <2>2. frames' \in Seq(FrameType) /\ Len(frames') = 1 /\ frames'[1] = f /\ frames' # <<>>
    BY <2>1
  <2>3. <<w[2], {topo.owner[w[1]]}>> \in LockStates(topo, w[1])
    BY <1>1, <1>2, LockStatesFacts DEF EntryState
  <2>4. FramesReal'
    <3>1. f.hops = {} /\ f.entries = {w[2]} /\ f.inner = {topo.owner[w[1]]}
      BY DEF Frame
    <3>2. entry' # NoEntry /\ entry' \in GuardedEntries(topo')
      BY <1>1, <1>2, <2>1, LockGraphAssumption
    <3>3. 1..Len(frames') = {1}
      BY <2>2
    <3> HIDE DEF f
    <3>4. QED
      BY <1>1, <2>1, <2>2, <2>3, <3>1, <3>2, <3>3 DEF FramesReal
  <2>5. QED
    BY <1>1, <1>2, <1>5, <2>2, <2>4 DEF StartWalk, RealInv, TypeOK, InputExact, EdgesSound,
              NestedNow, ReenteredNow, ToReport, input
<1>6. QED
  BY <1>4, <1>5

\* Entering a handler that is a lock state of the entry.
LEMMA DescendReal ==
  ASSUME RealInv, NEW g \in Handler, Descend(g)
  PROVE  RealInv'
<1> USE DEF RealInv
<1>1. /\ topo \in Topology /\ frames \in Seq(FrameType) /\ frames # <<>>
      /\ g \in Top.entries /\ Top \in FrameType /\ Top = frames[Len(frames)]
      /\ Len(frames) \in 1..Len(frames)
  BY TopReplaced DEF TypeOK, Descend
<1> DEFINE f == [Top EXCEPT !.entries = @ \ {g}]
           rest == Append(Below, f)
           n == Frame(OutwardHops(topo, g), Top.inner, {}, {})
<1>2. /\ f \in FrameType /\ f.hops = Top.hops /\ f.held = Top.held /\ f.inner = Top.inner
      /\ f.entries = Top.entries \ {g}
  BY <1>1 DEF FrameType
<1>3. /\ rest \in Seq(FrameType) /\ Len(rest) = Len(frames) /\ rest # <<>>
      /\ \A k \in 1..Len(frames) : rest[k] = IF k = Len(frames) THEN f ELSE frames[k]
  BY <1>1, <1>2, TopReplaced
<1>4. entry # NoEntry /\ entry \in InPort /\ <<g, Top.inner>> \in LockStates(topo, entry)
  BY <1>1 DEF FramesReal, TypeOK
<1>5. /\ n \in FrameType /\ n.hops = OutwardHops(topo, g) /\ n.held = Top.inner
      /\ n.entries = {}
  BY <1>1, HopsType DEF Frame, FrameType
<1>6. /\ Append(rest, n) \in Seq(FrameType) /\ Len(Append(rest, n)) = Len(frames) + 1
      /\ Append(rest, n) # <<>> /\ Append(rest, n)[Len(frames) + 1] = n
      /\ \A k \in 1..Len(frames) : Append(rest, n)[k] = rest[k]
  BY <1>3, <1>5
<1>7. frames' = rest \/ frames' = Append(rest, n)
  BY DEF Descend
<1>8. topo' = topo /\ entry' = entry
  BY DEF Descend, input
<1>9. \A k \in 1..Len(frames) :
        /\ rest[k].hops = frames[k].hops /\ rest[k].held = frames[k].held
        /\ rest[k].inner = frames[k].inner /\ rest[k].entries \subseteq frames[k].entries
  BY <1>1, <1>2, <1>3
<1> HIDE DEF f, rest, n
<1>10. FramesReal'
  <2>1. CASE frames' = rest
    BY <1>1, <1>3, <1>4, <1>8, <1>9, <2>1 DEF FramesReal
  <2>2. CASE frames' = Append(rest, n)
    <3>1. Len(frames) \in Nat
      BY <1>1
    <3>2. \A k \in 1..(Len(frames) + 1) : k \in 1..Len(frames) \/ k = Len(frames) + 1
      BY <3>1
    <3>3. ASSUME NEW k \in 1..Len(frames')
          PROVE  /\ \A hop \in frames'[k].hops : \E h \in Handler :
                      hop \in OutwardHops(topo, h) /\ <<h, frames'[k].held>> \in LockStates(topo, entry)
                 /\ \A x \in frames'[k].entries : <<x, frames'[k].inner>> \in LockStates(topo, entry)
      <4>1. CASE k \in 1..Len(frames)
        BY <1>6, <1>9, <2>2, <4>1 DEF FramesReal
      <4>2. CASE k = Len(frames) + 1
        BY <1>4, <1>5, <1>6, <2>2, <4>2
      <4>3. QED
        BY <1>6, <2>2, <3>2, <4>1, <4>2
    <3>4. QED
      BY <1>4, <1>6, <1>8, <2>2, <3>3 DEF FramesReal
  <2>3. QED
    BY <1>7, <2>1, <2>2
<1>11. TypeOK'
  <2>1. frames' \in Seq(FrameType)
    BY <1>3, <1>6, <1>7
  <2>2. visited' \subseteq Handler \X SUBSET Instance
    BY <1>1 DEF Descend, Marker, TypeOK, FrameType
  <2>3. options.maxStates \in Nat /\ options' = options
    BY LockGraphAssumption DEF TypeOK, Option, Descend, input
  <2>4. budget' \in 0..options'.maxStates
    BY <2>3 DEF Descend, OutOfBudget, TypeOK
  <2>5. refused' \in BOOLEAN /\ truncated' \in BOOLEAN
    BY <1>1 DEF Descend, TypeOK, Refuses, Unresolved, Topology
  <2>6. QED
    BY <2>1, <2>2, <2>4, <2>5 DEF Descend, TypeOK, input
<1>12. InputExact' /\ EdgesSound'
  BY DEF Descend, input, InputExact, EdgesSound, NestedNow, ReenteredNow, ToReport
<1>13. QED
  BY <1>10, <1>11, <1>12

\* Where a hop is taken: the top frame stands for a lock state whose handler makes it.
LEMMA HopFrom ==
  ASSUME RealInv, NEW hop \in [port : InPort, kind : SyncKind], HopReady(hop)
  PROVE  /\ topo \in Topology /\ frames \in Seq(FrameType) /\ frames # <<>>
         /\ Top \in FrameType /\ hop \in Top.hops
         /\ entry \in InPort /\ entry \in GuardedEntries(topo)
         /\ \E h \in Handler :
              hop \in OutwardHops(topo, h) /\ <<h, Top.held>> \in LockStates(topo, entry)
<1>1. frames \in Seq(FrameType) /\ frames # <<>>
  BY DEF RealInv, TypeOK, HopReady
<1>2. Top \in FrameType /\ Len(frames) \in 1..Len(frames) /\ Top = frames[Len(frames)]
  BY <1>1, TopReplaced
<1>3. QED
  BY <1>1, <1>2 DEF RealInv, TypeOK, HopReady, FramesReal

\* Taking a hop into lock states of the entry.
LEMMA TakeReal ==
  ASSUME RealInv, NEW hop \in [port : InPort, kind : SyncKind], HopReady(hop),
         NEW E \in SUBSET Handler, NEW I \in SUBSET Instance,
         \A g \in E : <<g, I>> \in LockStates(topo, entry),
         Take(hop, E, I), UNCHANGED <<topo, entry>>
  PROVE  FramesReal' /\ frames' \in Seq(FrameType)
<1> DEFINE f == Frame(Top.hops \ {hop}, Top.held, E, I)
<1>1. /\ f \in FrameType /\ f.hops \subseteq Top.hops /\ f.held = Top.held
      /\ f.entries = E /\ f.inner = I
  BY HopFrom DEF Frame, FrameType
<1>2. frames' = Append(Below, f) /\ frames # <<>> /\ frames \in Seq(FrameType)
  BY HopFrom DEF Take
<1>3. Len(frames) \in 1..Len(frames) /\ Top = frames[Len(frames)]
  BY <1>2, TopReplaced
<1> HIDE DEF f
<1>4. \A x \in f.hops : \E h \in Handler :
        x \in OutwardHops(topo, h) /\ <<h, f.held>> \in LockStates(topo, entry)
  BY <1>1, <1>3 DEF RealInv, FramesReal
<1>5. QED
  BY <1>1, <1>2, <1>4, FramesReplaced

\* The handlers that a sync call, or a guarded call of a free mutex, enters.
LEMMA EnteredReal ==
  ASSUME RealInv, NEW hop \in [port : InPort, kind : SyncKind], HopReady(hop),
         hop.kind # "async", hop.kind = "guarded" => topo.owner[hop.port] \notin Top.held
  PROVE  LET I == Top.held \cup (IF hop.kind = "guarded" THEN {topo.owner[hop.port]} ELSE {})
         IN  /\ Enter(hop) \in SUBSET Handler /\ I \in SUBSET Instance
             /\ \A g \in Enter(hop) : <<g, I>> \in LockStates(topo, entry)
<1> DEFINE I == Top.held \cup (IF hop.kind = "guarded" THEN {topo.owner[hop.port]} ELSE {})
<1>1. PICK h \in Handler :
        hop \in OutwardHops(topo, h) /\ <<h, Top.held>> \in LockStates(topo, entry)
  BY HopFrom
<1>2. topo \in Topology /\ Top \in FrameType /\ entry \in InPort
  BY HopFrom
<1>3. /\ hop \in ThreadHops(topo, h) /\ topo.owner[hop.port] \in Instance
      /\ Enter(hop) \in SUBSET Handler
  BY <1>1, <1>2, HopFacts DEF Enter
<1>4. I \in SUBSET Instance
  BY <1>2, <1>3 DEF FrameType
<1>5. ASSUME NEW g \in Enter(hop) PROVE <<g, I>> \in CallsUnder(topo, <<h, Top.held>>)
  BY <1>3 DEF CallsUnder, Enter
<1>6. CallsUnder(topo, <<h, Top.held>>) \subseteq LockStates(topo, entry)
  BY <1>1, <1>2, LockStatesFacts
<1>7. QED
  BY <1>3, <1>4, <1>5, <1>6

\* Recording threads at nestings that are real keeps the edges real.
LEMMA EdgesAdded ==
  ASSUME RealInv, UNCHANGED input, NEW K \in SUBSET (Instance \X Instance),
         lockEdges' = AddThreads(lockEdges, K, EntryThreads(entry)), UNCHANGED selfLocks,
         entry \in InPort,
         \A e \in K : e[1] # e[2] /\ ToReport(e) /\ EntryThreads(entry) \subseteq real.nested[e]
  PROVE  EdgesSound' /\ lockEdges' \in [Instance \X Instance -> Labels]
<1>1. /\ lockEdges \in [Instance \X Instance -> Labels] /\ EntryThreads(entry) \in Labels
  BY DEF RealInv, TypeOK, EntryThreads
<1>2. /\ lockEdges' \in [Instance \X Instance -> Labels]
      /\ \A e \in Instance \X Instance :
           lockEdges'[e] = IF e \in K THEN lockEdges[e] \cup EntryThreads(entry) ELSE lockEdges[e]
  BY <1>1 DEF AddThreads, Labels
<1>3. NestedNow' = NestedNow /\ ReenteredNow' = ReenteredNow
  BY DEF NestedNow, ReenteredNow, ToReport, input
<1>4. \A e \in Instance \X Instance : lockEdges[e] \subseteq NestedNow[e]
  BY <1>1 DEF RealInv, EdgesSound
<1>5. \A e \in K : NestedNow[e] = real.nested[e]
  BY DEF NestedNow
<1>6. \A e \in Instance \X Instance : lockEdges'[e] \subseteq NestedNow[e]
  BY <1>2, <1>4, <1>5
<1>7. \A i \in Instance : <<i, i>> \notin K
  OBVIOUS
<1>8. QED
  BY <1>2, <1>3, <1>6, <1>7 DEF RealInv, EdgesSound

\* Recording threads at a re-entry that is real keeps the self-locks real.
LEMMA SelfLocksAdded ==
  ASSUME RealInv, UNCHANGED input, NEW K \in SUBSET Instance,
         selfLocks' = AddThreads(selfLocks, K, EntryThreads(entry)), UNCHANGED lockEdges,
         entry \in InPort,
         \A i \in K : ToReport(<<i, i>>) /\ EntryThreads(entry) \subseteq real.reentered[i]
  PROVE  EdgesSound' /\ selfLocks' \in [Instance -> Labels]
<1>1. selfLocks \in [Instance -> Labels] /\ EntryThreads(entry) \in Labels
  BY DEF RealInv, TypeOK, EntryThreads
<1>2. /\ selfLocks' \in [Instance -> Labels]
      /\ \A i \in Instance :
           selfLocks'[i] = IF i \in K THEN selfLocks[i] \cup EntryThreads(entry) ELSE selfLocks[i]
  BY <1>1 DEF AddThreads, Labels
<1>3. NestedNow' = NestedNow /\ ReenteredNow' = ReenteredNow
  BY DEF NestedNow, ReenteredNow, ToReport, input
<1>4. \A i \in K : ReenteredNow[i] = real.reentered[i]
  BY DEF ReenteredNow
<1>5. QED
  BY <1>2, <1>3, <1>4 DEF RealInv, EdgesSound

\* Taking a hop records only nestings and re-entries that a chain of calls makes.
LEMMA TakeHopReal ==
  ASSUME RealInv, TakeHop
  PROVE  RealInv'
<1>1. UNCHANGED <<input, todo, entry, visited, budget, refused>>
  BY DEF TakeHop
<1>2. PICK hop \in [port : InPort, kind : SyncKind] :
        AsyncHop(hop) \/ SyncHop(hop) \/ SelfDeadlock(hop) \/ GuardedHop(hop)
  BY DEF TakeHop
<1>3. HopReady(hop)
  BY <1>2 DEF AsyncHop, SyncHop, SelfDeadlock, GuardedHop
<1>4. /\ topo \in Topology /\ Top \in FrameType /\ hop \in Top.hops
      /\ entry \in InPort /\ entry \in GuardedEntries(topo)
  BY <1>3, HopFrom
<1>5. PICK h \in Handler :
        hop \in OutwardHops(topo, h) /\ <<h, Top.held>> \in LockStates(topo, entry)
  BY <1>3, HopFrom
<1> DEFINE i == topo.owner[hop.port]
<1>6. /\ i \in Instance /\ Top.held \in SUBSET Instance
      /\ hop.kind = "guarded" => hop.port \in GuardedCalls(topo, <<h, Top.held>>)
  BY <1>4, <1>5, HopFacts DEF GuardedCalls, FrameType
<1>7. EntryThreads(entry) = ThreadsAt(topo)[entry] /\ real.nested = Nested(topo)
      /\ real.reentered = Reentered(topo)
  BY DEF EntryThreads, RealInv, InputExact
<1>8. InputExact'
  BY <1>1 DEF RealInv, InputExact, input
<1>9. ASSUME FramesReal', frames' \in Seq(FrameType), EdgesSound',
             lockEdges' \in [Instance \X Instance -> Labels], selfLocks' \in [Instance -> Labels],
             truncated' \in BOOLEAN
      PROVE  RealInv'
  BY <1>1, <1>8, <1>9 DEF RealInv, TypeOK, input
<1>10. UNCHANGED <<lockEdges, selfLocks>> =>
        /\ EdgesSound' /\ lockEdges' \in [Instance \X Instance -> Labels]
        /\ selfLocks' \in [Instance -> Labels]
  BY <1>1 DEF RealInv, TypeOK, EdgesSound, NestedNow, ReenteredNow, ToReport, input
<1>11. truncated' \in BOOLEAN
  BY <1>2 DEF AsyncHop, SyncHop, SelfDeadlock, GuardedHop, RealInv, TypeOK
<1>12. ASSUME Take(hop, {}, {}) PROVE FramesReal' /\ frames' \in Seq(FrameType)
  BY <1>1, <1>3, <1>12, TakeReal DEF input
<1>13. CASE AsyncHop(hop)
  BY <1>9, <1>10, <1>11, <1>12, <1>13 DEF AsyncHop
<1>14. CASE SyncHop(hop)
  <2>1. Take(hop, Enter(hop), Top.held) /\ hop.kind = "sync"
    BY <1>14 DEF SyncHop
  <2>2. /\ Enter(hop) \in SUBSET Handler /\ Top.held \in SUBSET Instance
        /\ \A g \in Enter(hop) : <<g, Top.held>> \in LockStates(topo, entry)
    BY <1>3, <1>6, <2>1, EnteredReal
  <2>3. FramesReal' /\ frames' \in Seq(FrameType)
    BY <1>1, <1>3, <2>1, <2>2, TakeReal DEF input
  <2>4. QED
    BY <1>9, <1>10, <1>11, <1>14, <2>3 DEF SyncHop
<1>15. CASE SelfDeadlock(hop)
  <2>1. /\ Take(hop, {}, {}) /\ hop.kind = "guarded" /\ i \in Top.held
        /\ selfLocks' = AddThreads(selfLocks, Reentry(i), EntryThreads(entry))
        /\ UNCHANGED lockEdges
    BY <1>15 DEF SelfDeadlock
  <2>2. EntryThreads(entry) \subseteq real.reentered[i]
    BY <1>4, <1>5, <1>6, <1>7, <2>1, ReenteredDef
  <2>3. Reentry(i) \in SUBSET Instance /\ \A j \in Reentry(i) : j = i /\ ToReport(<<j, j>>)
    BY <1>6 DEF Reentry, ToReport
  <2>4. EdgesSound' /\ selfLocks' \in [Instance -> Labels]
    BY <1>1, <1>4, <2>1, <2>2, <2>3, SelfLocksAdded
  <2>5. QED
    BY <1>9, <1>11, <1>12, <2>1, <2>4 DEF RealInv, TypeOK
<1>16. CASE GuardedHop(hop)
  <2>1. /\ hop.kind = "guarded" /\ i \notin Top.held
        /\ lockEdges' = AddThreads(lockEdges, NewEdges(i), EntryThreads(entry))
        /\ UNCHANGED selfLocks
        /\ Take(hop, {}, {}) \/ Take(hop, Enter(hop), Top.held \cup {i})
    BY <1>16 DEF GuardedHop
  <2>2. /\ NewEdges(i) \in SUBSET (Instance \X Instance)
        /\ \A e \in NewEdges(i) : e[1] \in Top.held /\ e[2] = i /\ e[1] # e[2] /\ ToReport(e)
    BY <1>6, <2>1 DEF NewEdges, ToReport
  <2>3. ASSUME NEW a \in Top.held PROVE EntryThreads(entry) \subseteq real.nested[<<a, i>>]
    BY <1>4, <1>5, <1>6, <1>7, <2>1, NestedDef
  <2>4. \A e \in NewEdges(i) : EntryThreads(entry) \subseteq real.nested[e]
    BY <2>2, <2>3
  <2>5. EdgesSound' /\ lockEdges' \in [Instance \X Instance -> Labels]
    BY <1>1, <1>4, <2>1, <2>2, <2>4, EdgesAdded
  <2>6. FramesReal' /\ frames' \in Seq(FrameType)
    <3>1. /\ Enter(hop) \in SUBSET Handler /\ Top.held \cup {i} \in SUBSET Instance
          /\ \A g \in Enter(hop) : <<g, Top.held \cup {i}>> \in LockStates(topo, entry)
      BY <1>3, <1>6, <2>1, EnteredReal
    <3>2. CASE Take(hop, Enter(hop), Top.held \cup {i})
      BY <1>1, <1>3, <3>1, <3>2, TakeReal DEF input
    <3>3. QED
      BY <1>12, <2>1, <3>2
  <2>7. QED
    BY <1>9, <1>11, <2>1, <2>5, <2>6 DEF RealInv, TypeOK
<1>17. QED
  BY <1>2, <1>13, <1>14, <1>15, <1>16

\* Returning from a frame.
LEMMA ReturnReal ==
  ASSUME RealInv, Return
  PROVE  RealInv'
<1>1. frames \in Seq(FrameType) /\ frames # <<>> /\ frames' = Below /\ Len(frames) \in Nat
  BY DEF RealInv, TypeOK, Return
<1>2. /\ Below \in Seq(FrameType) /\ Len(Below) = Len(frames) - 1
      /\ \A n \in 1..Len(Below) : n \in 1..Len(frames) /\ Below[n] = frames[n]
  BY <1>1, TopReplaced
<1>3. FramesReal'
  <2>1. CASE Len(frames) = 1
    <3>1. frames' = <<>> /\ entry' = NoEntry
      BY <1>1, <1>2, <2>1 DEF Return
    <3>2. QED
      BY <3>1 DEF FramesReal
  <2>2. CASE Len(frames) # 1
    <3>1. frames' # <<>> /\ entry' = entry
      BY <1>1, <1>2, <2>2 DEF Return
    <3>2. QED
      BY <1>1, <1>2, <3>1 DEF RealInv, FramesReal, Return, input
  <2>3. QED
    BY <2>1, <2>2
<1>4. TypeOK'
  BY <1>1, <1>2 DEF RealInv, TypeOK, Return, input
<1>5. InputExact' /\ EdgesSound'
  BY DEF RealInv, Return, input, InputExact, EdgesSound, NestedNow, ReenteredNow, ToReport
<1>6. QED
  BY <1>3, <1>4, <1>5 DEF RealInv

\* Every step keeps the invariant.
LEMMA RealStep ==
  ASSUME RealInv, [Next]_vars
  PROVE  RealInv'
<1>1. CASE UNCHANGED vars
  BY <1>1 DEF vars, walkVars, input, RealInv, TypeOK, InputExact, FramesReal, EdgesSound,
              NestedNow, ReenteredNow, ToReport
<1>2. QED
  BY <1>1, StartReal, DescendReal, TakeHopReal, ReturnReal DEF Next

\* GraphInvariant always holds (guarded_port_analyzer.py:182-243): whatever the order
\* of the traversal, its budget and its depth bound, an edge or a self-deadlock that
\* is recorded, and every thread on it, is one that some chain of calls makes.
THEOREM GraphInvariantHolds == Spec => []GraphInvariant
<1>1. RealInv => GraphInvariant
  BY DEF RealInv, GraphInvariant
<1>2. RealInv /\ [Next]_vars => RealInv'
  BY RealStep
<1>3. QED
  BY <1>1, <1>2, RealInit, PTL DEF Spec

-----------------------------------------------------------------------------
(* The inductive invariant: what is walked is recorded. *)

\* The threads of an entry are on what a call under some locks is to record.
Recorded(p, hop, held) ==
  LET i == topo.owner[hop.port]
  IN  hop.kind = "guarded" =>
        /\ i \in held /\ ToReport(<<i, i>>) => labels[p] \subseteq selfLocks[i]
        /\ i \notin held =>
             \A a \in held : ToReport(<<a, i>>) => labels[p] \subseteq lockEdges[<<a, i>>]

\* A lock state was visited or a frame is about to enter it.
Known(c) ==
  \/ c \in visited
  \/ \E n \in 1..Len(frames) : c[1] \in frames[n].entries /\ c[2] = frames[n].inner

\* The locks held behind a hop, and that the walk knows of what it enters there.
HeldBehind(hop, held) == held \cup (IF hop.kind = "guarded" THEN {topo.owner[hop.port]} ELSE {})
Followed(hop, held) ==
  (hop.kind = "guarded" => topo.owner[hop.port] \notin held) =>
    \A g \in FlowEntries(topo, hop.port, hop.kind) : Known(<<g, HeldBehind(hop, held)>>)

\* A frame still has the hop before it.
Ahead(hop, held) == \E n \in 1..Len(frames) : hop \in frames[n].hops /\ held = frames[n].held

\* A visited lock state rests on a record, and its calls are taken or ahead.
Explored(c) ==
  /\ ~Unresolved(topo, c[1])
  /\ \A hop \in ThreadHops(topo, c[1]) :
       Ahead(hop, c[2]) \/ (Recorded(entry, hop, c[2]) /\ Followed(hop, c[2]))

\* Everything a walk leads to rests on records, and is recorded.
Finished(w) ==
  \A c \in LeadsTo(topo, {EntryState(topo, w[1], w[2])}) :
    ~Unresolved(topo, c[1]) /\ \A hop \in ThreadHops(topo, c[1]) : Recorded(w[1], hop, c[2])

\* Every walk that was begun is finished, or is under way and knows its start.
WalksKept ==
  /\ \A c \in visited : Explored(c)
  /\ \A w \in Walks(topo) \ todo :
       Finished(w) \/ (entry = w[1] /\ Known(EntryState(topo, w[1], w[2])))

CompleteInv == RealInv /\ (~refused /\ ~truncated => WalksKept)

\* No threads are taken off an edge.
Grows ==
  /\ \A e \in Instance \X Instance : lockEdges[e] \subseteq lockEdges'[e]
  /\ \A i \in Instance : selfLocks[i] \subseteq selfLocks'[i]

\* What is recorded stays recorded.
LEMMA RecordedGrows ==
  ASSUME RealInv, UNCHANGED input, Grows, NEW h \in Handler, NEW hop \in ThreadHops(topo, h),
         NEW held \in SUBSET Instance, NEW p, Recorded(p, hop, held)
  PROVE  Recorded(p, hop, held)'
<1>1. topo.owner[hop.port] \in Instance
  BY HopFacts DEF RealInv, TypeOK, ThreadHops
<1>2. QED
  BY <1>1 DEF Recorded, Grows, input, ToReport

\* A finished walk stays finished.
LEMMA FinishedGrows ==
  ASSUME RealInv, UNCHANGED input, Grows, NEW w \in Walks(topo), Finished(w)
  PROVE  Finished(w)'
<1>1. topo \in Topology /\ topo' = topo
  BY DEF RealInv, TypeOK, input
<1>2. {EntryState(topo, w[1], w[2])} \in SUBSET LockState
  BY <1>1, EntryStateType DEF Walks
<1>3. \A c \in LeadsTo(topo, {EntryState(topo, w[1], w[2])}) : c[1] \in Handler /\ c[2] \in SUBSET Instance
  BY <1>1, <1>2, LeadsToFacts DEF LockState
<1>4. ASSUME NEW c \in LeadsTo(topo, {EntryState(topo, w[1], w[2])}), NEW hop \in ThreadHops(topo, c[1])
      PROVE  Recorded(w[1], hop, c[2])'
  BY <1>3, RecordedGrows DEF Finished
<1>5. QED
  BY <1>1, <1>4 DEF Finished

\* A step inside a walk keeps the walks if it forgets nothing it knew, explores
\* what it visits, and leaves only hops behind that it has taken.
LEMMA KeepsWalks ==
  ASSUME RealInv, WalksKept, UNCHANGED <<input, todo, entry>>, Grows,
         \A c \in LockState : Known(c) => Known(c)',
         \A c \in visited' \ visited : Explored(c)',
         \A hop \in [port : InPort, kind : SyncKind], held \in SUBSET Instance :
           Ahead(hop, held) =>
             \/ Ahead(hop, held)'
             \/ hop.kind = "async"
             \/ Recorded(entry, hop, held)' /\ Followed(hop, held)'
  PROVE  WalksKept'
<1>1. topo \in Topology /\ topo' = topo /\ entry' = entry /\ todo' = todo
      /\ visited \subseteq LockState
  BY DEF RealInv, TypeOK, input, LockState
<1>2. ASSUME NEW c \in visited PROVE Explored(c)'
  <2>1. Explored(c) /\ c[1] \in Handler /\ c[2] \in SUBSET Instance
    BY <1>1 DEF WalksKept, LockState
  <2>2. ASSUME NEW hop \in ThreadHops(topo, c[1])
        PROVE  Ahead(hop, c[2])' \/ (Recorded(entry, hop, c[2])' /\ Followed(hop, c[2])')
    <3>1. /\ hop \in [port : InPort, kind : SyncKind] /\ hop.kind # "async"
          /\ topo.owner[hop.port] \in Instance
          /\ FlowEntries(topo, hop.port, hop.kind) \subseteq Handler
      BY <1>1, <2>1, HopFacts DEF ThreadHops
    <3>2. CASE Ahead(hop, c[2])
      BY <2>1, <3>1, <3>2
    <3>3. CASE Recorded(entry, hop, c[2]) /\ Followed(hop, c[2])
      <4>1. Recorded(entry, hop, c[2])'
        BY <1>1, <2>1, <3>3, RecordedGrows DEF Recorded
      <4>2. HeldBehind(hop, c[2]) \in SUBSET Instance /\ HeldBehind(hop, c[2])' = HeldBehind(hop, c[2])
        BY <1>1, <2>1, <3>1 DEF HeldBehind
      <4>3. \A g \in FlowEntries(topo, hop.port, hop.kind) : <<g, HeldBehind(hop, c[2])>> \in LockState
        BY <3>1, <4>2 DEF LockState
      <4>4. Followed(hop, c[2])'
        BY <1>1, <3>3, <4>2, <4>3 DEF Followed
      <4>5. QED
        BY <4>1, <4>4
    <3>4. QED
      BY <2>1, <3>2, <3>3 DEF Explored
  <2>3. QED
    BY <1>1, <2>1, <2>2 DEF Explored
<1>3. ASSUME NEW w \in Walks(topo) \ todo
      PROVE  Finished(w)' \/ (entry' = w[1] /\ Known(EntryState(topo, w[1], w[2]))')
  <2>1. PICK c \in LockState : c = EntryState(topo, w[1], w[2])
    BY <1>1, EntryStateType DEF Walks
  <2>2. Finished(w) \/ (entry = w[1] /\ Known(c))
    BY <2>1 DEF WalksKept
  <2>3. Finished(w)' \/ (entry' = w[1] /\ Known(c)')
    BY <1>1, <2>2, FinishedGrows
  <2>4. QED
    BY <1>1, <2>1, <2>3 DEF Known
<1>4. \A c \in visited' : Explored(c)'
  BY <1>2
<1>5. QED
  BY <1>1, <1>3, <1>4 DEF WalksKept

\* Starting a walk leaves the others finished and knows its own start.
LEMMA StartKeeps ==
  ASSUME RealInv, WalksKept, NEW w \in todo, StartWalk(w), ~refused'
  PROVE  WalksKept'
<1>1. /\ topo \in Topology /\ topo' = topo /\ UNCHANGED input /\ entry = NoEntry
      /\ visited' = {} /\ todo' = todo \ {w} /\ entry' = w[1]
      /\ frames' = <<Frame({}, {}, {w[2]}, {topo.owner[w[1]]})>>
      /\ Grows
  BY DEF RealInv, TypeOK, StartWalk, input, Grows
<1>2. ASSUME NEW v \in Walks(topo) \ todo' PROVE Finished(v)' \/ (entry' = v[1] /\ Known(EntryState(topo, v[1], v[2]))')
  <2>1. CASE v = w
    <3>1. /\ Len(frames') = 1 /\ frames'[1].entries = {w[2]} /\ 1 \in 1..Len(frames')
          /\ frames'[1].inner = {topo.owner[w[1]]}
      BY <1>1 DEF Frame
    <3>2. QED
      BY <1>1, <2>1, <3>1 DEF Known, EntryState
  <2>2. CASE v # w
    <3>1. v \in Walks(topo) \ todo /\ v[1] \in InPort
      BY <1>1, <2>2 DEF Walks
    <3>2. Finished(v)
      BY <1>1, <3>1, LockGraphAssumption DEF WalksKept
    <3>3. QED
      BY <1>1, <3>1, <3>2, FinishedGrows
  <2>3. QED
    BY <2>1, <2>2
<1>3. QED
  BY <1>1, <1>2 DEF WalksKept

\* The frames after entering a handler: only the entry taken is gone.
LEMMA DescendFrames ==
  ASSUME RealInv, NEW g \in Handler, Descend(g)
  PROVE  /\ \A k \in 1..Len(frames) :
              /\ k \in 1..Len(frames')
              /\ frames'[k].hops = frames[k].hops /\ frames'[k].held = frames[k].held
              /\ frames'[k].inner = frames[k].inner
              /\ \A x \in frames[k].entries :
                   x \in frames'[k].entries \/ (x = g /\ frames[k].inner = Top.inner)
         /\ ~OutOfBudget /\ Marker(g) \notin visited =>
              \E k \in 1..Len(frames') :
                frames'[k].hops = OutwardHops(topo, g) /\ frames'[k].held = Top.inner
<1>1. /\ topo \in Topology /\ frames \in Seq(FrameType) /\ frames # <<>>
      /\ Top \in FrameType /\ Top = frames[Len(frames)] /\ Len(frames) \in 1..Len(frames)
  BY TopReplaced DEF TypeOK, RealInv, Descend
<1> DEFINE f == [Top EXCEPT !.entries = @ \ {g}]
           rest == Append(Below, f)
           n == Frame(OutwardHops(topo, g), Top.inner, {}, {})
<1>2. /\ f \in FrameType /\ f.hops = Top.hops /\ f.held = Top.held /\ f.inner = Top.inner
      /\ f.entries = Top.entries \ {g}
  BY <1>1 DEF FrameType
<1>3. /\ rest \in Seq(FrameType) /\ Len(rest) = Len(frames) /\ rest # <<>>
      /\ \A k \in 1..Len(frames) : rest[k] = IF k = Len(frames) THEN f ELSE frames[k]
  BY <1>1, <1>2, TopReplaced
<1>4. /\ n \in FrameType /\ n.hops = OutwardHops(topo, g) /\ n.held = Top.inner
  BY <1>1, HopsType DEF Frame, FrameType
<1>6. /\ frames' = rest \/ frames' = Append(rest, n)
      /\ ~OutOfBudget /\ Marker(g) \notin visited => frames' = Append(rest, n)
  BY DEF Descend, Met
<1> HIDE DEF f, rest, n
<1>5. /\ Append(rest, n) \in Seq(FrameType) /\ Len(Append(rest, n)) = Len(frames) + 1
      /\ Append(rest, n)[Len(frames) + 1] = n
      /\ \A k \in 1..Len(frames) : Append(rest, n)[k] = rest[k]
  BY <1>3, <1>4
<1>7. Len(frames) \in Nat
  BY <1>1
<1>8. \A k \in 1..Len(frames) : k \in 1..(Len(frames) + 1)
  BY <1>7
<1>9. Len(frames) + 1 \in 1..(Len(frames) + 1)
  BY <1>7
<1>10. ASSUME NEW k \in 1..Len(frames)
       PROVE  k \in 1..Len(frames') /\ frames'[k] = IF k = Len(frames) THEN f ELSE frames[k]
  BY <1>3, <1>5, <1>6, <1>8
<1>11. QED
  BY <1>1, <1>2, <1>4, <1>5, <1>6, <1>9, <1>10

\* Entering a handler: it was visited, or is now explored with its hops ahead.
LEMMA DescendKeeps ==
  ASSUME RealInv, WalksKept, NEW g \in Handler, Descend(g), ~refused', ~truncated'
  PROVE  WalksKept'
<1>1. /\ topo \in Topology /\ topo' = topo /\ UNCHANGED <<input, todo, entry>> /\ Grows
      /\ ~OutOfBudget /\ visited \subseteq visited'
      /\ IF Marker(g) \in visited THEN visited' = visited
         ELSE visited' = visited \cup {Marker(g)} /\ ~Unresolved(topo, g)
  BY DEF RealInv, TypeOK, Descend, Met, Grows, input, Refuses
<1>2. ASSUME NEW c \in LockState, Known(c) PROVE Known(c)'
  <2>1. CASE c \in visited
    BY <1>1, <2>1 DEF Known
  <2>2. CASE c \notin visited
    <3>1. PICK n \in 1..Len(frames) : c[1] \in frames[n].entries /\ c[2] = frames[n].inner
      BY <1>2, <2>2 DEF Known
    <3>2. /\ n \in 1..Len(frames') /\ frames'[n].inner = frames[n].inner
          /\ c[1] \in frames'[n].entries \/ (c[1] = g /\ c[2] = Top.inner)
      BY <3>1, DescendFrames
    <3>3. c = <<c[1], c[2]>>
      BY DEF LockState
    <3>4. Marker(g) \in visited'
      BY <1>1
    <3>5. QED
      BY <3>1, <3>2, <3>3, <3>4 DEF Known, Marker
  <2>3. QED
    BY <2>1, <2>2
<1>3. ASSUME NEW c \in visited' \ visited PROVE Explored(c)'
  <2>1. c = Marker(g) /\ Marker(g) \notin visited /\ ~Unresolved(topo, g)
    BY <1>1
  <2>2. c[1] = g /\ c[2] = Top.inner
    BY <2>1 DEF Marker
  <2>3. PICK k \in 1..Len(frames') : frames'[k].hops = OutwardHops(topo, g) /\ frames'[k].held = Top.inner
    BY <1>1, <2>1, DescendFrames
  <2>4. \A hop \in ThreadHops(topo, c[1]) : Ahead(hop, c[2])'
    BY <2>2, <2>3 DEF Ahead, ThreadHops
  <2>5. QED
    BY <1>1, <2>1, <2>2, <2>4 DEF Explored
<1>4. ASSUME NEW hop \in [port : InPort, kind : SyncKind], NEW held \in SUBSET Instance, Ahead(hop, held)
      PROVE  Ahead(hop, held)'
  BY <1>4, DescendFrames DEF Ahead
<1>5. QED
  BY <1>1, <1>2, <1>3, <1>4, KeepsWalks

\* Of the frames, only a hop is gone, and its handlers are about to be entered.
OnlyTaken(hop, E, I) ==
  /\ \A k \in 1..Len(frames) :
       /\ k \in 1..Len(frames') /\ frames'[k].held = frames[k].held
       /\ \A x \in frames[k].hops :
            x \in frames'[k].hops \/ (x = hop /\ frames[k].held = Top.held)
       /\ \A g \in frames[k].entries :
            g \in frames'[k].entries /\ frames'[k].inner = frames[k].inner
  /\ \E k \in 1..Len(frames') : frames'[k].entries = E /\ frames'[k].inner = I

\* The frames after taking a hop: it is gone, and what it enters is about to be.
LEMMA TakeFrames ==
  ASSUME RealInv, NEW hop \in [port : InPort, kind : SyncKind], HopReady(hop),
         NEW E \in SUBSET Handler, NEW I \in SUBSET Instance, Take(hop, E, I)
  PROVE  OnlyTaken(hop, E, I)
<1> DEFINE f == Frame(Top.hops \ {hop}, Top.held, E, I)
<1>1. /\ f \in FrameType /\ f.hops = Top.hops \ {hop} /\ f.held = Top.held
      /\ f.entries = E /\ f.inner = I
  BY HopFrom DEF Frame, FrameType
<1>2. /\ frames' = Append(Below, f) /\ frames # <<>> /\ frames \in Seq(FrameType)
      /\ Top.entries = {}
  BY HopFrom DEF Take, HopReady
<1> HIDE DEF f
<1>3. /\ Len(frames) \in 1..Len(frames) /\ Top = frames[Len(frames)] /\ Len(frames') = Len(frames)
      /\ \A n \in 1..Len(frames) : frames'[n] = IF n = Len(frames) THEN f ELSE frames[n]
  BY <1>1, <1>2, TopReplaced
<1>4. QED
  BY <1>1, <1>2, <1>3 DEF OnlyTaken

\* A hop that is taken is recorded, and what it enters is known.
LEMMA HopTaken ==
  ASSUME RealInv, TakeHop, ~truncated'
  PROVE  /\ Grows
         /\ \A c \in LockState : Known(c) => Known(c)'
         /\ \A x \in [port : InPort, kind : SyncKind], held \in SUBSET Instance :
              Ahead(x, held) =>
                \/ Ahead(x, held)'
                \/ x.kind = "async"
                \/ Recorded(entry, x, held)' /\ Followed(x, held)'
<1>1. UNCHANGED <<input, todo, entry, visited, budget, refused>> /\ topo' = topo
  BY DEF TakeHop, input
<1>2. PICK hop \in [port : InPort, kind : SyncKind] :
        AsyncHop(hop) \/ SyncHop(hop) \/ SelfDeadlock(hop) \/ GuardedHop(hop)
  BY DEF TakeHop
<1>3. HopReady(hop)
  BY <1>2 DEF AsyncHop, SyncHop, SelfDeadlock, GuardedHop
<1>4. /\ topo \in Topology /\ Top \in FrameType /\ hop \in Top.hops /\ Top.held \in SUBSET Instance
      /\ topo.owner[hop.port] \in Instance /\ Enter(hop) \in SUBSET Handler
  <2>1. /\ topo \in Topology /\ Top \in FrameType /\ hop \in Top.hops
    BY <1>3, HopFrom
  <2>2. PICK h \in Handler : hop \in OutwardHops(topo, h)
    BY <1>3, HopFrom
  <2>3. QED
    BY <2>1, <2>2, HopFacts DEF FrameType, Enter
<1>0. PICK i \in Instance, H \in SUBSET Instance, N \in SUBSET Handler, p \in {entry} :
        i = topo.owner[hop.port] /\ H = Top.held /\ N = Enter(hop) /\ p = entry
  BY <1>4
<1>5. Grows
  BY <1>2, <1>4 DEF AsyncHop, SyncHop, SelfDeadlock, GuardedHop, AddThreads, Grows, RealInv, TypeOK
<1>6. ASSUME NEW E \in SUBSET Handler, NEW I \in SUBSET Instance, Take(hop, E, I)
      PROVE  /\ \A c \in LockState : Known(c) => Known(c)'
             /\ \A x \in [port : InPort, kind : SyncKind], held \in SUBSET Instance :
                  Ahead(x, held) => Ahead(x, held)' \/ (x = hop /\ held = Top.held)
             /\ \A g \in E : Known(<<g, I>>)'
  <2>1. OnlyTaken(hop, E, I)
    BY <1>3, <1>6, TakeFrames
  <2>2. ASSUME NEW c \in LockState, Known(c) PROVE Known(c)'
    BY <1>1, <2>1, <2>2 DEF Known, OnlyTaken
  <2>3. ASSUME NEW x \in [port : InPort, kind : SyncKind], NEW held \in SUBSET Instance, Ahead(x, held)
        PROVE  Ahead(x, held)' \/ (x = hop /\ held = Top.held)
    BY <2>1, <2>3 DEF Ahead, OnlyTaken
  <2>4. ASSUME NEW g \in E PROVE Known(<<g, I>>)'
    BY <2>1 DEF Known, OnlyTaken
  <2>5. QED
    BY <2>2, <2>3, <2>4
<1>enough. ASSUME NEW E \in SUBSET Handler, NEW I \in SUBSET Instance, Take(hop, E, I),
              hop.kind = "async" \/ (Recorded(p, hop, H)' /\ Followed(hop, H)')
       PROVE  /\ \A c \in LockState : Known(c) => Known(c)'
              /\ \A x \in [port : InPort, kind : SyncKind], held \in SUBSET Instance :
                   Ahead(x, held) =>
                     \/ Ahead(x, held)'
                     \/ x.kind = "async"
                     \/ Recorded(entry, x, held)' /\ Followed(x, held)'
  <2>1. p = entry' /\ H = Top.held
    BY <1>0, <1>1
  <2>2. Recorded(p, hop, H)' => Recorded(entry, hop, H)'
    BY <2>1 DEF Recorded
  <2>3. QED
    BY <1>6, <1>enough, <2>1, <2>2
<1>7. CASE AsyncHop(hop)
  BY <1>5, <1>enough, <1>7 DEF AsyncHop
<1>8. CASE SyncHop(hop)
  <2>1. Take(hop, N, H) /\ hop.kind = "sync"
    BY <1>0, <1>8 DEF SyncHop
  <2>2. \A g \in N : Known(<<g, H>>)'
    BY <1>6, <2>1
  <2>3. Recorded(p, hop, H)'
    BY <2>1 DEF Recorded
  <2>4. Followed(hop, H)'
    BY <1>0, <1>1, <2>1, <2>2 DEF Followed, HeldBehind, Enter
  <2>5. QED
    BY <1>5, <1>enough, <2>1, <2>3, <2>4
<1>9. CASE SelfDeadlock(hop)
  <2>1. /\ Take(hop, {}, {}) /\ hop.kind = "guarded" /\ i \in H
        /\ selfLocks' = AddThreads(selfLocks, Reentry(i), EntryThreads(p))
    BY <1>0, <1>9 DEF SelfDeadlock
  <2>2. ToReport(<<i, i>>) => labels[p] \subseteq selfLocks'[i]
    BY <1>0, <2>1 DEF AddThreads, Reentry, ToReport, EntryThreads, RealInv, TypeOK
  <2>3. Recorded(p, hop, H)' /\ Followed(hop, H)'
    BY <1>0, <1>1, <2>1, <2>2 DEF Recorded, Followed, ToReport, input
  <2>4. QED
    BY <1>5, <1>enough, <2>1, <2>3
<1>10. CASE GuardedHop(hop)
  <2>1. /\ Take(hop, N, H \cup {i}) /\ hop.kind = "guarded" /\ i \notin H
        /\ lockEdges' = AddThreads(lockEdges, NewEdges(i), EntryThreads(p))
    BY <1>0, <1>10 DEF GuardedHop
  <2>2. \A a \in H : ToReport(<<a, i>>) => labels[p] \subseteq lockEdges'[<<a, i>>]
    BY <1>0, <2>1 DEF AddThreads, NewEdges, ToReport, EntryThreads, RealInv, TypeOK
  <2>3. Recorded(p, hop, H)'
    BY <1>0, <1>1, <2>1, <2>2 DEF Recorded, ToReport, input
  <2>4. H \cup {i} \in SUBSET Instance
    BY <1>0
  <2>5. \A g \in N : Known(<<g, H \cup {i}>>)'
    BY <1>6, <2>1, <2>4
  <2>6. Followed(hop, H)'
    BY <1>0, <1>1, <2>1, <2>5 DEF Followed, HeldBehind, Enter
  <2>7. QED
    BY <1>5, <1>enough, <2>1, <2>3, <2>4, <2>6
<1>11. QED
  BY <1>2, <1>7, <1>8, <1>9, <1>10

\* Taking a hop keeps the walks.
LEMMA TakeHopKeeps ==
  ASSUME RealInv, WalksKept, TakeHop, ~truncated'
  PROVE  WalksKept'
BY HopTaken, KeepsWalks DEF TakeHop

\* A walk whose last frame is done has visited all it leads to, and recorded it.
LEMMA LastReturn ==
  ASSUME RealInv, WalksKept, Return, Len(frames) = 1, NEW w \in Walks(topo), entry = w[1],
         Known(EntryState(topo, w[1], w[2]))
  PROVE  Finished(w)
<1>1. /\ topo \in Topology /\ frames \in Seq(FrameType) /\ Top = frames[1]
      /\ Top.entries = {} /\ Top.hops = {} /\ visited \subseteq LockState
  BY DEF RealInv, TypeOK, Return, Top, LockState
<1>2. \A n \in 1..Len(frames) : frames[n].entries = {} /\ frames[n].hops = {}
  BY <1>1
<1>3. \A c : Known(c) => c \in visited
  BY <1>2 DEF Known
<1>4. ASSUME NEW c \in visited
      PROVE  /\ ~Unresolved(topo, c[1])
             /\ \A hop \in ThreadHops(topo, c[1]) :
                  Recorded(entry, hop, c[2]) /\ Followed(hop, c[2])
  BY <1>2 DEF WalksKept, Explored, Ahead
<1>5. ASSUME NEW c \in visited PROVE CallsUnder(topo, c) \subseteq visited
  <2> SUFFICES ASSUME NEW d \in CallsUnder(topo, c) PROVE d \in visited
    OBVIOUS
  <2>1. PICK hop \in ThreadHops(topo, c[1]) :
          /\ hop.kind = "guarded" => topo.owner[hop.port] \notin c[2]
          /\ \E g \in FlowEntries(topo, hop.port, hop.kind) : d = <<g, HeldBehind(hop, c[2])>>
    BY DEF CallsUnder, HeldBehind
  <2>2. Known(d)
    BY <1>4, <2>1 DEF Followed
  <2>3. QED
    BY <1>3, <2>2
<1>6. EntryState(topo, w[1], w[2]) \in LockState
  BY <1>1, EntryStateType DEF Walks
<1>7. LeadsTo(topo, {EntryState(topo, w[1], w[2])}) \subseteq visited
  BY <1>1, <1>3, <1>5, <1>6, LeadsToFacts
<1>8. QED
  BY <1>4, <1>7 DEF Finished

\* Returning forgets frames only when they are empty, and marks only with the walk.
LEMMA ReturnKeeps ==
  ASSUME RealInv, WalksKept, Return
  PROVE  WalksKept'
<1>1. /\ topo \in Topology /\ frames \in Seq(FrameType) /\ frames # <<>> /\ frames' = Below
      /\ Len(frames) \in Nat /\ UNCHANGED <<input, todo>> /\ topo' = topo /\ Grows
      /\ Top.entries = {} /\ Top.hops = {} /\ Top = frames[Len(frames)]
  BY DEF RealInv, TypeOK, Return, Grows, Top, input
<1>2. CASE Len(frames) = 1
  <2>1. visited' = {}
    BY <1>2 DEF Return
  <2>2. ASSUME NEW w \in Walks(topo) \ todo PROVE Finished(w)'
    BY <1>1, <1>2, LastReturn, FinishedGrows DEF WalksKept
  <2>3. QED
    BY <1>1, <2>1, <2>2 DEF WalksKept
<1>3. CASE Len(frames) # 1
  <2>1. entry' = entry /\ visited' = visited
    BY <1>3 DEF Return
  <2>2. ASSUME NEW n \in 1..Len(frames), frames[n].entries # {} \/ frames[n].hops # {}
        PROVE  n \in 1..Len(frames') /\ frames'[n] = frames[n]
    <3>1. n # Len(frames)
      BY <1>1, <2>2
    <3>2. n \in 1..(Len(frames) - 1)
      BY <1>1, <3>1
    <3>3. QED
      BY <1>1, <3>2, TopReplaced
  <2>3. ASSUME NEW c \in LockState, Known(c) PROVE Known(c)'
    BY <2>1, <2>2, <2>3 DEF Known
  <2>4. ASSUME NEW x \in [port : InPort, kind : SyncKind], NEW held \in SUBSET Instance, Ahead(x, held)
        PROVE  Ahead(x, held)'
    BY <2>2, <2>4 DEF Ahead
  <2>5. QED
    BY <1>1, <2>1, <2>3, <2>4, KeepsWalks
<1>4. QED
  BY <1>2, <1>3

\* Before a walk is begun, there is nothing to keep.
LEMMA CompleteInit == Init => CompleteInv
<1> SUFFICES ASSUME Init PROVE CompleteInv
  OBVIOUS
<1>1. visited = {} /\ todo = Walks(topo)
  BY DEF Init
<1>2. WalksKept
  BY <1>1 DEF WalksKept
<1>3. QED
  BY <1>2, RealInit DEF CompleteInv

\* Every step keeps the walks, unless it truncates or refuses one; neither is
\* taken back.
LEMMA CompleteStep ==
  ASSUME CompleteInv, [Next]_vars
  PROVE  CompleteInv'
<1>1. RealInv /\ RealInv'
  BY RealStep DEF CompleteInv
<1>2. SUFFICES ASSUME ~refused', ~truncated' PROVE WalksKept'
  BY <1>1 DEF CompleteInv
<1>3. CASE UNCHANGED vars
  <2>1. WalksKept
    BY <1>2, <1>3 DEF CompleteInv, vars
  <2>2. QED
    BY <1>3, <2>1 DEF vars, walkVars, input, WalksKept, Explored, Ahead, Known, Followed,
                      HeldBehind, Recorded, ToReport, Finished
<1>4. ASSUME NEW w \in todo, StartWalk(w) PROVE WalksKept'
  <2>1. ~refused /\ ~truncated
    BY <1>2, <1>4 DEF StartWalk
  <2>2. QED
    BY <1>1, <1>2, <1>4, <2>1, StartKeeps DEF CompleteInv
<1>5. ASSUME NEW g \in Handler, Descend(g) PROVE WalksKept'
  <2>1. ~refused /\ ~truncated
    BY <1>2, <1>5 DEF Descend
  <2>2. QED
    BY <1>1, <1>2, <1>5, <2>1, DescendKeeps DEF CompleteInv
<1>6. CASE TakeHop
  <2>1. ~refused /\ ~truncated
    BY <1>2, <1>6 DEF TakeHop, AsyncHop, SyncHop, SelfDeadlock, GuardedHop
  <2>2. QED
    BY <1>1, <1>2, <1>6, <2>1, TakeHopKeeps DEF CompleteInv
<1>7. CASE Return
  <2>1. ~refused /\ ~truncated
    BY <1>2, <1>7 DEF Return
  <2>2. QED
    BY <1>1, <1>7, <2>1, ReturnKeeps DEF CompleteInv
<1>8. QED
  BY <1>3, <1>4, <1>5, <1>6, <1>7 DEF Next

\* The invariant holds along every behaviour.
LEMMA CompleteAlways == Spec => []CompleteInv
<1>1. CompleteInv /\ [Next]_vars => CompleteInv'
  BY CompleteStep
<1>2. QED
  BY <1>1, CompleteInit, PTL DEF Spec

\* When the graph is built, every lock state of every guarded entry rests on
\* records and its calls are recorded.
LEMMA BuiltFinished ==
  ASSUME CompleteInv, Built, ~refused, ~truncated, NEW p \in GuardedEntries(topo),
         NEW c \in LockStates(topo, p)
  PROVE  /\ c \in LockState /\ ~Unresolved(topo, c[1])
         /\ \A hop \in ThreadHops(topo, c[1]) : Recorded(p, hop, c[2])
<1>1. topo \in Topology /\ p \in InPort
  BY DEF CompleteInv, RealInv, TypeOK, GuardedEntries
<1>2. PICK h \in FlowEntries(topo, p, "guarded") : c \in LeadsTo(topo, {EntryState(topo, p, h)})
  BY <1>1, LockStatesByHandler
<1>3. <<p, h>> \in Walks(topo)
  BY <1>1, <1>2, EntryStateType DEF Walks
<1>4. Finished(<<p, h>>)
  BY <1>1, <1>3, LockGraphAssumption DEF CompleteInv, WalksKept, Built
<1>5. QED
  BY <1>1, <1>2, <1>4, LockStatesFacts DEF Finished

\* A built graph has every nesting that is to be reported.
LEMMA NestingsFound ==
  ASSUME CompleteInv, Built, ~refused, ~truncated, NEW a \in Instance, NEW b \in Instance
  PROVE  NestedNow[<<a, b>>] \subseteq lockEdges[<<a, b>>]
<1> SUFFICES ASSUME ToReport(<<a, b>>), NEW l \in Nested(topo)[<<a, b>>]
             PROVE  l \in lockEdges[<<a, b>>]
  BY DEF NestedNow, CompleteInv, RealInv, InputExact
<1>1. topo \in Topology /\ labels = ThreadsAt(topo)
  BY DEF CompleteInv, RealInv, TypeOK, InputExact
<1>2. PICK p \in GuardedEntries(topo) :
        /\ l \in ThreadsAt(topo)[p]
        /\ \E c \in LockStates(topo, p) : a \in c[2] /\ b \notin c[2]
             /\ \E q \in GuardedCalls(topo, c) : topo.owner[q] = b
  BY <1>1, NestedDef
<1>3. PICK c \in LockStates(topo, p) : a \in c[2] /\ b \notin c[2]
             /\ \E q \in GuardedCalls(topo, c) : topo.owner[q] = b
  BY <1>2
<1>4. PICK hop \in ThreadHops(topo, c[1]) : hop.kind = "guarded" /\ topo.owner[hop.port] = b
  BY <1>3 DEF GuardedCalls
<1>5. Recorded(p, hop, c[2])
  BY <1>3, <1>4, BuiltFinished
<1>6. QED
  BY <1>1, <1>2, <1>3, <1>4, <1>5 DEF Recorded

\* It has every re-entry that is to be reported.
LEMMA ReentriesFound ==
  ASSUME CompleteInv, Built, ~refused, ~truncated, NEW i \in Instance
  PROVE  ReenteredNow[i] \subseteq selfLocks[i]
<1> SUFFICES ASSUME ToReport(<<i, i>>), NEW l \in Reentered(topo)[i]
             PROVE  l \in selfLocks[i]
  BY DEF ReenteredNow, CompleteInv, RealInv, InputExact
<1>1. topo \in Topology /\ labels = ThreadsAt(topo)
  BY DEF CompleteInv, RealInv, TypeOK, InputExact
<1>2. PICK p \in GuardedEntries(topo) :
        /\ l \in ThreadsAt(topo)[p]
        /\ \E c \in LockStates(topo, p) : i \in c[2]
             /\ \E q \in GuardedCalls(topo, c) : topo.owner[q] = i
  BY <1>1, ReenteredDef
<1>3. PICK c \in LockStates(topo, p) : i \in c[2]
             /\ \E q \in GuardedCalls(topo, c) : topo.owner[q] = i
  BY <1>2
<1>4. PICK hop \in ThreadHops(topo, c[1]) : hop.kind = "guarded" /\ topo.owner[hop.port] = i
  BY <1>3 DEF GuardedCalls
<1>5. Recorded(p, hop, c[2])
  BY <1>3, <1>4, BuiltFinished
<1>6. QED
  BY <1>1, <1>2, <1>3, <1>4, <1>5 DEF Recorded

\* CompleteUnlessTruncated always holds (topology_graph.py, walk_chains): however
\* cyclic the calls, the markers and the shared budget lose no nesting, no re-entry
\* and no thread of either unless the walk says that it was truncated or refused.
THEOREM CompleteUnlessTruncatedHolds == Spec => []CompleteUnlessTruncated
<1>1. CompleteInv => CompleteUnlessTruncated
  <2> SUFFICES ASSUME CompleteInv, Built, ~refused, ~truncated
               PROVE  lockEdges = NestedNow /\ selfLocks = ReenteredNow
    BY DEF CompleteUnlessTruncated
  <2>1. /\ lockEdges \in [Instance \X Instance -> Labels] /\ selfLocks \in [Instance -> Labels]
        /\ EdgesSound
    BY DEF CompleteInv, RealInv, TypeOK
  <2>2. ASSUME NEW a \in Instance, NEW b \in Instance
        PROVE  lockEdges[<<a, b>>] = NestedNow[<<a, b>>]
    <3>1. NestedNow[<<a, b>>] \subseteq lockEdges[<<a, b>>]
      BY NestingsFound
    <3>2. lockEdges[<<a, b>>] \subseteq NestedNow[<<a, b>>]
      BY <2>1 DEF EdgesSound
    <3>3. QED
      BY <3>1, <3>2
  <2>3. \A e \in Instance \X Instance : lockEdges[e] = NestedNow[e]
    BY <2>2
  <2>4. \A i \in Instance : selfLocks[i] = ReenteredNow[i]
    BY <2>1, ReentriesFound DEF EdgesSound
  <2>5. NestedNow = [e \in Instance \X Instance |-> NestedNow[e]]
        /\ ReenteredNow = [i \in Instance |-> ReenteredNow[i]]
    BY DEF NestedNow, ReenteredNow
  <2>6. QED
    BY <2>1, <2>3, <2>4, <2>5
<1>2. QED
  BY <1>1, CompleteAlways, PTL

\* StrictNeverGuesses always holds (README, strict flow maps refuse to run): a graph
\* that was built under a strict flow map passed no handler without a record.
THEOREM StrictNeverGuessesHolds == Spec => []StrictNeverGuesses
<1>1. CompleteInv => StrictNeverGuesses
  <2> SUFFICES ASSUME CompleteInv, topo.strict, Built, ~refused, ~truncated,
                      NEW p \in GuardedEntries(topo), NEW c \in LockStates(topo, p)
               PROVE  c[1] \notin topo.opaque
    BY DEF StrictNeverGuesses
  <2>1. QED
    BY BuiltFinished DEF Unresolved
<1>2. QED
  BY <1>1, CompleteAlways, PTL


-----------------------------------------------------------------------------
(* The inductive invariant: what the budget was spent on. *)

\* The lock states of each walk.
States == [w \in Walks(topo) |-> WalkStates(w)]

\* Every frame stands for lock states of a walk, and so does what it is about to enter.
FramesOf(w) ==
  \A n \in 1..Len(frames) :
    /\ \A hop \in frames[n].hops : \E h \in Handler :
         hop \in OutwardHops(topo, h) /\ <<h, frames[n].held>> \in WalkStates(w)
    /\ \A g \in frames[n].entries : <<g, frames[n].inner>> \in WalkStates(w)

\* The budget that is gone paid for states of walks that were begun, one each, and
\* what it paid for in the walk under way is marked.
Paid(P) ==
  /\ P \subseteq Pairs(Walks(topo) \ todo, States)
  /\ Cardinality(P) = options.maxStates - budget
  /\ entry # NoEntry =>
       \E w \in Walks(topo) \ todo :
         FramesOf(w) /\ \A c \in WalkStates(w) : <<w, c>> \in P => c \in visited

TooLarge == options.maxStates <= StatesToWalk \/ Deeper

BudgetInv == RealInv /\ (truncated => TooLarge) /\ \E P : Paid(P)

\* What a walk leads to: its start, closed under calls.
LEMMA WalkStatesFacts ==
  ASSUME topo \in Topology, NEW w \in Walks(topo)
  PROVE  /\ WalkStates(w) \subseteq LockState /\ IsFiniteSet(WalkStates(w))
         /\ <<w[2], {topo.owner[w[1]]}>> \in WalkStates(w)
         /\ \A c \in WalkStates(w) : CallsUnder(topo, c) \subseteq WalkStates(w)
<1> DEFINE S == {EntryState(topo, w[1], w[2])}
<1>1. w[1] \in InPort /\ w[2] \in FlowEntries(topo, w[1], "guarded")
  BY DEF Walks
<1>2. S \in SUBSET LockState
  BY <1>1, EntryStateType
<1>3. WalkStates(w) = LeadsTo(topo, S)
  BY DEF WalkStates
<1>4. <<w[2], {topo.owner[w[1]]}>> \in S
  BY DEF EntryState
<1> HIDE DEF S
<1>5. /\ LeadsTo(topo, S) \subseteq LockState /\ S \subseteq LeadsTo(topo, S)
      /\ \A c \in LeadsTo(topo, S) : CallsUnder(topo, c) \subseteq LeadsTo(topo, S)
  BY <1>2, LeadsToFacts
<1>6. QED
  BY <1>3, <1>4, <1>5, LockStateFinite, FS_Subset

\* There are finitely many states to walk, and their number is the sum over the walks.
LEMMA StatesCounted ==
  ASSUME topo \in Topology
  PROVE  /\ IsFiniteSet(Pairs(Walks(topo), States))
         /\ StatesToWalk = Cardinality(Pairs(Walks(topo), States))
<1>1. PICK W, B, f : /\ W = Walks(topo) /\ B = States
                     /\ f = [w \in Walks(topo) |-> Cardinality(WalkStates(w))]
  OBVIOUS
<1>2. IsFiniteSet(W)
  <2>1. IsFiniteSet(InPort \X Handler)
    BY NamesAssumption, LockStateFinite, FS_Product
  <2>2. QED
    BY <1>1, <2>1, FS_Subset DEF Walks
<1>3. \A w \in W : IsFiniteSet(B[w]) /\ Cardinality(B[w]) = f[w]
  BY <1>1, WalkStatesFacts DEF States
<1>4. IsFiniteSet(Pairs(W, B))
  BY <1>2, <1>3, FinitePairs
<1>5. SumFunction(f) = Cardinality(Pairs(W, B))
  BY <1>1, <1>2, <1>3, SumOfPairs
<1>6. QED
  BY <1>1, <1>4, <1>5 DEF StatesToWalk

\* All of this depends on the input only.
LEMMA StatesStay ==
  ASSUME UNCHANGED input
  PROVE  /\ Walks(topo)' = Walks(topo) /\ States' = States
         /\ TooLarge' <=> TooLarge
         /\ \A w : WalkStates(w)' = WalkStates(w)
<1>1. topo' = topo /\ options' = options
  BY DEF input
<1>2. \A w : WalkStates(w)' = WalkStates(w)
  BY <1>1 DEF WalkStates
<1>3. Walks(topo)' = Walks(topo) /\ States' = States
  BY <1>1, <1>2 DEF States
<1>4. StatesToWalk' = StatesToWalk /\ (Deeper' <=> Deeper)
  BY <1>1, <1>2, <1>3 DEF StatesToWalk, Deeper
<1>5. QED
  BY <1>1, <1>2, <1>3, <1>4 DEF TooLarge

\* What was paid for is among what there is to walk.
LEMMA PaidFacts ==
  ASSUME topo \in Topology, NEW P, Paid(P)
  PROVE  /\ IsFiniteSet(P) /\ P \subseteq Pairs(Walks(topo), States)
         /\ Cardinality(P) <= StatesToWalk /\ Cardinality(P) \in Nat
         /\ \A x \in P : x = <<x[1], x[2]>> /\ x[1] \in Walks(topo) \ todo
<1>1. P \subseteq Pairs(Walks(topo), States)
  BY DEF Paid, Pairs
<1>2. \A x \in P : x = <<x[1], x[2]>> /\ x[1] \in Walks(topo) \ todo
  BY DEF Paid, Pairs
<1>3. QED
  BY <1>1, <1>2, StatesCounted, FS_Subset, FS_CardinalityType

\* Nothing is spent in the beginning.
LEMMA BudgetInit == Init => BudgetInv
<1> SUFFICES ASSUME Init PROVE BudgetInv
  OBVIOUS
<1>1. options.maxStates \in Nat /\ budget = options.maxStates /\ entry = NoEntry /\ ~truncated
  BY LockGraphAssumption DEF Init, Option
<1>2. Paid({})
  BY <1>1, FS_EmptySet DEF Paid
<1>3. QED
  BY <1>1, <1>2, RealInit DEF BudgetInv

\* A walk that begins was paid nothing for yet.
LEMMA BudgetStart ==
  ASSUME BudgetInv, NEW w \in todo, StartWalk(w)
  PROVE  BudgetInv'
<1>1. /\ topo \in Topology /\ w \in Walks(topo) /\ UNCHANGED <<input, budget, truncated>>
      /\ topo' = topo /\ options' = options /\ entry = NoEntry /\ todo \subseteq Walks(topo)
  BY DEF BudgetInv, RealInv, TypeOK, StartWalk, input
<1>2. /\ Walks(topo)' = Walks(topo) /\ States' = States /\ (TooLarge' <=> TooLarge)
      /\ \A x : WalkStates(x)' = WalkStates(x)
  BY <1>1, StatesStay
<1>3. RealInv'
  BY StartReal DEF BudgetInv
<1>4. PICK P : Paid(P)
  BY DEF BudgetInv
<1>5. P \subseteq Pairs(Walks(topo) \ todo, States) /\ Cardinality(P) = options.maxStates - budget
  BY <1>4 DEF Paid
<1>6. Paid(P)'
  <2>1. CASE OriginsRaise(topo)
    BY <1>1, <1>2, <1>5, <2>1 DEF StartWalk, Paid
  <2>2. CASE ~OriginsRaise(topo)
    <3>1. /\ todo' = todo \ {w} /\ frames' = <<Frame({}, {}, {w[2]}, {topo.owner[w[1]]})>>
      BY <2>2 DEF StartWalk
    <3>2. w \in Walks(topo) \ todo'
      BY <1>1, <3>1
    <3>3. P \subseteq Pairs(Walks(topo) \ todo', States)
      BY <1>5, <3>1 DEF Pairs
    <3>4. FramesOf(w)'
      <4>1. PICK f : f = Frame({}, {}, {w[2]}, {topo.owner[w[1]]})
        OBVIOUS
      <4>2. f.hops = {} /\ f.entries = {w[2]} /\ f.inner = {topo.owner[w[1]]}
        BY <4>1 DEF Frame
      <4>3. Len(frames') = 1 /\ frames'[1] = f /\ 1..Len(frames') = {1}
        BY <3>1, <4>1
      <4>4. <<w[2], {topo.owner[w[1]]}>> \in WalkStates(w)
        BY <1>1, WalkStatesFacts
      <4>5. QED
        BY <1>2, <4>2, <4>3, <4>4 DEF FramesOf
    <3>5. \A c : <<w, c>> \notin P
      BY <1>1, <1>4, PaidFacts
    <3>6. QED
      BY <1>1, <1>2, <1>5, <3>2, <3>3, <3>4, <3>5 DEF Paid
  <2>3. QED
    BY <2>1, <2>2
<1>7. QED
  BY <1>1, <1>2, <1>3, <1>6 DEF BudgetInv

\* A marker that is new is paid for once; with nothing left, all was paid for.
LEMMA BudgetDescend ==
  ASSUME BudgetInv, NEW g \in Handler, Descend(g)
  PROVE  BudgetInv'
<1>1. /\ topo \in Topology /\ frames \in Seq(FrameType) /\ frames # <<>> /\ g \in Top.entries
      /\ Top = frames[Len(frames)] /\ Top \in FrameType /\ Len(frames) \in 1..Len(frames)
      /\ UNCHANGED <<input, todo, entry>> /\ topo' = topo /\ options' = options
      /\ options.maxStates \in Nat /\ budget \in Nat
  BY TopReplaced, LockGraphAssumption DEF BudgetInv, RealInv, TypeOK, Descend, input, Option
<1>2. /\ Walks(topo)' = Walks(topo) /\ States' = States /\ (TooLarge' <=> TooLarge)
      /\ \A x : WalkStates(x)' = WalkStates(x)
  BY <1>1, StatesStay
<1>3. RealInv'
  BY DescendReal DEF BudgetInv
<1>4. PICK P : Paid(P)
  BY DEF BudgetInv
<1>5. PICK w \in Walks(topo) \ todo :
        FramesOf(w) /\ \A c \in WalkStates(w) : <<w, c>> \in P => c \in visited
  BY <1>1, <1>4 DEF Paid, BudgetInv, RealInv, FramesReal
<1>6. Marker(g) \in WalkStates(w)
  BY <1>1, <1>5 DEF FramesOf, Marker
<1>7. FramesOf(w)'
  <2> DEFINE f == [Top EXCEPT !.entries = @ \ {g}]
             rest == Append(Below, f)
             n == Frame(OutwardHops(topo, g), Top.inner, {}, {})
  <2>1. /\ f \in FrameType /\ f.hops = Top.hops /\ f.held = Top.held /\ f.inner = Top.inner
        /\ f.entries = Top.entries \ {g}
    BY <1>1 DEF FrameType
  <2>2. /\ rest \in Seq(FrameType) /\ Len(rest) = Len(frames)
        /\ \A k \in 1..Len(frames) : rest[k] = IF k = Len(frames) THEN f ELSE frames[k]
    BY <1>1, <2>1, TopReplaced
  <2>3. /\ n \in FrameType /\ n.hops = OutwardHops(topo, g) /\ n.held = Top.inner /\ n.entries = {}
    BY <1>1, HopsType DEF Frame, FrameType
  <2>4. /\ Len(Append(rest, n)) = Len(frames) + 1 /\ Append(rest, n)[Len(frames) + 1] = n
        /\ \A k \in 1..Len(frames) : Append(rest, n)[k] = rest[k]
    BY <2>2, <2>3
  <2>5. frames' = rest \/ frames' = Append(rest, n)
    BY DEF Descend
  <2>6. \A k \in 1..Len(frames) :
          /\ rest[k].hops = frames[k].hops /\ rest[k].held = frames[k].held
          /\ rest[k].inner = frames[k].inner /\ rest[k].entries \subseteq frames[k].entries
    BY <1>1, <2>1, <2>2
  <2> HIDE DEF f, rest, n
  <2>7. \A k \in 1..(Len(frames) + 1) : k \in 1..Len(frames) \/ k = Len(frames) + 1
    BY <1>1
  <2>8. ASSUME NEW k \in 1..Len(frames')
        PROVE  /\ \A hop \in frames'[k].hops : \E h \in Handler :
                    hop \in OutwardHops(topo, h) /\ <<h, frames'[k].held>> \in WalkStates(w)
               /\ \A x \in frames'[k].entries : <<x, frames'[k].inner>> \in WalkStates(w)
    <3>1. CASE k \in 1..Len(frames)
      <4>1. frames'[k] = rest[k]
        BY <2>4, <2>5, <3>1
      <4>2. QED
        BY <1>5, <2>6, <3>1, <4>1 DEF FramesOf
    <3>2. CASE k \notin 1..Len(frames)
      <4>1. frames'[k] = n
        BY <2>2, <2>4, <2>5, <2>7, <3>2
      <4>2. QED
        BY <1>6, <2>3, <4>1 DEF Marker
    <3>3. QED
      BY <3>1, <3>2
  <2>9. QED
    BY <1>1, <1>2, <2>8 DEF FramesOf
<1>8. P \subseteq Pairs(Walks(topo) \ todo, States) /\ Cardinality(P) = options.maxStates - budget
  BY <1>4 DEF Paid
<1>9. CASE OutOfBudget
  <2>1. Cardinality(P) = options.maxStates /\ Cardinality(P) <= StatesToWalk
    BY <1>1, <1>4, <1>8, <1>9, PaidFacts DEF OutOfBudget
  <2>2. UNCHANGED <<visited, budget>>
    BY <1>9 DEF Descend
  <2>3. Paid(P)'
    BY <1>1, <1>2, <1>5, <1>7, <1>8, <2>2 DEF Paid
  <2>4. QED
    BY <1>2, <1>3, <2>1, <2>3 DEF BudgetInv, TooLarge
<1>10. CASE ~OutOfBudget /\ Met(g)
  <2>1. UNCHANGED <<visited, budget, truncated>>
    BY <1>10 DEF Descend
  <2>2. Paid(P)'
    BY <1>1, <1>2, <1>5, <1>7, <1>8, <2>1 DEF Paid
  <2>3. QED
    BY <1>2, <1>3, <2>1, <2>2 DEF BudgetInv
<1>11. CASE ~OutOfBudget /\ ~Met(g)
  <2> DEFINE m == <<w, Marker(g)>>
             Q == P \cup {m}
  <2>1. visited' = visited \cup {Marker(g)} /\ budget' = budget - 1 /\ UNCHANGED truncated
    BY <1>11 DEF Descend
  <2>2. m \notin P
    BY <1>5, <1>6, <1>11 DEF Met
  <2>3. IsFiniteSet(P) /\ Cardinality(P) \in Nat
    BY <1>1, <1>4, PaidFacts
  <2>4. Cardinality(Q) = options.maxStates - budget'
    <3>1. Cardinality(Q) = Cardinality(P) + 1
      BY <2>2, <2>3, FS_AddElement
    <3>2. QED
      BY <1>1, <1>8, <2>1, <2>3, <3>1
  <2>5. m \in Pairs(Walks(topo) \ todo, States)
    BY <1>5, <1>6 DEF Pairs, States
  <2>6. \A c \in WalkStates(w) : <<w, c>> \in Q => c \in visited'
    BY <1>5, <2>1
  <2>7. Q \subseteq Pairs(Walks(topo) \ todo, States)
    BY <1>8, <2>5
  <2>8. PICK R : R = Q
    OBVIOUS
  <2> HIDE DEF m, Q
  <2>9. Paid(R)'
    BY <1>1, <1>2, <1>5, <1>7, <2>4, <2>6, <2>7, <2>8 DEF Paid
  <2>10. QED
    BY <1>2, <1>3, <2>1, <2>9 DEF BudgetInv
<1>12. QED
  BY <1>9, <1>10, <1>11

\* Taking a hop stays in the states of the walk, and what the depth bound cuts is there.
LEMMA BudgetHop ==
  ASSUME BudgetInv, TakeHop
  PROVE  BudgetInv'
<1>1. UNCHANGED <<input, todo, entry, visited, budget>> /\ topo' = topo /\ options' = options
  BY DEF TakeHop, input
<1>2. /\ Walks(topo)' = Walks(topo) /\ States' = States /\ (TooLarge' <=> TooLarge)
      /\ \A x : WalkStates(x)' = WalkStates(x)
  BY <1>1, StatesStay
<1>3. RealInv'
  BY TakeHopReal DEF BudgetInv
<1>4. PICK P : Paid(P)
  BY DEF BudgetInv
<1>5. PICK hop \in [port : InPort, kind : SyncKind] :
        AsyncHop(hop) \/ SyncHop(hop) \/ SelfDeadlock(hop) \/ GuardedHop(hop)
  BY DEF TakeHop
<1>6. HopReady(hop) /\ RealInv
  BY <1>5 DEF AsyncHop, SyncHop, SelfDeadlock, GuardedHop, BudgetInv
<1>7. /\ topo \in Topology /\ frames \in Seq(FrameType) /\ frames # <<>>
      /\ Top \in FrameType /\ hop \in Top.hops
  BY <1>6, HopFrom
<1>8. Len(frames) \in 1..Len(frames) /\ Top = frames[Len(frames)]
  BY <1>7, TopReplaced
<1>9. PICK w \in Walks(topo) \ todo :
        FramesOf(w) /\ \A c \in WalkStates(w) : <<w, c>> \in P => c \in visited
  BY <1>4, <1>6, <1>7 DEF Paid, RealInv, FramesReal
<1>10. PICK h \in Handler : hop \in OutwardHops(topo, h) /\ <<h, Top.held>> \in WalkStates(w)
  BY <1>7, <1>8, <1>9 DEF FramesOf
<1> DEFINE I == HeldBehind(hop, Top.held)
<1>11. /\ topo.owner[hop.port] \in Instance /\ Enter(hop) \subseteq Handler
       /\ I \in SUBSET Instance /\ Top.held \in SUBSET Instance
       /\ hop.kind # "async" => hop \in ThreadHops(topo, h)
  BY <1>7, <1>10, HopFacts DEF Enter, HeldBehind, FrameType
<1>12. ASSUME NEW E \in SUBSET Handler, NEW J \in SUBSET Instance, Take(hop, E, J),
              \A x \in E : <<x, J>> \in WalkStates(w)
       PROVE  Paid(P)'
  <2>1. FramesOf(w)'
    <3> DEFINE f == Frame(Top.hops \ {hop}, Top.held, E, J)
    <3>1. /\ f \in FrameType /\ f.hops \subseteq Top.hops /\ f.held = Top.held
          /\ f.entries = E /\ f.inner = J
      BY <1>7 DEF Frame, FrameType
    <3>2. frames' = Append(Below, f)
      BY <1>12 DEF Take
    <3> HIDE DEF f
    <3>3. /\ Len(frames') = Len(frames)
          /\ \A n \in 1..Len(frames) : frames'[n] = IF n = Len(frames) THEN f ELSE frames[n]
      BY <1>7, <3>1, <3>2, TopReplaced
    <3>4. \A x \in f.hops : \E y \in Handler :
            x \in OutwardHops(topo, y) /\ <<y, f.held>> \in WalkStates(w)
      BY <1>8, <1>9, <3>1 DEF FramesOf
    <3>5. QED
      BY <1>1, <1>2, <1>9, <1>12, <3>1, <3>3, <3>4 DEF FramesOf
  <2>2. QED
    BY <1>1, <1>2, <1>4, <1>9, <2>1 DEF Paid
<1>13. ASSUME hop.kind # "async", hop.kind = "guarded" => topo.owner[hop.port] \notin Top.held
       PROVE  \A x \in Enter(hop) : <<x, I>> \in WalkStates(w)
  <2>1. \A x \in Enter(hop) : <<x, I>> \in CallsUnder(topo, <<h, Top.held>>)
    BY <1>11, <1>13 DEF CallsUnder, Enter, HeldBehind
  <2>2. CallsUnder(topo, <<h, Top.held>>) \subseteq WalkStates(w)
    BY <1>7, <1>10, WalkStatesFacts
  <2>3. QED
    BY <2>1, <2>2
<1>14. ASSUME Take(hop, {}, {}) PROVE Paid(P)'
  BY <1>12, <1>14
<1>15. UNCHANGED truncated /\ Paid(P)' => BudgetInv'
  BY <1>2, <1>3 DEF BudgetInv
<1>16. CASE AsyncHop(hop) \/ SelfDeadlock(hop)
  BY <1>14, <1>15, <1>16 DEF AsyncHop, SelfDeadlock
<1>17. CASE SyncHop(hop)
  <2>1. Take(hop, Enter(hop), Top.held) /\ hop.kind = "sync" /\ UNCHANGED truncated
    BY <1>17 DEF SyncHop
  <2>2. I = Top.held
    BY <2>1 DEF HeldBehind
  <2>3. Paid(P)'
    BY <1>11, <1>12, <1>13, <2>1, <2>2
  <2>4. QED
    BY <1>15, <2>1, <2>3
<1>18. CASE GuardedHop(hop)
  <2>1. hop.kind = "guarded" /\ topo.owner[hop.port] \notin Top.held
    BY <1>18 DEF GuardedHop
  <2>2. CASE Cardinality(Top.held) >= options.maxLockDepth
    <3>1. Take(hop, {}, {})
      BY <1>18, <2>2 DEF GuardedHop
    <3>2. hop.port \in GuardedCalls(topo, <<h, Top.held>>)
      BY <1>11, <2>1 DEF GuardedCalls
    <3>3. Deeper
      BY <1>9, <1>10, <2>1, <2>2, <3>2 DEF Deeper
    <3>4. QED
      BY <1>2, <1>3, <1>14, <3>1, <3>3 DEF BudgetInv, TooLarge
  <2>3. CASE ~(Cardinality(Top.held) >= options.maxLockDepth)
    <3>1. Take(hop, Enter(hop), I) /\ UNCHANGED truncated
      BY <1>18, <2>1, <2>3 DEF GuardedHop, HeldBehind
    <3>2. Paid(P)'
      BY <1>11, <1>12, <1>13, <2>1, <3>1
    <3>3. QED
      BY <1>15, <3>1, <3>2
  <2>4. QED
    BY <2>2, <2>3
<1>19. QED
  BY <1>5, <1>16, <1>17, <1>18

\* Returning forgets frames, and with the last of them the markers.
LEMMA BudgetReturn ==
  ASSUME BudgetInv, Return
  PROVE  BudgetInv'
<1>1. /\ UNCHANGED <<input, todo, budget, truncated>> /\ topo' = topo /\ options' = options
      /\ frames \in Seq(FrameType) /\ frames # <<>> /\ frames' = Below
  BY DEF Return, input, BudgetInv, RealInv, TypeOK
<1>2. /\ Walks(topo)' = Walks(topo) /\ States' = States /\ (TooLarge' <=> TooLarge)
      /\ \A x : WalkStates(x)' = WalkStates(x)
  BY <1>1, StatesStay
<1>3. RealInv'
  BY ReturnReal DEF BudgetInv
<1>4. PICK P : Paid(P)
  BY DEF BudgetInv
<1>5. \A n \in 1..Len(frames') : n \in 1..Len(frames) /\ frames'[n] = frames[n]
  BY <1>1, FrontFacts DEF Below
<1>6. ASSUME NEW w, FramesOf(w) PROVE FramesOf(w)'
  BY <1>1, <1>2, <1>5, <1>6 DEF FramesOf
<1>7. entry' # NoEntry => entry' = entry /\ visited' = visited
  BY DEF Return
<1>8. Paid(P)'
  BY <1>1, <1>2, <1>4, <1>6, <1>7 DEF Paid
<1>9. QED
  BY <1>1, <1>2, <1>3, <1>8 DEF BudgetInv

LEMMA BudgetStep ==
  ASSUME BudgetInv, [Next]_vars
  PROVE  BudgetInv'
<1>1. CASE UNCHANGED vars
  <2>1. UNCHANGED <<input, todo, walkVars, truncated>> /\ topo' = topo /\ options' = options
        /\ UNCHANGED <<entry, frames, visited, budget>>
    BY <1>1 DEF vars, walkVars, input
  <2>2. /\ Walks(topo)' = Walks(topo) /\ States' = States /\ (TooLarge' <=> TooLarge)
        /\ \A x : WalkStates(x)' = WalkStates(x)
    BY <2>1, StatesStay
  <2>3. RealInv'
    BY RealStep DEF BudgetInv
  <2>4. PICK P : Paid(P)
    BY DEF BudgetInv
  <2>5. \A w : FramesOf(w)' <=> FramesOf(w)
    BY <2>1, <2>2 DEF FramesOf
  <2>6. Paid(P)'
    BY <2>1, <2>2, <2>4, <2>5 DEF Paid
  <2>7. QED
    BY <2>1, <2>2, <2>3, <2>6 DEF BudgetInv
<1>2. QED
  BY <1>1, BudgetStart, BudgetDescend, BudgetHop, BudgetReturn DEF Next

\* TruncatedOnlyWhenTooLarge always holds (topology_graph.py:1039-1046): handlers
\* may be shared and call each other in circles, the budget pays for a lock state
\* once in each walk, so it runs out only where there are that many of them.
THEOREM TruncatedOnlyWhenTooLargeHolds == Spec => []TruncatedOnlyWhenTooLarge
<1>1. BudgetInv => TruncatedOnlyWhenTooLarge
  BY DEF BudgetInv, TooLarge, TruncatedOnlyWhenTooLarge
<1>2. BudgetInv /\ [Next]_vars => BudgetInv'
  BY BudgetStep
<1>3. QED
  BY <1>1, <1>2, BudgetInit, PTL DEF Spec

-----------------------------------------------------------------------------
(* The calls in progress on one thread. *)

\* The locks that the j-th to k-th calls took.
Locks(s, j, k) == UNION {s[n].locks : n \in j..k}

\* Calls in progress follow one another when each lock was taken by a guarded call of
\* a mutex that was free, and what was called since then are lock states of it.
Chain(t, s) ==
  \A j \in 1..Len(s) : s[j].locks # {} =>
    /\ s[j].locks = {t.owner[s[j].port]} /\ s[j].port \in GuardedEntries(t)
    /\ t.owner[s[j].port] \notin Locks(s, 1, j - 1)
    /\ j > 1 => s[j].port \in GuardedCalls(t, <<s[j - 1].handler, {}>>)
    /\ \A k \in j..Len(s) : <<s[k].handler, Locks(s, j, k)>> \in LockStates(t, s[j].port)

\* A lock in progress is that of the owner of the port, entered guarded.
LEMMA LockTaken ==
  ASSUME topo \in Topology, RtInv, NoQueued, NEW th \in Origin, NEW j \in 1..Len(stack[th]),
         stack[th][j].locks # {}
  PROVE  LET c == stack[th][j]
         IN  /\ c.locks = {topo.owner[c.port]} /\ c.port \in GuardedEntries(topo)
             /\ c.handler \in FlowEntries(topo, c.port, "guarded")
<1>1. PICK c : c = stack[th][j]
  OBVIOUS
<1>2. PICK kind : c \in Calls /\ Entered(c, kind)
  BY <1>1, CallEntered
<1>3. QED
  BY <1>1, <1>2 DEF Entered, GuardedEntries, Calls

\* Without queued instances the calls in progress on a thread serve its own messages,
\* each was made by the handler below, and they follow one another.
LEMMA ThreadChained ==
  ASSUME topo \in Topology, RtInv, NoQueued, NEW th \in Origin
  PROVE  Chain(topo, stack[th]) /\ \A k \in 1..Len(stack[th]) : stack[th][k].origin = th
<1> DEFINE s == stack[th]
           m == Len(s)
<1>1. s \in Seq(Calls) /\ WellCalled(th) /\ m \in Nat
  BY DEF RtInv, RtType
<1>2. \A n \in 1..m : s[n] \in Calls
  BY <1>1
<1>3. ASSUME NEW k \in 1..(m - 1)
      PROVE  \E hop \in ThreadHops(topo, s[k].handler) :
               hop.port = s[k + 1].port /\ Entered(s[k + 1], hop.kind)
  <2>1. Continues(s[k], s[k + 1]) /\ k + 1 \in 1..m
    BY <1>1 DEF WellCalled
  <2>2. topo.component[topo.owner[s[k + 1].port]] # "queued"
    BY <1>2, <2>1 DEF NoQueued, Calls, Topology, Handler
  <2>3. QED
    BY <2>1, <2>2 DEF Continues
<1>4. ASSUME NEW j \in 1..m, s[j].locks # {}
      PROVE  /\ s[j].locks = {topo.owner[s[j].port]} /\ s[j].port \in GuardedEntries(topo)
             /\ topo.owner[s[j].port] \notin Locks(s, 1, j - 1)
             /\ j > 1 => s[j].port \in GuardedCalls(topo, <<s[j - 1].handler, {}>>)
             /\ \A k \in j..m : <<s[k].handler, Locks(s, j, k)>> \in LockStates(topo, s[j].port)
  <2>1. /\ s[j].locks = {topo.owner[s[j].port]} /\ s[j].port \in GuardedEntries(topo)
        /\ s[j].handler \in FlowEntries(topo, s[j].port, "guarded")
    BY <1>4, LockTaken
  <2>2. \A k \in (j + 1)..m : topo.owner[s[j].port] \notin s[k].locks
    BY <1>1, <2>1 DEF WellCalled
  <2>3. topo.owner[s[j].port] \notin Locks(s, 1, j - 1)
    BY <1>1, <2>1 DEF WellCalled, Locks
  <2>4. j > 1 => s[j].port \in GuardedCalls(topo, <<s[j - 1].handler, {}>>)
    <3> SUFFICES ASSUME j > 1 PROVE s[j].port \in GuardedCalls(topo, <<s[j - 1].handler, {}>>)
      OBVIOUS
    <3>1. j - 1 \in 1..(m - 1) /\ (j - 1) + 1 = j
      BY <1>1
    <3>2. PICK hop \in ThreadHops(topo, s[j - 1].handler) : hop.port = s[j].port /\ Entered(s[j], hop.kind)
      BY <1>3, <3>1
    <3>3. hop.kind = "guarded"
      BY <1>4, <3>2 DEF Entered
    <3>4. QED
      BY <3>2, <3>3 DEF GuardedCalls
  <2>5. ASSUME NEW k \in j..m PROVE <<s[k].handler, Locks(s, j, k)>> \in LockStates(topo, s[j].port)
    <3> DEFINE Led == {n \in j..m : <<s[n].handler, Locks(s, j, n)>> \in LockStates(topo, s[j].port)}
    <3>1. j \in Led
      <4>1. j \in j..m /\ j..j = {j} /\ s[j].port \in InPort
        BY <1>1, <1>2 DEF Calls
      <4>2. Locks(s, j, j) = {topo.owner[s[j].port]}
        BY <2>1, <4>1 DEF Locks
      <4>3. <<s[j].handler, {topo.owner[s[j].port]}>> \in LockStates(topo, s[j].port)
        BY <2>1, <4>1, LockStatesFacts DEF EntryState
      <4>4. QED
        BY <4>1, <4>2, <4>3
    <3>2. ASSUME NEW n \in j..(m - 1), n \in Led PROVE n + 1 \in Led
      <4>1. /\ n \in 1..(m - 1) /\ n + 1 \in j..m /\ n + 1 \in 1..m /\ j..(n + 1) = (j..n) \cup {n + 1}
            /\ s[j].port \in InPort
        BY <1>1, <1>2 DEF Calls
      <4>2. PICK hop \in ThreadHops(topo, s[n].handler) :
              hop.port = s[n + 1].port /\ Entered(s[n + 1], hop.kind)
        BY <1>3, <4>1
      <4>3. Locks(s, j, n + 1) = Locks(s, j, n) \cup s[n + 1].locks
        BY <4>1 DEF Locks
      <4>4. hop.kind = "guarded" => topo.owner[hop.port] \notin Locks(s, j, n)
        <5>1. \A i \in j..n : s[i].locks \cap s[n + 1].locks = {}
          BY <1>1, <4>1 DEF WellCalled
        <5>2. QED
          BY <4>2, <5>1 DEF Entered, Locks
      <4>5. <<s[n + 1].handler, Locks(s, j, n + 1)>> \in CallsUnder(topo, <<s[n].handler, Locks(s, j, n)>>)
        BY <4>2, <4>3, <4>4 DEF CallsUnder, Entered
      <4>6. QED
        BY <3>2, <4>1, <4>5, LockStatesFacts
    <3> HIDE DEF Led
    <3>3. j \in Nat /\ m \in Nat
      BY <1>1
    <3> HIDE DEF m
    <3>4. \A n \in j..m : n \in Led
      BY ONLY <3>1, <3>2, <3>3, Climb
    <3>5. QED
      BY <3>4 DEF Led
  <2>6. QED
    BY <2>1, <2>3, <2>4, <2>5
<1>5. Chain(topo, s)
  BY <1>4 DEF Chain
<1>6. QED
  BY <1>1, <1>5 DEF WellCalled

-----------------------------------------------------------------------------
(* The graph and the deployment together. *)

DeploymentInv == CompleteInv /\ RtInv

\* The topology is one of those considered, and its labels are computed.
LEMMA DeploymentTopology ==
  ASSUME DeploymentInv
  PROVE  topo \in Topology /\ labels = ThreadsAt(topo)
BY DEF DeploymentInv, CompleteInv, RealInv, TypeOK, InputExact

\* Every step keeps both invariants: while the graph is built no thread runs, and
\* while threads run the graph stays.
LEMMA DeploymentStep ==
  ASSUME DeploymentInv, [AnalyzeThenRun]_<<vars, stack, wants>>
  PROVE  DeploymentInv'
<1>1. topo \in Topology /\ UNCHANGED topo
  <2>1. CASE UNCHANGED vars
    BY <2>1, DeploymentTopology DEF vars, input
  <2>2. CASE Next
    BY <2>2, DeploymentTopology DEF Next, StartWalk, Descend, TakeHop, Return, input
  <2>3. QED
    BY <2>1, <2>2 DEF AnalyzeThenRun
<1>2. CompleteInv'
  BY CompleteStep DEF DeploymentInv, AnalyzeThenRun
<1>3. CASE UNCHANGED <<stack, wants>>
  BY <1>1, <1>2, <1>3, RuntimeStays DEF DeploymentInv
<1>4. CASE RtNext
  BY <1>1, <1>2, <1>4, RuntimeStep, FprimeRuntimeAssumption DEF DeploymentInv
<1>5. QED
  BY <1>3, <1>4 DEF AnalyzeThenRun

\* The invariant holds along every behaviour.
LEMMA DeploymentAlways == DeploymentSpec => []DeploymentInv
<1>1. DeploymentInit => DeploymentInv
  BY CompleteInit, RuntimeBegins, FprimeRuntimeAssumption DEF DeploymentInit, DeploymentInv
<1>2. DeploymentInv /\ [AnalyzeThenRun]_<<vars, stack, wants>> => DeploymentInv'
  BY DeploymentStep
<1>3. QED
  BY <1>1, <1>2, PTL DEF DeploymentSpec

\* OriginsCoverRuntime always holds (topology_graph.py:884): whatever runs or is asked
\* for, for whomever, that origin is among the labels of the port.
THEOREM OriginsCoverRuntimeHolds == DeploymentSpec => []OriginsCoverRuntime
<1>1. DeploymentInv => OriginsCoverRuntime
  <2> SUFFICES ASSUME DeploymentInv, NEW th \in Threads
               PROVE  /\ \A k \in 1..Len(stack[th]) : stack[th][k].origin \in labels[stack[th][k].port]
                      /\ \A p \in wants[th] : Serving(th) \in labels[p]
    BY DEF OriginsCoverRuntime
  <2>1. topo \in Topology /\ labels = ThreadsAt(topo) /\ th \in Origin
    BY DeploymentTopology, ThreadsAreOrigins
  <2>2. /\ stack[th] \in Seq(Calls) /\ wants[th] \subseteq InPort
        /\ WellCalled(th) /\ WellWanted(th)
    BY <2>1 DEF DeploymentInv, RtInv, RtType
  <2>3. \A k \in 1..Len(stack[th]) : stack[th][k].port \in InPort
    <3>1. \A k \in 1..Len(stack[th]) : stack[th][k] \in Calls
      BY <2>2
    <3>2. QED
      BY <3>1 DEF Calls
  <2>4. QED
    BY <2>1, <2>2, <2>3, ServesLabel DEF WellCalled, WellWanted
<1>2. QED
  BY <1>1, DeploymentAlways, PTL

\* What a lock held, and a port asked for, amount to without queued instances: the
\* call that took the lock, and where the calls since then have led.
LEMMA HeldSince ==
  ASSUME DeploymentInv, NoQueued, NEW th \in Origin, NEW a \in Held(th), NEW p \in wants[th]
  PROVE  \E j \in 1..Len(stack[th]) :
           /\ stack[th][j].locks = {a} /\ topo.owner[stack[th][j].port] = a
           /\ stack[th][j].port \in GuardedEntries(topo)
           /\ th \in labels[stack[th][j].port]
           /\ LET c == <<stack[th][Len(stack[th])].handler, Locks(stack[th], j, Len(stack[th]))>>
              IN  /\ c \in LockStates(topo, stack[th][j].port)
                  /\ a \in c[2] /\ p \in GuardedCalls(topo, c)
<1> DEFINE s == stack[th]
<1>1. topo \in Topology /\ labels = ThreadsAt(topo) /\ s \in Seq(Calls) /\ Len(s) \in Nat
  BY DeploymentTopology DEF DeploymentInv, RtInv, RtType
<1>2. PICK j \in 1..Len(s) : a \in s[j].locks
  BY DEF Held
<1>3. /\ Chain(topo, s) /\ \A k \in 1..Len(s) : s[k].origin = th
      /\ WellCalled(th) /\ WellWanted(th)
  BY <1>1, ThreadChained DEF DeploymentInv, RtInv
<1>4. /\ s[j].locks = {topo.owner[s[j].port]} /\ s[j].port \in GuardedEntries(topo)
      /\ \A k \in j..Len(s) : <<s[k].handler, Locks(s, j, k)>> \in LockStates(topo, s[j].port)
  BY <1>2, <1>3 DEF Chain
<1>5. Len(s) \in j..Len(s) /\ j \in j..Len(s) /\ Len(s) > 0
  BY <1>1
<1>6. s[j].port \in InPort
  BY <1>4 DEF GuardedEntries
<1>7. th \in labels[s[j].port]
  <2>1. Serves(topo, th, s[j].port, {s[j].handler})
    BY <1>3 DEF WellCalled
  <2>2. QED
    BY <1>1, <1>6, <2>1, ServesLabel
<1>8. a \in Locks(s, j, Len(s))
  BY <1>2, <1>5 DEF Locks
<1>9. p \in GuardedCalls(topo, <<s[Len(s)].handler, Locks(s, j, Len(s))>>)
  <2>1. [port |-> p, kind |-> "guarded"] \in ThreadHops(topo, s[Len(s)].handler)
    BY <1>3, <1>5 DEF WellWanted, Running, Depth
  <2>2. QED
    BY <2>1 DEF GuardedCalls
<1>10. <<s[Len(s)].handler, Locks(s, j, Len(s))>> \in LockStates(topo, s[j].port)
  BY <1>4, <1>5
<1>11. s[j].locks = {a} /\ topo.owner[s[j].port] = a
  BY <1>2, <1>4
<1>12. QED
  BY <1>4, <1>7, <1>8, <1>9, <1>10, <1>11

\* A thread that holds one mutex and asks for another nests them, on some chain of
\* calls from the guarded port at which it took the first.
LEMMA NestingReal ==
  ASSUME DeploymentInv, NoQueued, NEW th \in Origin, NEW a \in Held(th), NEW p \in wants[th],
         topo.owner[p] # a
  PROVE  a \in Instance /\ topo.owner[p] \in Instance /\ th \in Nested(topo)[<<a, topo.owner[p]>>]
<1> DEFINE s == stack[th]
           b == topo.owner[p]
<1>1. topo \in Topology /\ labels = ThreadsAt(topo) /\ s \in Seq(Calls) /\ Len(s) \in Nat
  BY DeploymentTopology DEF DeploymentInv, RtInv, RtType
<1>2. PICK j \in 1..Len(s) :
        /\ s[j].locks = {a} /\ topo.owner[s[j].port] = a
        /\ s[j].port \in GuardedEntries(topo) /\ th \in labels[s[j].port]
        /\ LET c == <<s[Len(s)].handler, Locks(s, j, Len(s))>>
           IN  c \in LockStates(topo, s[j].port) /\ a \in c[2] /\ p \in GuardedCalls(topo, c)
  BY HeldSince
<1>3. a \in Instance /\ b \in Instance
  <2>1. p \in InPort /\ s[j].port \in InPort
    BY <1>2 DEF GuardedEntries, DeploymentInv, RtInv, RtType
  <2>2. QED
    BY <1>1, <1>2, <2>1 DEF Topology, Handler
<1>4. \E c \in LockStates(topo, s[j].port) : a \in c[2] /\ b \notin c[2]
        /\ \E q \in GuardedCalls(topo, c) : topo.owner[q] = b
  <2>1. CASE b \notin Locks(s, j, Len(s))
    <3>1. PICK c : c = <<s[Len(s)].handler, Locks(s, j, Len(s))>>
      OBVIOUS
    <3>2. c \in LockStates(topo, s[j].port) /\ a \in c[2] /\ b \notin c[2] /\ p \in GuardedCalls(topo, c)
      BY <1>2, <2>1, <3>1
    <3>3. QED
      BY <3>2
  <2>2. CASE b \in Locks(s, j, Len(s))
    <3>1. PICK n \in j..Len(s) : b \in s[n].locks
      BY <2>2 DEF Locks
    <3>2. n # j
      BY <1>2, <3>1
    <3>3. /\ n \in 1..Len(s) /\ n > 1 /\ n - 1 \in j..Len(s) /\ j \in j..(n - 1)
          /\ j..(n - 1) \subseteq 1..(n - 1)
      BY <1>1, <3>2
    <3>4. Chain(topo, s)
      BY <1>1, ThreadChained DEF DeploymentInv
    <3>5. /\ s[n].locks = {topo.owner[s[n].port]} /\ topo.owner[s[n].port] \notin Locks(s, 1, n - 1)
          /\ s[n].port \in GuardedCalls(topo, <<s[n - 1].handler, {}>>)
      BY <3>1, <3>3, <3>4 DEF Chain
    <3>6. topo.owner[s[n].port] = b
      BY <3>1, <3>5
    <3>7. <<s[n - 1].handler, Locks(s, j, n - 1)>> \in LockStates(topo, s[j].port)
      BY <1>2, <3>3, <3>4 DEF Chain
    <3>8. a \in Locks(s, j, n - 1) /\ b \notin Locks(s, j, n - 1)
      BY <1>2, <3>3, <3>5, <3>6 DEF Locks
    <3>9. PICK c : c = <<s[n - 1].handler, Locks(s, j, n - 1)>>
      OBVIOUS
    <3>10. /\ c \in LockStates(topo, s[j].port) /\ a \in c[2] /\ b \notin c[2]
           /\ s[n].port \in GuardedCalls(topo, c)
      BY <3>5, <3>7, <3>8, <3>9 DEF GuardedCalls
    <3>11. QED
      BY <3>6, <3>10
  <2>3. QED
    BY <2>1, <2>2
<1>5. th \in ThreadsAt(topo)[s[j].port]
  BY <1>1, <1>2
<1>6. th \in Nested(topo)[<<a, b>>]
  BY <1>1, <1>2, <1>3, <1>4, <1>5, NestedDef
<1>7. QED
  BY <1>3, <1>6

\* NestingPredicted always holds (guarded_port_analyzer.py:182-243): without queued
\* instances, whatever a thread holds while it asks for another mutex is an edge of
\* the lock-order graph with that thread on it, or suppressed; the markers of the
\* walk, which forget the order in which locks were taken, lose none of them.
THEOREM NestingPredictedHolds == DeploymentSpec => []NestingPredicted
<1>1. DeploymentInv => NestingPredicted
  <2> SUFFICES ASSUME DeploymentInv, Trusted, NoQueued, NEW th \in Threads,
                      NEW a \in Held(th), NEW b \in Wanted(th), a # b
               PROVE  th \in lockEdges[<<a, b>>] \/ <<a, b>> \in options.suppressions
    BY DEF NestingPredicted
  <2>1. th \in Origin
    BY ThreadsAreOrigins
  <2>2. PICK p \in wants[th] : b = topo.owner[p]
    BY DEF Wanted
  <2>3. a \in Instance /\ b \in Instance /\ th \in Nested(topo)[<<a, b>>]
    BY <2>1, <2>2, NestingReal
  <2>4. CompleteInv /\ Built /\ ~refused /\ ~truncated
    BY DEF DeploymentInv, Trusted
  <2>5. NestedNow[<<a, b>>] \subseteq lockEdges[<<a, b>>]
    BY <2>3, <2>4, NestingsFound
  <2>6. ToReport(<<a, b>>) => th \in NestedNow[<<a, b>>]
    BY <2>3, <2>4 DEF NestedNow, CompleteInv, RealInv, InputExact
  <2>7. QED
    BY <2>5, <2>6 DEF ToReport
<1>2. QED
  BY <1>1, DeploymentAlways, PTL

\* SelfDeadlockPredicted always holds (guarded_port_analyzer.py:182-243): without
\* queued instances, a thread that asks for a mutex it holds, at any depth, was
\* reported as a self-deadlock of that instance.
THEOREM SelfDeadlockPredictedHolds == DeploymentSpec => []SelfDeadlockPredicted
<1>1. DeploymentInv => SelfDeadlockPredicted
  <2> SUFFICES ASSUME DeploymentInv, Trusted, NoQueued, NEW th \in Threads,
                      NEW i \in Held(th), i \in Wanted(th)
               PROVE  th \in selfLocks[i] \/ <<i, i>> \in options.suppressions
    BY DEF SelfDeadlockPredicted
  <2>1. th \in Origin
    BY ThreadsAreOrigins
  <2>2. PICK p \in wants[th] : i = topo.owner[p]
    BY DEF Wanted
  <2>3. PICK j \in 1..Len(stack[th]) :
          /\ topo.owner[stack[th][j].port] = i
          /\ stack[th][j].port \in GuardedEntries(topo)
          /\ th \in labels[stack[th][j].port]
          /\ LET c == <<stack[th][Len(stack[th])].handler, Locks(stack[th], j, Len(stack[th]))>>
             IN  /\ c \in LockStates(topo, stack[th][j].port)
                 /\ i \in c[2] /\ p \in GuardedCalls(topo, c)
    BY <2>1, HeldSince
  <2>4. topo \in Topology /\ labels = ThreadsAt(topo)
    BY DeploymentTopology
  <2>5. i \in Instance
    BY <2>3, <2>4 DEF Topology, Handler, GuardedEntries
  <2>6. PICK c : c = <<stack[th][Len(stack[th])].handler, Locks(stack[th], j, Len(stack[th]))>>
    OBVIOUS
  <2>7. c \in LockStates(topo, stack[th][j].port) /\ i \in c[2] /\ p \in GuardedCalls(topo, c)
    BY <2>3, <2>6
  <2>8. th \in Reentered(topo)[i]
    BY <2>2, <2>3, <2>4, <2>5, <2>7, ReenteredDef
  <2>9. CompleteInv /\ Built /\ ~refused /\ ~truncated
    BY DEF DeploymentInv, Trusted
  <2>10. ReenteredNow[i] \subseteq selfLocks[i]
    BY <2>5, <2>9, ReentriesFound
  <2>11. ToReport(<<i, i>>) => th \in ReenteredNow[i]
    BY <2>5, <2>8, <2>9 DEF ReenteredNow, CompleteInv, RealInv, InputExact
  <2>12. QED
    BY <2>10, <2>11 DEF ToReport
<1>2. QED
  BY <1>1, DeploymentAlways, PTL

\* In a circle of more than one thread every thread blocks another one, and none
\* blocks itself.
LEMMA CircleTurns ==
  ASSUME NEW C, CircularWait(C), Cardinality(C) > 1
  PROVE  \A th \in C : th \notin Blockers(th) /\ \E u \in C : th \in Blockers(u)
<1> DEFINE D == UNION {Blockers(th) : th \in C}
<1>1. D \subseteq C /\ D # {} /\ \A th \in D : Blockers(th) \cap D # {}
  BY DEF CircularWait
<1>2. D = C
  BY <1>1 DEF CircularWait
<1>3. ASSUME NEW th \in C, th \in Blockers(th) PROVE FALSE
  <2>1. Cardinality({th}) = 1
    BY FS_Singleton
  <2>2. {th} # C
    BY <2>1
  <2>3. {th} \subseteq C /\ {th} # {}
    OBVIOUS
  <2>4. {th} \in (SUBSET C) \ {{}, C}
    BY <2>2, <2>3
  <2>5. QED
    BY <1>3, <2>4 DEF CircularWait
<1>4. QED
  BY <1>2, <1>3

\* CircularWaitPredicted always holds (guarded_port_analyzer.py, _classify_cycle):
\* active threads that block each other in a circle, however many, do so along edges
\* of the lock-order graph that are classified as an ABBA error, or suppressed.
THEOREM CircularWaitPredictedHolds == DeploymentSpec => []CircularWaitPredicted
<1>1. DeploymentInv /\ NestingPredicted => CircularWaitPredicted
  <2> SUFFICES ASSUME DeploymentInv, NestingPredicted, Trusted, NoQueued,
                      NEW C \in SUBSET ActiveThreads, Cardinality(C) > 1, CircularWait(C),
                      WaitEdges(C) \cap options.suppressions = {}
               PROVE  /\ \A e \in WaitEdges(C) : lockEdges[e] # {}
                      /\ DistinctPossible(lockEdges, WaitEdges(C), {"thread"} \X Instance)
    BY DEF CircularWaitPredicted
  <2>1. C \subseteq Threads /\ C \subseteq {"thread"} \X Instance
    BY DEF Threads, ActiveThreads
  <2>2. ASSUME NEW th \in C, NEW a \in Held(th), NEW b \in Wanted(th), NEW u \in C,
               a \in Wanted(u)
        PROVE  <<a, b>> \in WaitEdges(C) /\ th \in lockEdges[<<a, b>>]
    <3>1. <<a, b>> \in WaitEdges(C)
      BY <2>2 DEF WaitEdges
    <3>2. a # b
      <4>1. th \notin Blockers(th)
        BY CircleTurns
      <4>2. QED
        BY <2>1, <4>1 DEF Blockers
    <3>3. QED
      BY <2>1, <3>1, <3>2 DEF NestingPredicted
  <2>3. \A e \in WaitEdges(C) : lockEdges[e] # {}
    <3> SUFFICES ASSUME NEW e \in WaitEdges(C) PROVE lockEdges[e] # {}
      OBVIOUS
    <3>1. \E th \in C : \E a \in Held(th), u \in C, b \in Wanted(th) :
            a \in Wanted(u) /\ e = <<a, b>>
      BY DEF WaitEdges
    <3>2. QED
      BY <2>2, <3>1
  <2>5. DistinctPossible(lockEdges, WaitEdges(C), {"thread"} \X Instance)
    <3>1. PICK th \in C : TRUE
      BY DEF CircularWait
    <3>2. PICK u \in C : u \in Blockers(th)
      BY <3>1 DEF CircularWait
    <3>3. PICK v \in C : th \in Blockers(v)
      BY <3>1, CircleTurns
    <3>4. PICK a \in Held(th) : a \in Wanted(v)
      BY <3>3 DEF Blockers
    <3>5. PICK b \in Wanted(th) : b \in Held(u)
      BY <3>2 DEF Blockers
    <3>6. u # th /\ u \notin Blockers(u) /\ Blockers(u) # {}
      BY <3>1, <3>2, CircleTurns DEF CircularWait
    <3>7. PICK c \in Wanted(u) : c # b
      BY <2>1, <3>5, <3>6 DEF Blockers
    <3>8. <<a, b>> \in WaitEdges(C) /\ th \in lockEdges[<<a, b>>]
      BY <2>2, <3>1, <3>3, <3>4, <3>5
    <3>9. <<b, c>> \in WaitEdges(C) /\ u \in lockEdges[<<b, c>>]
      BY <2>2, <3>1, <3>2, <3>5, <3>7
    <3>10. <<a, b>> # <<b, c>> /\ th \in {"thread"} \X Instance /\ u \in {"thread"} \X Instance
      BY <2>1, <3>7
    <3>11. QED
      BY <3>6, <3>8, <3>9, <3>10 DEF DistinctPossible
  <2>6. QED
    BY <2>3, <2>5
<1>2. QED
  BY <1>1, DeploymentAlways, NestingPredictedHolds, PTL
=============================================================================
