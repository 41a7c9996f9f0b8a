----------------------------- MODULE RateGroups -----------------------------
(***************************************************************************)
(* Rate inference (rate_groups.py): the frequency of each rate group from  *)
(* the divisors of its driver, then one invocation per tick propagated     *)
(* from every member connection through the handlers it runs, by a         *)
(* worklist, whose order is left open.  The async queue analyzer runs it   *)
(* before it looks at the queues.  What the scan of the deployment's C++   *)
(* finds (_CppRateConfig) is given; C++ names are those of the instances.  *)
(***************************************************************************)
EXTENDS TopologyGraph, Sequences, Integers, FiniteSetsExt

CONSTANTS
  DividerSet,  \* names of sets of divisors
  Facts,   \* attributes of the model; .rates is a RateFact
  None     \* not declared, not known

Optional(S) == S \cup {None}

RateFact ==
  [ drivers  : SUBSET Instance,                  \* RateGroupDriver instances
    groups   : SUBSET Instance,                  \* Active- and PassiveRateGroup
    timerHz  : [Instance -> Optional(Nat)],      \* timers with a known interval
    baseHz   : SUBSET Nat,                       \* the intervals rate groups start with
    dividers : [DividerSet -> Optional(Seq(Int))],
    uses     : [Instance -> Optional(DividerSet)],  \* what a driver is configured with
    cycleIn  : SUBSET InPort,                    \* ports of that name
    index    : [OutPort -> Optional(Nat)],       \* the index of a CycleOut endpoint
    member   : SUBSET OutPort,                   \* RateGroupMemberOut endpoints
    drains   : SUBSET InPort ]                   \* ports named run or schedIn

ASSUME RateGroupsAssumption ==
  /\ \A f \in Facts : f.rates \in RateFact
  /\ None \notin Nat \cup Instance \cup OutPort \cup DividerSet \cup Seq(Int)

VARIABLES
  facts,        \* the input besides topo, never written
  groupHz,      \* rate_groups
  work,         \* the invocations to propagate
  seen,         \* the handlers expanded for a root
  reached,      \* entry_contributions: (root, input port)
  offered,      \* output_contributions: (root, output port)
  produced,     \* production_rate_hz
  consumed,     \* consumption_rate_hz
  status

propagationVars == <<work, seen, reached, offered>>
rateVars == <<groupHz, propagationVars, produced, consumed>>

RateInit ==
  /\ topo \in Topologies
  /\ facts \in Facts
  /\ groupHz = [i \in Instance |-> None]
  /\ work = {} /\ seen = {} /\ reached = {} /\ offered = {}
  /\ produced = [o \in OutPort |-> None]
  /\ consumed = [i \in Instance |-> None]
  /\ status = "inferring"

Known(f) == {x \in DOMAIN f : f[x] # None}
TheOnly(S) == IF Cardinality(S) = 1 THEN CHOOSE x \in S : TRUE ELSE None

\* _driver_base_hz: a timer that drives the driver, or the only base there is.
Timers(driver) ==
  {topo.owner[o] : o \in {x \in OutPort :
     \E p \in topo.wires[x] \cap facts.rates.cycleIn : topo.owner[p] = driver}}
DriverBaseHz(driver) ==
  LET timers == Timers(driver) \cap Known(facts.rates.timerHz)
  IN  IF timers # {} THEN facts.rates.timerHz[CHOOSE i \in timers : TRUE]
      ELSE TheOnly(facts.rates.baseHz)

\* _driver_divisors: the set the driver is configured with, or the only set.
DriverDivisors(driver) ==
  LET used == {facts.rates.uses[driver]} \cap Known(facts.rates.dividers)
      divisors == TheOnly(IF used # {} THEN used ELSE Known(facts.rates.dividers))
  IN  IF divisors = None THEN None ELSE facts.rates.dividers[divisors]

\* A driver endpoint whose index has a positive divisor, and the rate it gives:
\* rates are counted in a unit that the divisors divide, where the code divides reals.
Ticks(o) ==
  LET index == facts.rates.index[o] divisors == DriverDivisors(topo.owner[o])
  IN  /\ topo.owner[o] \in facts.rates.drivers
      /\ None \notin {DriverBaseHz(topo.owner[o]), divisors, index}
      /\ index < Len(divisors) /\ divisors[index + 1] > 0
TickHz(o) ==
  DriverBaseHz(topo.owner[o]) \div DriverDivisors(topo.owner[o])[facts.rates.index[o] + 1]

\* The endpoints that tick a group; of several, the last connection decides.
Drivers(g) == {o \in OutPort : Ticks(o) /\ \E p \in topo.wires[o] : topo.owner[p] = g}
GroupTicks == UNION {Drivers(g) : g \in facts.rates.groups}

\* The member endpoints of the groups with a rate: what the ticks start from.
Roots == {o \in facts.rates.member : groupHz[topo.owner[o]] # None}
RootHz(root) == groupHz[topo.owner[root]]

Invocation(root, p) == {[root |-> root, port |-> p, kind |-> k] : k \in InputSyncKinds(topo, p)}

\* The loop over the drivers.
InferGroups ==
  /\ status = "inferring"
  /\ \E hz \in [facts.rates.groups -> Optional({TickHz(o) : o \in GroupTicks})] :
       /\ \A g \in DOMAIN hz :
            IF Drivers(g) = {} THEN hz[g] = None ELSE hz[g] \in {TickHz(o) : o \in Drivers(g)}
       /\ groupHz' = [i \in Instance |-> IF i \in DOMAIN hz THEN hz[i] ELSE None]
  /\ status' = "rooting"
  /\ UNCHANGED <<topo, facts, propagationVars, produced, consumed>>

\* Every member is invoked, whatever its kind.
StartPropagation ==
  /\ status = "rooting"
  /\ work' = UNION {UNION {Invocation(o, p) : p \in topo.wires[o]} : o \in Roots}
  /\ status' = "propagating"
  /\ UNCHANGED <<topo, facts, groupHz, seen, reached, offered, produced, consumed>>

\* Mutant: a handler is expanded for one root only.
MarkerOfHandler(item, h) == <<None, h, item.kind>>

Marker(item, h) == <<item.root, h, item.kind>>

\* What an invocation goes on to: what its handlers offer, and whom they call.
Fresh(item) == {h \in FlowEntries(topo, item.port, item.kind) : Marker(item, h) \notin seen}
Outputs(item) == UNION {OutputsFor(topo, h) : h \in Fresh(item)}
Onward(item) ==
  {x \in UNION {UNION {Invocation(item.root, p) : p \in topo.wires[o]} : o \in Outputs(item)} :
     x.kind # "async"}

\* One turn of the worklist.
Propagate(item) ==
  /\ status = "propagating" /\ item \in work
  /\ \A h \in Fresh(item) : ~Unresolved(topo, h)
  /\ reached' = reached \cup {<<item.root, item.port>>}
  /\ seen' = seen \cup {Marker(item, h) : h \in Fresh(item)}
  /\ offered' = offered \cup ({item.root} \X Outputs(item))
  /\ work' = (work \ {item}) \cup Onward(item)
  /\ UNCHANGED <<topo, facts, groupHz, produced, consumed, status>>

RefuseRates ==
  /\ status = "propagating"
  /\ \E item \in work : \E h \in Fresh(item) : Unresolved(topo, h)
  /\ status' = "refused"
  /\ UNCHANGED <<topo, facts, rateVars>>

\* A root counts once in a sum, however many ways lead from it.
SumHz(roots) == IF roots = {} THEN None ELSE SumFunction([r \in roots |-> RootHz(r)])

\* The endpoints of drivers and groups have the rates of their own index; a queued
\* instance is drained at the rates of its scheduling ports.
FinishRates ==
  /\ status = "propagating" /\ work = {}
  /\ produced' =
       [o \in OutPort |->
          IF o \in Roots THEN RootHz(o)
          ELSE IF o \in GroupTicks THEN TickHz(o)
          ELSE SumHz({r \in Roots : <<r, o>> \in offered})]
  /\ consumed' =
       [i \in Instance |->
          LET entries == {c \in reached : topo.owner[c[2]] = i /\ c[2] \in facts.rates.drains}
          IN  IF topo.component[i] # "queued" \/ entries = {} THEN None
              ELSE SumFunction([c \in entries |-> RootHz(c[1])])]
  /\ work' = {} /\ seen' = {} /\ reached' = {} /\ offered' = {}
  /\ status' = "analyzing"
  /\ UNCHANGED <<topo, facts, groupHz>>

RatesNext ==
  \/ InferGroups \/ StartPropagation \/ RefuseRates \/ FinishRates
  \/ \E item \in work : Propagate(item)

-----------------------------------------------------------------------------
(* The rates, stated without the worklist. *)

\* The handlers one tick of a root runs.
TickHandlers(root) ==
  LET members == UNION {UNION {FlowEntries(topo, p, k) : k \in InputSyncKinds(topo, p)} :
                          p \in topo.wires[root]}
  IN  ReachedByCalls(topo, members)

\* How often an output is invoked: once per tick of every root that reaches it.
TickRate(o) ==
  IF o \in Roots THEN RootHz(o)
  ELSE IF o \in GroupTicks THEN TickHz(o)
  ELSE SumHz({r \in Roots : \E h \in TickHandlers(r) : o \in OutputsFor(topo, h)})
=============================================================================
