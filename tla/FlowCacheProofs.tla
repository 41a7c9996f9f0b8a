--------------------------- MODULE FlowCacheProofs ---------------------------
(***************************************************************************)
(* Proofs about the caches of the flow extraction, for every number of     *)
(* processes, units, headers and changes: types; and, where files change   *)
(* only between extractions, that what the caches hold is right for every  *)
(* state of the files their stamps match, and that the extractor keeps the *)
(* promise of ExtractedFlow.                                               *)
(***************************************************************************)
EXTENDS FlowCache, FiniteSetTheorems, WellFoundedInduction, TLAPS

-----------------------------------------------------------------------------
(* Databases, and the first of some places. *)

\* A database lists entries at consecutive places.
LEMMA DatabaseType ==
  ASSUME NEW db \in Databases
  PROVE  /\ DOMAIN db = 1..Len(db) /\ Len(db) \in Nat
         /\ db = [i \in DOMAIN db |-> db[i]]
         /\ \A i \in DOMAIN db : db[i] \in Range(db) /\ db[i] \in Entry /\ db[i].source \in Source
<1>1. db \in Seq(Range(db)) /\ \A e \in Range(db) : e.source \in Source
  BY SourceTreeAssumption
<1>2. \A i \in DOMAIN db : db[i] \in Range(db)
  BY DEF Range
<1>3. Range(db) \subseteq Entry
  BY DEF Entry
<1>4. DOMAIN db = 1..Len(db) /\ Len(db) \in Nat /\ db = [i \in DOMAIN db |-> db[i]]
  BY <1>1
<1>5. QED
  BY <1>1, <1>2, <1>3, <1>4

\* Some places, if any, have a first.
LEMMA FirstPlace ==
  ASSUME NEW P \in Places, NEW S \in SUBSET P, S # {}
  PROVE  LET i == CHOOSE k \in S : \A j \in S : k <= j
         IN  i \in S /\ \A j \in S : i <= j
<1> DEFINE Upto(i) == {j \in S : j <= i}
           T == {Upto(i) : i \in S}
<1>1. PICK db \in Databases : P \subseteq DOMAIN db
  BY DEF Places
<1>2. Len(db) \in Nat /\ S \subseteq 1..Len(db)
  BY <1>1, DatabaseType
<1>3. IsFiniteSet(S) /\ \A i \in S : i \in Int
  <2>1. 1 \in Int /\ Len(db) \in Int
    BY <1>2
  <2>2. IsFiniteSet(1..Len(db))
    BY <2>1, FS_Interval
  <2>3. IsFiniteSet(S)
    BY ONLY <1>2, <2>2, FS_Subset
  <2>4. \A i \in 1..Len(db) : i \in Int
    OBVIOUS
  <2>5. QED
    BY <1>2, <2>3, <2>4
<1>4. T \subseteq FiniteSubsetsOf(S) /\ T # {}
  <2>1. ASSUME NEW i \in S PROVE Upto(i) \in FiniteSubsetsOf(S)
    <3>1. Upto(i) \subseteq S
      OBVIOUS
    <3>2. IsFiniteSet(Upto(i))
      BY <1>3, <3>1, FS_Subset
    <3>3. QED
      BY <3>1, <3>2 DEF FiniteSubsetsOf
  <2>2. QED
    BY <2>1
<1>5. PICK X \in T : \A Y \in T : <<Y, X>> \notin StrictSubsetOrdering(S)
  BY ONLY <1>3, <1>4, FS_StrictSubsetOrderingWellFounded, WFMin
<1>6. PICK m \in S : X = Upto(m)
  OBVIOUS
<1>7. ASSUME NEW i \in S, ~(m <= i) PROVE FALSE
  <2>1. \A j \in S : j <= i => j <= m
    BY <1>3, <1>7
  <2>2. m \in Upto(m) /\ m \notin Upto(i) /\ Upto(i) \subseteq Upto(m)
    BY <1>3, <1>7, <2>1
  <2>3. <<Upto(i), Upto(m)>> \in StrictSubsetOrdering(S)
    BY <2>2 DEF StrictSubsetOrdering
  <2>4. QED
    BY <1>5, <1>6, <2>3
<1>8. QED
  BY <1>7

-----------------------------------------------------------------------------
(* Types. *)

\* The unit staged and committed is the first not yet consumed.
FirstUnsaved(r) == CHOOSE k \in unsaved[r] : \A j \in unsaved[r] : k <= j

\* What holds of one extraction's variables at any time.
RunType(r) ==
  /\ pc[r] \in {"idle", "flow", "units", "commit"}
  /\ DOMAIN units[r] \in Places
  /\ \A i \in DOMAIN units[r] : units[r][i] \in Entry
  /\ notGenerated[r] \subseteq Source
  /\ results[r] \in [DOMAIN units[r] -> {Unread, Pending} \cup UnitResult]
  /\ unsaved[r] \subseteq DOMAIN units[r]
  /\ \A i \in DOMAIN units[r] : results[r][i] = Pending => i \in unsaved[r]
  /\ pc[r] \in {"idle", "flow"} => unsaved[r] = {} /\ staged[r] = NoEntry
  /\ pc[r] = "units" /\ staged[r] # NoEntry =>
       /\ unsaved[r] # {}
       /\ staged[r].result \in UnitResult
       /\ staged[r].result = results[r][FirstUnsaved(r)]
       /\ \A i \in DOMAIN units[r] : results[r][i] # Unread
  /\ pc[r] = "commit" => staged[r].database \in Databases

\* The per-process variables as functions, and the files and the counters.
Shape ==
  /\ pc \in [Run -> {"idle", "flow", "units", "commit"}] /\ DOMAIN units = Run /\ DOMAIN notGenerated = Run /\ DOMAIN results = Run
  /\ DOMAIN unsaved = Run /\ DOMAIN staged = Run /\ answer = [r \in Run |-> answer[r]]
  /\ DOMAIN unitCache = Source
  /\ disk \in [File -> Version] /\ database \in Databases
  /\ \A u \in Source : unitCache[u] # NoEntry =>
       unitCache[u].result \in UnitResult /\ unitCache[u].result.source = u
  /\ flowCache # NoEntry => flowCache.database \in Databases
  /\ changes \in 0..MaxChanges /\ started \in 0..MaxRuns /\ failures \in 0..MaxFailures

TypeInv == Shape /\ \A r \in Run : RunType(r)

\* It has all that TypeOK says.
LEMMA TypeInvSuffices == TypeInv => TypeOK
<1> SUFFICES ASSUME TypeInv PROVE TypeOK
  OBVIOUS
<1>1. pc \in [Run -> {"idle", "flow", "units", "commit"}]
  BY DEF TypeInv, Shape
<1>2. ASSUME NEW r \in Run
      PROVE  /\ DOMAIN results[r] = DOMAIN units[r]
             /\ \A i \in DOMAIN results[r] : results[r][i] \in {Unread, Pending} \cup UnitResult
             /\ unsaved[r] \subseteq DOMAIN results[r]
             /\ staged[r] # NoEntry => unsaved[r] # {} \/ pc[r] = "commit"
  BY DEF TypeInv, RunType
<1>3. QED
  BY <1>1, <1>2 DEF TypeInv, Shape, TypeOK

\* Parsing an entry gives a result of its unit.
LEMMA ParseType ==
  ASSUME NEW entry \in Entry, NEW d \in [File -> Version], NEW fails \in BOOLEAN
  PROVE  /\ ParseUnit(entry, d, fails) \in UnitResult
         /\ ParseUnit(entry, d, fails).source = entry.source
         /\ entry.source \in Source
<1>1. entry.source \in Source
  BY DatabaseType, SourceTreeAssumption DEF Entry
<1>2. Includes[entry.source] \subseteq Header /\ Generated \subseteq Header
  BY <1>1, SourceTreeAssumption
<1> DEFINE loaded == ~fails /\ Exists(d, entry.source)
           absent == {h \in Includes[entry.source] : ~Exists(d, h)}
           read == {entry.source} \cup IF loaded THEN Includes[entry.source] \ absent ELSE {}
<1>3. read \in SUBSET File
  BY <1>1, <1>2 DEF File
<1>4. [f \in read |-> d[f]] \in [read -> Version]
  BY <1>3
<1>5. [f \in read |-> d[f]] \in UNION {[S -> Version] : S \in SUBSET File}
  BY <1>3, <1>4
<1>6. /\ entry.args \in {e.args : e \in Entry}
      /\ (IF loaded THEN absent \cap Generated ELSE {}) \in SUBSET Generated
      /\ (loaded /\ absent # {} /\ absent \cap Generated = {}) \in BOOLEAN
      /\ (~loaded) \in BOOLEAN
  OBVIOUS
<1>7. ParseUnit(entry, d, fails) =
        [source |-> entry.source, args |-> entry.args, read |-> [f \in read |-> d[f]],
         failed |-> ~loaded, missing |-> IF loaded THEN absent \cap Generated ELSE {},
         diagnosed |-> loaded /\ absent # {} /\ absent \cap Generated = {}]
  BY DEF ParseUnit
<1>8. ParseUnit(entry, d, fails) \in UnitResult
  BY <1>1, <1>5, <1>6, <1>7 DEF UnitResult
<1>9. QED
  BY <1>1, <1>7, <1>8

\* Nothing runs at first.
LEMMA InitTypes == Init => TypeInv
<1> SUFFICES ASSUME Init PROVE TypeInv
  OBVIOUS
<1>1. 0 \in Version /\ {MaxChanges, MaxRuns, MaxFailures} \subseteq Nat
  BY FlowCacheAssumption DEF Version
<1>2. {} \in Places
  BY DEF Init, Places
<1>3. Shape
  BY <1>1 DEF Init, Shape
<1>4. ASSUME NEW r \in Run PROVE RunType(r)
  <2>1. DOMAIN units[r] = {} /\ results[r] = <<>> /\ units[r] = <<>>
    BY DEF Init
  <2>2. results[r] \in [{} -> {Unread, Pending} \cup UnitResult]
    BY <2>1
  <2>3. QED
    BY <1>2, <2>1, <2>2 DEF Init, RunType
<1>5. QED
  BY <1>3, <1>4 DEF TypeInv

\* What the units loaded are: places of the database whose source is there.
LEMMA LoadedType ==
  ASSUME NEW db \in Databases, NEW d
  PROVE  /\ DOMAIN LoadedUnits(db, d) = {i \in DOMAIN db : Exists(d, db[i].source)}
         /\ DOMAIN LoadedUnits(db, d) \in Places
         /\ \A i \in DOMAIN LoadedUnits(db, d) :
              LoadedUnits(db, d)[i] = db[i] /\ LoadedUnits(db, d)[i] \in Entry
         /\ NotGenerated(db, d) \subseteq Source
<1>1. /\ DOMAIN LoadedUnits(db, d) = {i \in DOMAIN db : Exists(d, db[i].source)}
      /\ \A i \in DOMAIN LoadedUnits(db, d) : LoadedUnits(db, d)[i] = db[i]
  BY DEF LoadedUnits, Restrict
<1>2. DOMAIN LoadedUnits(db, d) \in Places
  BY <1>1 DEF Places
<1>3. NotGenerated(db, d) \subseteq Source
  BY SourceTreeAssumption DEF NotGenerated
<1>4. QED
  BY <1>1, <1>2, <1>3, DatabaseType

\* Nothing of an extraction changed.
Same(q) ==
  /\ pc'[q] = pc[q] /\ units'[q] = units[q] /\ notGenerated'[q] = notGenerated[q]
  /\ results'[q] = results[q] /\ unsaved'[q] = unsaved[q] /\ staged'[q] = staged[q]
  /\ answer'[q] = answer[q]

\* What one extraction does leaves the variables of the others alone.
LEMMA OthersSame ==
  ASSUME NEW r \in Run, NEW q \in Run, q # r, TypeInv, Load(r) \/ Work(r) \/ Die(r)
  PROVE  Same(q)
<1>1. CASE Load(r)
  BY <1>1 DEF Load, Goto, Same, TypeInv, Shape
<1>2. CASE ReadFlow(r)
  BY <1>2 DEF ReadFlow, Return, EndRun, extractorVars, Goto, Same, TypeInv, Shape
<1>3. CASE ReadUnit(r)
  BY <1>3 DEF ReadUnit, Same, TypeInv, Shape
<1>4. CASE Parse(r)
  BY <1>4 DEF Parse, Same, TypeInv, Shape
<1>5. CASE StageUnit(r)
  BY <1>5 DEF StageUnit, Same, TypeInv, Shape
<1>6. CASE CommitUnit(r)
  BY <1>6 DEF CommitUnit, Same, TypeInv, Shape
<1>7. CASE StageFlow(r)
  BY <1>7 DEF StageFlow, Return, EndRun, Goto, Same, TypeInv, Shape
<1>8. CASE CommitFlow(r)
  BY <1>8 DEF CommitFlow, Return, EndRun, Goto, Same, TypeInv, Shape
<1>9. CASE Die(r)
  BY <1>9 DEF Die, EndRun, Goto, Same, TypeInv, Shape
<1>10. QED
  BY <1>1, <1>2, <1>3, <1>4, <1>5, <1>6, <1>7, <1>8, <1>9 DEF Work

\* One that ended has nothing left.
Ended(r) ==
  /\ pc'[r] = "idle" /\ units'[r] = <<>> /\ notGenerated'[r] = {}
  /\ results'[r] = <<>> /\ unsaved'[r] = {} /\ staged'[r] = NoEntry
  /\ DOMAIN units' = Run /\ DOMAIN notGenerated' = Run /\ DOMAIN results' = Run
  /\ DOMAIN unsaved' = Run /\ DOMAIN staged' = Run
  /\ pc' \in [Run -> {"idle", "flow", "units", "commit"}]

\* EndRun leaves nothing.
LEMMA EndTypes ==
  ASSUME NEW r \in Run, TypeInv, EndRun(r)
  PROVE  Ended(r) /\ RunType(r)'
<1>1. Ended(r)
  BY DEF EndRun, Goto, Ended, TypeInv, Shape
<1>2. {} \in Places
  BY DEF TypeInv, Shape, Places
<1>3. QED
  BY <1>1, <1>2 DEF Ended, RunType

\* There is one as long as not all are consumed.
LEMMA FirstUnsavedIs ==
  ASSUME NEW r \in Run, TypeInv, unsaved[r] # {}
  PROVE  /\ FirstUnsaved(r) \in unsaved[r] /\ FirstUnsaved(r) \in DOMAIN units[r]
         /\ \A j \in unsaved[r] : FirstUnsaved(r) <= j
BY FirstPlace DEF FirstUnsaved, TypeInv, RunType

\* Every step of an extraction keeps its own types.
LEMMA OwnTypes ==
  ASSUME NEW r \in Run, TypeInv, Load(r) \/ Work(r) \/ Die(r)
  PROVE  RunType(r)'
<1>0. RunType(r) /\ Shape
  BY DEF TypeInv
<1>1. CASE Load(r)
  <2>1. /\ units'[r] = LoadedUnits(database, disk)
        /\ notGenerated'[r] = NotGenerated(database, disk)
        /\ results'[r] = [i \in DOMAIN units'[r] |-> Unread]
        /\ unsaved'[r] = {} /\ pc'[r] = "flow" /\ staged'[r] = NoEntry
    BY <1>0, <1>1 DEF Load, Goto, Shape, RunType
  <2>2. \A i \in DOMAIN units'[r] : results'[r][i] # Pending
    BY <2>1, FlowCacheAssumption
  <2>3. PICK loaded : loaded = LoadedUnits(database, disk)
    OBVIOUS
  <2>4. /\ DOMAIN loaded \in Places /\ \A i \in DOMAIN loaded : loaded[i] \in Entry
        /\ NotGenerated(database, disk) \subseteq Source
    BY <1>0, <2>3, LoadedType DEF Shape
  <2>5. results'[r] \in [DOMAIN loaded -> {Unread, Pending} \cup UnitResult]
    BY <2>1, <2>3
  <2>6. QED
    BY <2>1, <2>2, <2>3, <2>4, <2>5 DEF RunType
<1>2. CASE ReadFlow(r)
  <2>1. CASE EndRun(r)
    BY <2>1, EndTypes
  <2>2. CASE ~EndRun(r)
    <3>1. /\ pc'[r] = "units" /\ units'[r] = units[r] /\ notGenerated'[r] = notGenerated[r]
          /\ results'[r] = results[r] /\ unsaved'[r] = unsaved[r] /\ staged'[r] = staged[r]
          /\ pc[r] = "flow"
      BY <1>0, <1>2, <2>2 DEF ReadFlow, Return, extractorVars, Goto, Shape
    <3>2. QED
      BY <1>0, <3>1 DEF RunType
  <2>3. QED
    BY <2>1, <2>2
<1>3. CASE ReadUnit(r)
  <2>1. PICK i \in DOMAIN results[r] :
          /\ results[r][i] = Unread
          /\ \/ /\ UnitAccepted(units[r][i])
                /\ results' = [results EXCEPT ![r][i] = unitCache[units[r][i].source].result]
                /\ unsaved' = unsaved
             \/ /\ results' = [results EXCEPT ![r][i] = Pending]
                /\ unsaved' = [unsaved EXCEPT ![r] = @ \cup {i}]
    BY <1>3 DEF ReadUnit
  <2>2. /\ pc'[r] = pc[r] /\ units'[r] = units[r] /\ notGenerated'[r] = notGenerated[r]
        /\ staged'[r] = staged[r] /\ pc[r] = "units" /\ DOMAIN results = Run
        /\ DOMAIN results[r] = DOMAIN units[r] /\ DOMAIN unsaved = Run
    BY <1>0, <1>3 DEF ReadUnit, Shape, RunType
  <2>6. staged'[r] = NoEntry
    BY <1>0, <2>1, <2>2 DEF RunType
  <2>3. CASE UnitAccepted(units[r][i]) /\ unsaved' = unsaved
              /\ results' = [results EXCEPT ![r][i] = unitCache[units[r][i].source].result]
    <3>1. units[r][i].source \in Source
      BY <1>0, <2>2, DatabaseType, SourceTreeAssumption DEF RunType, Entry
    <3>2. unitCache[units[r][i].source].result \in UnitResult
      BY <1>0, <2>3, <3>1 DEF UnitAccepted, Shape
    <3>3. results'[r] = [results[r] EXCEPT ![i] = unitCache[units[r][i].source].result]
      BY <2>2, <2>3
    <3>4. \A j \in DOMAIN units[r] : results'[r][j] = Pending => results[r][j] = Pending
      BY <2>2, <3>2, <3>3, FlowCacheAssumption
    <3>5. QED
      BY <1>0, <2>2, <2>3, <2>6, <3>2, <3>3, <3>4 DEF RunType
  <2>4. CASE /\ results' = [results EXCEPT ![r][i] = Pending]
             /\ unsaved' = [unsaved EXCEPT ![r] = @ \cup {i}]
    <3>1. /\ results'[r] = [results[r] EXCEPT ![i] = Pending]
          /\ unsaved'[r] = unsaved[r] \cup {i}
      BY <2>2, <2>4
    <3>2. \A j \in DOMAIN units[r] : results'[r][j] = Pending => j \in unsaved'[r]
      BY <1>0, <2>2, <3>1 DEF RunType
    <3>3. QED
      BY <1>0, <2>2, <2>6, <3>1, <3>2 DEF RunType
  <2>5. QED
    BY <2>1, <2>3, <2>4
<1>4. CASE Parse(r)
  <2>1. PICK i \in DOMAIN results[r], fails \in BOOLEAN :
          /\ results[r][i] = Pending
          /\ results' = [results EXCEPT ![r][i] = ParseUnit(units[r][i], disk, fails)]
    BY <1>4 DEF Parse
  <2>2. /\ pc'[r] = pc[r] /\ units'[r] = units[r] /\ notGenerated'[r] = notGenerated[r]
        /\ staged'[r] = staged[r] /\ unsaved'[r] = unsaved[r] /\ pc[r] = "units"
        /\ DOMAIN results = Run /\ DOMAIN results[r] = DOMAIN units[r]
    BY <1>0, <1>4 DEF Parse, Shape, RunType
  <2>3. ParseUnit(units[r][i], disk, fails) \in UnitResult
    BY <1>0, <2>2, ParseType DEF RunType, Shape
  <2>4. results'[r] = [results[r] EXCEPT ![i] = ParseUnit(units[r][i], disk, fails)]
    BY <2>1, <2>2
  <2>5. \A j \in DOMAIN units[r] : results'[r][j] # results[r][j] => results[r][j] = Pending
    BY <2>1, <2>2, <2>4
  <2>6. \A j \in DOMAIN units[r] : results'[r][j] \in UnitResult \/ results'[r][j] = results[r][j]
    BY <2>2, <2>3, <2>4
  <2>7. results'[r] \in [DOMAIN units[r] -> {Unread, Pending} \cup UnitResult]
    BY <1>0, <2>2, <2>3, <2>4 DEF RunType
  <2>8. FirstUnsaved(r)' = FirstUnsaved(r)
    BY <2>2 DEF FirstUnsaved
  <2>9. staged[r] # NoEntry => results'[r][FirstUnsaved(r)] = results[r][FirstUnsaved(r)]
    <3>1. SUFFICES ASSUME staged[r] # NoEntry
                   PROVE  results'[r][FirstUnsaved(r)] = results[r][FirstUnsaved(r)]
      OBVIOUS
    <3>2. FirstUnsaved(r) \in DOMAIN units[r]
      BY <1>0, <2>2, <3>1, FirstUnsavedIs DEF RunType
    <3>3. results[r][FirstUnsaved(r)] # Pending
      BY <1>0, <2>2, <3>1, FlowCacheAssumption DEF RunType
    <3>4. QED
      BY <2>5, <3>2, <3>3
  <2>10. \A j \in DOMAIN units[r] :
           /\ results[r][j] # Unread => results'[r][j] # Unread
           /\ results'[r][j] = Pending => results[r][j] = Pending
    BY <2>5, <2>6, FlowCacheAssumption
  <2>11. QED
    BY <1>0, <2>2, <2>7, <2>8, <2>9, <2>10 DEF RunType
<1>5. CASE StageUnit(r)
  <2>1. /\ pc'[r] = pc[r] /\ units'[r] = units[r] /\ notGenerated'[r] = notGenerated[r]
        /\ results'[r] = results[r] /\ pc[r] = "units" /\ staged[r] = NoEntry
        /\ unsaved[r] # {} /\ DOMAIN staged = Run /\ DOMAIN unsaved = Run
    BY <1>0, <1>5 DEF StageUnit, Shape
  <2>2. FirstUnsaved(r) \in DOMAIN units[r]
    BY <2>1, FirstUnsavedIs
  <2>3. PICK result, stamps :
          /\ result = results[r][FirstUnsaved(r)] /\ result # Pending
          /\ \/ /\ staged' = [staged EXCEPT ![r] = [stamps |-> stamps, result |-> result]]
                /\ unsaved' = unsaved
             \/ /\ unsaved' = [unsaved EXCEPT ![r] = @ \ {FirstUnsaved(r)}]
                /\ staged' = staged
    BY <1>5 DEF StageUnit, FirstUnsaved
  <2>4. result # Unread
    BY <1>0, <1>5, <2>2, <2>3 DEF StageUnit, RunType, Range
  <2>5. result \in UnitResult
    BY <1>0, <2>2, <2>3, <2>4 DEF RunType
  <2>6. CASE /\ staged' = [staged EXCEPT ![r] = [stamps |-> stamps, result |-> result]]
             /\ unsaved' = unsaved
    <3>1. staged'[r].result = result /\ unsaved'[r] = unsaved[r]
      BY <2>1, <2>6
    <3>2. FirstUnsaved(r)' = FirstUnsaved(r)
      BY <3>1 DEF FirstUnsaved
    <3>3. \A i \in DOMAIN units[r] : results[r][i] # Unread
      BY <1>0, <1>5 DEF StageUnit, RunType, Range
    <3>4. QED
      BY <1>0, <2>1, <2>3, <2>5, <3>1, <3>2, <3>3 DEF RunType
  <2>7. CASE /\ unsaved' = [unsaved EXCEPT ![r] = @ \ {FirstUnsaved(r)}]
             /\ staged' = staged
    <3>1. unsaved'[r] = unsaved[r] \ {FirstUnsaved(r)}
      BY <2>1, <2>7
    <3>2. \A i \in DOMAIN units[r] : results[r][i] = Pending => i \in unsaved'[r]
      BY <1>0, <2>3, <3>1 DEF RunType
    <3>3. QED
      BY <1>0, <2>1, <2>7, <3>1, <3>2 DEF RunType
  <2>8. QED
    BY <2>3, <2>6, <2>7
<1>6. CASE CommitUnit(r)
  <2>1. /\ pc'[r] = pc[r] /\ units'[r] = units[r] /\ notGenerated'[r] = notGenerated[r]
        /\ results'[r] = results[r] /\ pc[r] = "units" /\ staged[r] # NoEntry
        /\ staged'[r] = NoEntry /\ unsaved'[r] = unsaved[r] \ {FirstUnsaved(r)}
    BY <1>0, <1>6 DEF CommitUnit, Shape, FirstUnsaved
  <2>2. unsaved[r] # {}
    BY <1>0, <2>1 DEF RunType
  <2>3. FirstUnsaved(r) \in DOMAIN units[r]
    BY <2>2, FirstUnsavedIs
  <2>4. results[r][FirstUnsaved(r)] # Pending
    BY <1>0, <2>1, <2>3, FlowCacheAssumption DEF RunType
  <2>5. QED
    BY <1>0, <2>1, <2>4 DEF RunType
<1>7. CASE StageFlow(r)
  <2>1. CASE EndRun(r)
    BY <2>1, EndTypes
  <2>2. CASE ~EndRun(r)
    <3>1. /\ pc'[r] = "commit" /\ units'[r] = units[r] /\ notGenerated'[r] = notGenerated[r]
          /\ results'[r] = results[r] /\ unsaved'[r] = unsaved[r]
          /\ staged'[r].database = database
      BY <1>0, <1>7, <2>2 DEF StageFlow, Return, Goto, Shape
    <3>2. QED
      BY <1>0, <3>1 DEF RunType, Shape
  <2>3. QED
    BY <2>1, <2>2
<1>8. CASE CommitFlow(r)
  BY <1>8, EndTypes DEF CommitFlow, Return
<1>9. CASE Die(r)
  BY <1>9, EndTypes DEF Die
<1>10. QED
  BY <1>1, <1>2, <1>3, <1>4, <1>5, <1>6, <1>7, <1>8, <1>9 DEF Work

\* So does every step of the environment, which no extraction sees as its own, and
\* every step keeps the types of the files, the caches and the counters.
LEMMA StepTypes == TypeInv /\ [Next]_vars => TypeInv'
<1> SUFFICES ASSUME TypeInv, [Next]_vars PROVE TypeInv'
  OBVIOUS
<1>0. Shape /\ \A r \in Run : RunType(r)
  BY DEF TypeInv
<1>1. CASE UNCHANGED vars
  BY <1>0, <1>1 DEF TypeInv, Shape, RunType, FirstUnsaved, vars, envVars, runVars
<1>2. CASE Change
  <2>1. /\ UNCHANGED runVars /\ UNCHANGED <<unitCache, flowCache, started, failures>>
        /\ changes' = changes + 1 /\ changes < MaxChanges
    BY <1>2 DEF Change
  <2>2. \A r \in Run : RunType(r)'
    BY <1>0, <2>1 DEF RunType, FirstUnsaved, runVars
  <2>3. changes' \in 0..MaxChanges /\ changes' \in Version
    BY <1>0, <2>1, FlowCacheAssumption DEF Shape, Version
  <2>4. Absent \in Version
    BY DEF Version
  <2>5. disk' \in [File -> Version] /\ database' \in Databases
    BY <1>0, <1>2, <2>1, <2>3, <2>4 DEF Change, Shape
  <2>6. Shape'
    BY <1>0, <2>1, <2>3, <2>5 DEF Shape, runVars
  <2>7. QED
    BY <2>2, <2>6 DEF TypeInv
<1>3. ASSUME NEW r \in Run, Load(r) \/ Work(r) \/ Die(r) PROVE TypeInv'
  <2>1. RunType(r)'
    BY <1>3, OwnTypes
  <2>2. ASSUME NEW q \in Run, q # r PROVE RunType(q)'
    <3>1. Same(q)
      BY <1>3, <2>2, OthersSame
    <3>2. QED
      BY <1>0, <3>1 DEF Same, RunType, FirstUnsaved
  <2>3. UNCHANGED <<disk, database, changes>>
    BY <1>3 DEF Load, Work, Die, ReadFlow, ReadUnit, Parse, StageUnit, CommitUnit, StageFlow,
                CommitFlow, envVars
  <2>4. started' \in 0..MaxRuns /\ failures' \in 0..MaxFailures
    <3>1. CASE Load(r)
      BY <1>0, <3>1, FlowCacheAssumption DEF Load, Shape
    <3>2. CASE Parse(r)
      BY <1>0, <3>2, FlowCacheAssumption DEF Parse, Shape
    <3>3. CASE ~Load(r) /\ ~Parse(r)
      BY <1>0, <1>3, <3>3 DEF Work, Die, ReadFlow, ReadUnit, StageUnit, CommitUnit, StageFlow,
                              CommitFlow, Shape
    <3>4. QED
      BY <3>1, <3>2, <3>3
  <2>5. /\ DOMAIN unitCache' = Source
        /\ \A u \in Source : unitCache'[u] # NoEntry =>
             unitCache'[u].result \in UnitResult /\ unitCache'[u].result.source = u
    <3>1. CASE CommitUnit(r)
      <4>1. /\ pc[r] = "units" /\ staged[r] # NoEntry
            /\ unitCache' = [unitCache EXCEPT ![staged[r].result.source] = staged[r]]
        BY <3>1 DEF CommitUnit
      <4>2. staged[r].result \in UnitResult
        BY <1>0, <4>1 DEF RunType
      <4>3. QED
        BY <1>0, <4>1, <4>2 DEF Shape
    <3>2. CASE ~CommitUnit(r)
      <4>1. unitCache' = unitCache
        BY <1>3, <3>2 DEF Load, Work, Die, ReadFlow, ReadUnit, Parse, StageUnit, StageFlow, CommitFlow
      <4>2. QED
        BY <1>0, <4>1 DEF Shape
    <3>3. QED
      BY <3>1, <3>2
  <2>6. flowCache' # NoEntry => flowCache'.database \in Databases
    <3>1. CASE CommitFlow(r)
      BY <1>0, <3>1 DEF CommitFlow, RunType
    <3>2. CASE ~CommitFlow(r)
      <4>1. flowCache' = flowCache
        BY <1>3, <3>2 DEF Load, Work, Die, ReadFlow, ReadUnit, Parse, StageUnit, StageFlow, CommitUnit
      <4>2. QED
        BY <1>0, <4>1 DEF Shape
    <3>3. QED
      BY <3>1, <3>2
  <2>7. /\ pc' \in [Run -> {"idle", "flow", "units", "commit"}]
        /\ DOMAIN units' = Run /\ DOMAIN notGenerated' = Run /\ DOMAIN results' = Run
        /\ DOMAIN unsaved' = Run /\ DOMAIN staged' = Run
    <3>1. CASE EndRun(r)
      BY <3>1, EndTypes DEF Ended
    <3>2. CASE ~EndRun(r)
      BY <1>0, <1>3, <3>2 DEF Shape, Load, Work, Die, ReadFlow, ReadUnit, Parse, StageUnit,
           CommitUnit, StageFlow, CommitFlow, Return, Goto, extractorVars
    <3>3. QED
      BY <3>1, <3>2
  <2>8. answer' = [q \in Run |-> answer'[q]]
    <3>1. answer' = answer \/ \E x : answer' = [answer EXCEPT ![r] = x]
      BY <1>3 DEF Load, Work, Die, ReadFlow, ReadUnit, Parse, StageUnit,
           CommitUnit, StageFlow, CommitFlow, Return
    <3>2. answer = [q \in Run |-> answer[q]]
      BY <1>0 DEF Shape
    <3>3. QED
      BY <3>1, <3>2
  <2>9. Shape'
    BY <1>0, <2>3, <2>4, <2>5, <2>6, <2>7, <2>8 DEF Shape
  <2>10. QED
    BY <2>1, <2>2, <2>9 DEF TypeInv
<1>4. QED
  BY <1>1, <1>2, <1>3 DEF Next

\* TypeInv always holds.
LEMMA TypeInvHolds == Spec => []TypeInv
BY InitTypes, StepTypes, PTL DEF Spec

\* FlowCache.TypeOK, even where files change while extractions run: no result but a
\* unit's own is ever stored for it, and a run holds a temporary file only while it
\* has a unit or the flow to commit.
THEOREM FlowCacheTypes == Spec => []TypeOK
BY TypeInvHolds, TypeInvSuffices, PTL

-----------------------------------------------------------------------------
(* Parsing again. *)

Files == [File -> Version]

On(stamps, d) == \A f \in DOMAIN stamps : d[f] = stamps[f]

\* Two results that add the same to a flow map: a unit with generated headers
\* missing adds its name only.
Alike(x, y) ==
  \/ x = y
  \/ x.source = y.source /\ ~x.failed /\ ~y.failed /\ x.missing # {} /\ y.missing # {}

AbsentIncludes(entry, d) == {h \in Includes[entry.source] : ~Exists(d, h)}

\* What a parse that loads its unit gives, field by field.
LEMMA ParseFields ==
  ASSUME NEW entry, NEW d, Exists(d, entry.source)
  PROVE  ParseUnit(entry, d, FALSE) =
           [source |-> entry.source, args |-> entry.args,
            read |-> [f \in {entry.source} \cup (Includes[entry.source] \ AbsentIncludes(entry, d)) |-> d[f]],
            failed |-> FALSE, missing |-> AbsentIncludes(entry, d) \cap Generated,
            diagnosed |-> /\ AbsentIncludes(entry, d) # {}
                          /\ AbsentIncludes(entry, d) \cap Generated = {}]
BY DEF ParseUnit, AbsentIncludes

\* A parse reads its unit, and files that are there; the stamps are of what it read.
LEMMA ParseReads ==
  ASSUME NEW entry, NEW d, NEW fails \in BOOLEAN
  PROVE  /\ entry.source \in DOMAIN ParseUnit(entry, d, fails).read
         /\ ParseUnit(entry, d, fails).read =
              [f \in DOMAIN ParseUnit(entry, d, fails).read |-> d[f]]
         /\ ParseUnit(entry, d, fails).args = entry.args
         /\ ParseUnit(entry, d, fails).source = entry.source
<1>1. PICK files, l, m, g, a, s :
        /\ entry.source \in files /\ a = entry.args /\ s = entry.source
        /\ ParseUnit(entry, d, fails) =
             [source |-> s, args |-> a, read |-> [f \in files |-> d[f]],
              failed |-> l, missing |-> m, diagnosed |-> g]
  BY DEF ParseUnit
<1>2. PICK p : p = ParseUnit(entry, d, fails)
  OBVIOUS
<1>3. p.read = [f \in files |-> d[f]] /\ p.args = a /\ p.source = s
  BY <1>1, <1>2
<1>4. QED
  BY <1>1, <1>2, <1>3

\* A parse that loads its unit is failed neither by its source nor by libclang.
LEMMA ParseLoaded ==
  ASSUME NEW entry, NEW d, NEW fails \in BOOLEAN, ~ParseUnit(entry, d, fails).failed
  PROVE  fails = FALSE /\ Exists(d, entry.source)
BY DEF ParseUnit

\* Parsing an entry of the same source and arguments when every file that was read
\* is as it was, and no generated header that was missing has appeared, adds the
\* same to the flow map.
LEMMA ParseAgain ==
  ASSUME NEW entry, NEW again, NEW d, NEW e,
         again.source = entry.source, again.args = entry.args,
         Exists(d, entry.source),
         ~ParseUnit(entry, d, FALSE).diagnosed,
         \A f \in DOMAIN ParseUnit(entry, d, FALSE).read : e[f] = d[f],
         \A h \in ParseUnit(entry, d, FALSE).missing : ~Exists(e, h)
  PROVE  Alike(ParseUnit(entry, d, FALSE), ParseUnit(again, e, FALSE))
<1>1. PICK s, a, A, B, p, q :
        /\ s = entry.source /\ a = entry.args
        /\ A = AbsentIncludes(entry, d) /\ B = AbsentIncludes(again, e)
        /\ p = ParseUnit(entry, d, FALSE) /\ q = ParseUnit(again, e, FALSE)
  OBVIOUS
<1>2. PICK files : files = {s} \cup (Includes[s] \ A)
  OBVIOUS
<1>3. /\ p = [source |-> s, args |-> a, read |-> [f \in files |-> d[f]], failed |-> FALSE,
              missing |-> A \cap Generated, diagnosed |-> (A # {} /\ A \cap Generated = {})]
  BY <1>1, <1>2, ParseFields
<1>4. /\ \A f \in files : e[f] = d[f]
      /\ \A h \in A \cap Generated : ~Exists(e, h)
      /\ ~(A # {} /\ A \cap Generated = {})
  <2>1. DOMAIN p.read = files /\ p.missing = A \cap Generated
        /\ p.diagnosed = (A # {} /\ A \cap Generated = {})
    BY <1>3
  <2>2. QED
    BY <1>1, <2>1
<1>5. Exists(e, s) /\ again.source = s
  BY <1>1, <1>2, <1>4 DEF Exists
<1>6. q = [source |-> s, args |-> a,
           read |-> [f \in {s} \cup (Includes[s] \ B) |-> e[f]], failed |-> FALSE,
           missing |-> B \cap Generated, diagnosed |-> (B # {} /\ B \cap Generated = {})]
  <2>1. PICK R : R = {s} \cup (Includes[s] \ B)
    OBVIOUS
  <2>2. {again.source} \cup (Includes[again.source] \ AbsentIncludes(again, e)) = R
    BY <1>1, <1>5, <2>1
  <2>3. again.source = s /\ again.args = a /\ AbsentIncludes(again, e) = B /\ Exists(e, again.source)
        /\ q = ParseUnit(again, e, FALSE)
    BY <1>1, <1>5
  <2>4. QED
    BY ONLY <2>1, <2>2, <2>3, ParseFields
<1>7. A = {h \in Includes[s] : ~Exists(d, h)} /\ B = {h \in Includes[s] : ~Exists(e, h)}
  BY <1>1, <1>5 DEF AbsentIncludes
<1>8. B \subseteq A /\ A \cap Generated \subseteq B
  BY <1>2, <1>4, <1>7 DEF Exists
<1>9. CASE A \cap Generated = {}
  <2>1. A = {} /\ B = {}
    BY <1>4, <1>8, <1>9
  <2>2. [f \in files |-> d[f]] = [f \in {s} \cup (Includes[s] \ B) |-> e[f]]
    BY <1>2, <1>4, <2>1
  <2>3. p = q
    BY <1>3, <1>6, <2>1, <2>2
  <2>4. QED
    BY <1>1, <2>3 DEF Alike
<1>10. CASE A \cap Generated # {}
  <2>1. B \cap Generated # {}
    BY <1>8, <1>10
  <2>2. /\ p.source = s /\ q.source = s /\ ~p.failed /\ ~q.failed
        /\ p.missing # {} /\ q.missing # {}
    BY <1>3, <1>6, <1>10, <2>1
  <2>3. QED
    BY <1>1, <2>2 DEF Alike
<1>11. QED
  BY <1>9, <1>10

\* Results that are alike are the same to a flow map.
LEMMA AlikeFlow ==
  ASSUME NEW x, NEW y, Alike(x, y)
  PROVE  FlowMap(<<x>>, {}) = FlowMap(<<y>>, {})
<1>1. CASE x = y
  BY <1>1
<1>2. CASE x # y
  <2>1. x.source = y.source /\ ~x.failed /\ ~y.failed /\ x.missing # {} /\ y.missing # {}
    BY <1>2 DEF Alike
  <2>2. ASSUME NEW z, z = x \/ z = y
        PROVE  FlowMap(<<z>>, {}) =
                 [parsed |-> [i \in {} |-> z], failed |-> {}, notGenerated |-> {x.source}]
    <3>1. PICK R : R = <<z>>
      OBVIOUS
    <3>2. DOMAIN R = {1} /\ R[1] = z /\ Range(R) = {z}
      BY <3>1 DEF Range
    <3>3. {i \in DOMAIN R : ~R[i].failed /\ R[i].missing = {}} = {}
      BY <2>1, <2>2, <3>2
    <3>4. Restrict(R, {i \in DOMAIN R : ~R[i].failed /\ R[i].missing = {}}) = [i \in {} |-> z]
      BY <3>3 DEF Restrict
    <3>5. {result.source : result \in {w \in Range(R) : w.failed}} = {}
      BY <2>1, <2>2, <3>2
    <3>6. {} \cup {result.source : result \in {w \in Range(R) : w.missing # {}}} = {x.source}
      BY <2>1, <2>2, <3>2
    <3>7. QED
      BY <3>1, <3>4, <3>5, <3>6 DEF FlowMap
  <2>3. FlowMap(<<x>>, {}) = [parsed |-> [i \in {} |-> x], failed |-> {}, notGenerated |-> {x.source}]
    BY <2>2
  <2>4. FlowMap(<<y>>, {}) = [parsed |-> [i \in {} |-> y], failed |-> {}, notGenerated |-> {x.source}]
    BY <2>2
  <2>5. [i \in {} |-> x] = [i \in {} |-> y]
    OBVIOUS
  <2>6. QED
    BY <2>3, <2>4, <2>5
<1>3. QED
  BY <1>1, <1>2

-----------------------------------------------------------------------------
(* Flow maps. *)

\* If what was merged is complete, every entry of the database was there and what
\* was merged for it is its parse.
LEMMA CompleteFlow ==
  ASSUME NEW db \in Databases, NEW d, NEW R,
         R = [i \in DOMAIN LoadedUnits(db, d) |-> R[i]],
         \A i \in DOMAIN R :
           R[i].failed \/ Alike(R[i], ParseUnit(LoadedUnits(db, d)[i], d, FALSE)),
         Complete(FlowMap(R, NotGenerated(db, d)))
  PROVE  /\ NotGenerated(db, d) = {} /\ DOMAIN R = DOMAIN db
         /\ \A i \in DOMAIN db :
              /\ R[i] = ParseUnit(db[i], d, FALSE)
              /\ ~R[i].failed /\ R[i].missing = {} /\ Exists(d, db[i].source)
         /\ FlowMap(R, NotGenerated(db, d)) = FreshFlow(db, d)
<1>1. PICK N : N = NotGenerated(db, d)
  OBVIOUS
<1>2. /\ {result.source : result \in {x \in Range(R) : x.failed}} = {}
      /\ N \cup {result.source : result \in {x \in Range(R) : x.missing # {}}} = {}
  BY <1>1 DEF Complete, FlowMap
<1>3. N = {} /\ \A x \in Range(R) : ~x.failed /\ x.missing = {}
  BY <1>2
<1>4. \A i \in DOMAIN R : ~R[i].failed /\ R[i].missing = {}
  BY <1>3 DEF Range
<1>5. \A i \in DOMAIN db : Exists(d, db[i].source)
  BY <1>1, <1>3 DEF NotGenerated, Range
<1>6. DOMAIN R = DOMAIN db /\ \A i \in DOMAIN db : LoadedUnits(db, d)[i] = db[i]
  <2>1. {i \in DOMAIN db : Exists(d, db[i].source)} = DOMAIN db
    BY <1>5
  <2>2. DOMAIN LoadedUnits(db, d) = DOMAIN db
        /\ \A i \in DOMAIN db : LoadedUnits(db, d)[i] = db[i]
    BY ONLY <2>1, LoadedType, db \in Databases
  <2>3. DOMAIN R = DOMAIN LoadedUnits(db, d)
    OBVIOUS
  <2>4. QED
    BY <2>2, <2>3
<1>7. \A i \in DOMAIN db : R[i] = ParseUnit(db[i], d, FALSE)
  BY <1>4, <1>6 DEF Alike
<1>8. R = [i \in DOMAIN LoadedUnits(db, d) |-> ParseUnit(LoadedUnits(db, d)[i], d, FALSE)]
  BY <1>6, <1>7
<1>9. FlowMap(R, NotGenerated(db, d)) = FreshFlow(db, d)
  BY <1>8 DEF FreshFlow
<1>10. QED
  BY <1>1, <1>3, <1>4, <1>5, <1>6, <1>7, <1>9

\* The results merged are clean parses of all entries of a database.
CleanParses(R, db, d) ==
  /\ R = [i \in DOMAIN db |-> R[i]]
  /\ \A i \in DOMAIN db :
       /\ R[i] = ParseUnit(db[i], d, FALSE)
       /\ ~R[i].diagnosed /\ R[i].missing = {} /\ Exists(d, db[i].source)

\* Such a map, if no unit of it had other headers missing, is what parsing afresh
\* gives at any time the files that were read are as they were.
LEMMA FlowLater ==
  ASSUME NEW db \in Databases, NEW d, NEW e, NEW R,
         CleanParses(R, db, d),
         \A i \in DOMAIN db : \A f \in DOMAIN R[i].read : e[f] = d[f]
  PROVE  FlowMap(R, {}) = FreshFlow(db, e)
<1>0. /\ R = [i \in DOMAIN db |-> R[i]]
      /\ \A i \in DOMAIN db :
           /\ R[i] = ParseUnit(db[i], d, FALSE)
           /\ ~R[i].diagnosed /\ R[i].missing = {} /\ Exists(d, db[i].source)
  BY DEF CleanParses
<1>1. ASSUME NEW i \in DOMAIN db
      PROVE  ParseUnit(db[i], e, FALSE) = R[i] /\ Exists(e, db[i].source)
  <2>1. Alike(ParseUnit(db[i], d, FALSE), ParseUnit(db[i], e, FALSE))
    BY <1>0, ParseAgain
  <2>2. ParseUnit(db[i], e, FALSE) = R[i]
    BY <1>0, <2>1 DEF Alike
  <2>3. db[i].source \in DOMAIN R[i].read
    <3>1. db[i].source \in DOMAIN ParseUnit(db[i], d, FALSE).read
      BY ONLY FALSE \in BOOLEAN, ParseReads
    <3>2. QED
      BY <1>0, <3>1
  <2>4. QED
    BY <1>0, <2>2, <2>3 DEF Exists
<1>2. DOMAIN LoadedUnits(db, e) = DOMAIN db
      /\ \A i \in DOMAIN db : LoadedUnits(db, e)[i] = db[i]
  <2>1. {i \in DOMAIN db : Exists(e, db[i].source)} = DOMAIN db
    BY <1>1
  <2>2. QED
    BY ONLY <2>1, LoadedType, db \in Databases
<1>3. NotGenerated(db, e) = {}
  BY <1>1 DEF NotGenerated, Range
<1>4. [i \in DOMAIN LoadedUnits(db, e) |-> ParseUnit(LoadedUnits(db, e)[i], e, FALSE)] = R
  BY <1>0, <1>1, <1>2
<1>5. QED
  BY <1>3, <1>4 DEF FreshFlow

\* A flow map of results of units of the database is one.
LEMMA FlowType ==
  ASSUME NEW R, NEW P \in Places, R \in [P -> UnitResult], NEW N \in SUBSET Source
  PROVE  FlowMap(R, N) \in Flow
<1>1. PICK B : B = {i \in DOMAIN R : ~R[i].failed /\ R[i].missing = {}}
  OBVIOUS
<1>2. B \in Places
  BY <1>1 DEF Places
<1>3. Restrict(R, B) \in [B -> UnitResult]
  BY <1>1 DEF Restrict
<1>4. \A x \in Range(R) : x.source \in Source
  BY DEF Range, UnitResult
<1>5. /\ {result.source : result \in {x \in Range(R) : x.failed}} \in SUBSET Source
      /\ N \cup {result.source : result \in {x \in Range(R) : x.missing # {}}} \in SUBSET Source
  BY <1>4
<1>6. Restrict(R, B) \in UNION {[places -> UnitResult] : places \in Places}
  BY <1>2, <1>3
<1>7. FlowMap(R, N) = [parsed |-> Restrict(R, B),
        failed |-> {result.source : result \in {x \in Range(R) : x.failed}},
        notGenerated |-> N \cup {result.source : result \in {x \in Range(R) : x.missing # {}}}]
  BY <1>1 DEF FlowMap
<1>8. QED
  BY <1>5, <1>6, <1>7 DEF Flow

-----------------------------------------------------------------------------
(* What the caches hold is right. *)

\* A unit's cached result is right for all files its stamps match that have none of
\* the generated headers it missed, whichever entry asks with its arguments.
UnitRight(stored) ==
  \A entry \in Entry, d \in Files :
    /\ entry.source = stored.result.source /\ entry.args = stored.result.args
    /\ On(stored.stamps, d)
    /\ \A h \in stored.result.missing : ~Exists(d, h)
    => Alike(stored.result, ParseUnit(entry, d, FALSE))

\* A cached map, if complete, is right for all files its stamps match.
FlowRight(stored) ==
  /\ stored.data \in Flow
  /\ \A d \in Files : On(stored.stamps, d) /\ Complete(stored.data)
                        => stored.data = FreshFlow(stored.database, d)

\* An extraction holds what the files give, and stages what is right.
RunRight(r) ==
  pc[r] # "idle" =>
    /\ units[r] = LoadedUnits(database, disk)
    /\ notGenerated[r] = NotGenerated(database, disk)
    /\ \A i \in DOMAIN units[r] :
         /\ results[r][i] = Unread => i \notin unsaved[r]
         /\ results[r][i] \notin {Unread, Pending} =>
              /\ \/ results[r][i].failed
                 \/ Alike(results[r][i], ParseUnit(units[r][i], disk, FALSE))
              /\ i \in unsaved[r] =>
                   \E fails \in BOOLEAN : results[r][i] = ParseUnit(units[r][i], disk, fails)
    /\ pc[r] = "units" /\ staged[r] # NoEntry => UnitRight(staged[r])
    /\ pc[r] = "commit" =>
         /\ FlowRight(staged[r]) /\ staged[r].database = database
         /\ On(staged[r].stamps, disk)

CachesRight ==
  /\ \A u \in Source : unitCache[u] # NoEntry => UnitRight(unitCache[u])
  /\ flowCache # NoEntry => FlowRight(flowCache)

QuietInv == CachesRight /\ \A r \in Run : RunRight(r)

\* The unit result staged is right: its parse found the files its stamps tell.
LEMMA StagedUnitRight ==
  ASSUME NEW entry \in Entry, NEW result, NEW fails \in BOOLEAN, NEW stamps,
         result = ParseUnit(entry, disk, fails), ~result.failed, ~result.diagnosed,
         stamps = [f \in DOMAIN result.read |-> disk[f]]
  PROVE  UnitRight([stamps |-> stamps, result |-> result])
<1>1. fails = FALSE /\ Exists(disk, entry.source)
  BY ParseLoaded
<1>2. result.args = entry.args /\ result.source = entry.source
  BY ParseReads
<1>3. SUFFICES ASSUME NEW again \in Entry, NEW d \in Files,
                      again.source = result.source, again.args = result.args,
                      On(stamps, d), \A h \in result.missing : ~Exists(d, h)
               PROVE  Alike(result, ParseUnit(again, d, FALSE))
  BY DEF UnitRight
<1>4. \A f \in DOMAIN result.read : d[f] = disk[f]
  BY <1>3 DEF On
<1>5. result = ParseUnit(entry, disk, FALSE)
  BY <1>1
<1>6. QED
  BY <1>1, <1>2, <1>3, <1>4, <1>5, ParseAgain

\* What an extraction merges when every result is there.
LEMMA MergedRight ==
  ASSUME NEW r \in Run, TypeInv, QuietInv, pc[r] = "units", unsaved[r] = {},
         Unread \notin Range(results[r])
  PROVE  /\ MergedFlow(r) \in Flow
         /\ Complete(MergedFlow(r)) =>
              /\ MergedFlow(r) = FreshFlow(database, disk)
              /\ ~MergedDiagnostics(r) =>
                   \A d \in Files :
                     (\A f \in MergedDependencies(r) : d[f] = disk[f])
                       => MergedFlow(r) = FreshFlow(database, d)
<1>0. RunType(r) /\ RunRight(r) /\ Shape
  BY DEF TypeInv, QuietInv
<1>1. PICK R : R = results[r]
  OBVIOUS
<1>2. \A i \in DOMAIN units[r] : R[i] # Unread /\ R[i] # Pending
  BY <1>0, <1>1 DEF RunType, Range
<1>3. R \in [DOMAIN units[r] -> UnitResult]
  BY <1>0, <1>1, <1>2 DEF RunType
<1>4. MergedFlow(r) \in Flow
  BY <1>0, <1>1, <1>3, FlowType DEF RunType, MergedFlow
<1>5. /\ DOMAIN units[r] = DOMAIN LoadedUnits(database, disk)
      /\ MergedFlow(r) = FlowMap(R, NotGenerated(database, disk))
  BY <1>0, <1>1 DEF RunRight, MergedFlow
<1>6. /\ R = [i \in DOMAIN LoadedUnits(database, disk) |-> R[i]]
      /\ \A i \in DOMAIN R :
           R[i].failed \/ Alike(R[i], ParseUnit(LoadedUnits(database, disk)[i], disk, FALSE))
  <2>1. R = [i \in DOMAIN LoadedUnits(database, disk) |-> R[i]]
        /\ DOMAIN R = DOMAIN units[r]
    BY <1>3, <1>5
  <2>2. \A i \in DOMAIN units[r] :
          R[i].failed \/ Alike(R[i], ParseUnit(LoadedUnits(database, disk)[i], disk, FALSE))
    BY <1>0, <1>1, <1>2 DEF RunRight
  <2>3. QED
    BY <2>1, <2>2
<1>7. SUFFICES ASSUME Complete(MergedFlow(r))
               PROVE  /\ MergedFlow(r) = FreshFlow(database, disk)
                      /\ ~MergedDiagnostics(r) =>
                           \A d \in Files :
                             (\A f \in MergedDependencies(r) : d[f] = disk[f])
                               => MergedFlow(r) = FreshFlow(database, d)
  BY <1>4
<1>8. /\ NotGenerated(database, disk) = {} /\ DOMAIN R = DOMAIN database
      /\ \A i \in DOMAIN database :
           /\ R[i] = ParseUnit(database[i], disk, FALSE)
           /\ ~R[i].failed /\ R[i].missing = {} /\ Exists(disk, database[i].source)
      /\ MergedFlow(r) = FreshFlow(database, disk)
  <2>1. PICK db, e : db = database /\ e = disk
    OBVIOUS
  <2>2. db \in Databases
    BY <1>0, <2>1 DEF Shape
  <2>3. /\ R = [i \in DOMAIN LoadedUnits(db, e) |-> R[i]]
        /\ \A i \in DOMAIN R :
             R[i].failed \/ Alike(R[i], ParseUnit(LoadedUnits(db, e)[i], e, FALSE))
        /\ Complete(FlowMap(R, NotGenerated(db, e)))
    BY <1>5, <1>6, <1>7, <2>1
  <2>4. /\ NotGenerated(db, e) = {} /\ DOMAIN R = DOMAIN db
        /\ \A i \in DOMAIN db :
             /\ R[i] = ParseUnit(db[i], e, FALSE)
             /\ ~R[i].failed /\ R[i].missing = {} /\ Exists(e, db[i].source)
        /\ FlowMap(R, NotGenerated(db, e)) = FreshFlow(db, e)
    BY ONLY <2>2, <2>3, CompleteFlow
  <2>5. QED
    BY <1>5, <2>1, <2>4
<1>9. ASSUME ~MergedDiagnostics(r), NEW d \in Files, \A f \in MergedDependencies(r) : d[f] = disk[f]
      PROVE  MergedFlow(r) = FreshFlow(database, d)
  <2>1. \A i \in DOMAIN R : R[i] \in Range(results[r])
    BY <1>1 DEF Range
  <2>2. \A i \in DOMAIN database : ~R[i].diagnosed /\ \A f \in DOMAIN R[i].read : d[f] = disk[f]
    BY <1>8, <1>9, <2>1 DEF MergedDiagnostics, MergedDependencies
  <2>3. R = [i \in DOMAIN database |-> R[i]]
    BY <1>6, <1>8
  <2>4. PICK db, e : db = database /\ e = disk
    OBVIOUS
  <2>5. db \in Databases
    BY <1>0, <2>4 DEF Shape
  <2>6. /\ CleanParses(R, db, e)
        /\ \A i \in DOMAIN db : \A f \in DOMAIN R[i].read : d[f] = e[f]
    BY <1>8, <2>2, <2>3, <2>4 DEF CleanParses
  <2>7. FlowMap(R, {}) = FreshFlow(db, d)
    BY ONLY <2>5, <2>6, FlowLater
  <2>8. QED
    BY <1>5, <1>8, <2>4, <2>7
<1>10. QED
  BY <1>8, <1>9

\* Nothing is held before anything ran.
LEMMA InitQuiet == Init => QuietInv
BY DEF Init, QuietInv, CachesRight, RunRight

\* The files are files.
LEMMA DiskFiles == ASSUME TypeInv PROVE disk \in Files /\ database \in Databases
BY DEF TypeInv, Shape, Files

\* No step of an extraction changes the files.
LEMMA OwnKeepsFiles ==
  ASSUME NEW r \in Run, Load(r) \/ Work(r) \/ Die(r)
  PROVE  disk' = disk /\ database' = database /\ changes' = changes
BY DEF Load, Work, Die, ReadFlow, ReadUnit, Parse, StageUnit, CommitUnit, StageFlow,
       CommitFlow, envVars

\* A step of an extraction leaves the caches right.
LEMMA OwnCachesRight ==
  ASSUME NEW r \in Run, TypeInv, QuietInv, Load(r) \/ Work(r) \/ Die(r)
  PROVE  CachesRight'
<1>0. RunType(r) /\ RunRight(r) /\ Shape /\ CachesRight
  BY DEF TypeInv, QuietInv
<1>1. CASE CommitUnit(r)
  <2>1. /\ pc[r] = "units" /\ staged[r] # NoEntry /\ flowCache' = flowCache
        /\ unitCache' = [unitCache EXCEPT ![staged[r].result.source] = staged[r]]
    BY <1>1 DEF CommitUnit
  <2>2. UnitRight(staged[r])
    BY <1>0, <2>1 DEF RunRight
  <2>3. QED
    BY <1>0, <2>1, <2>2 DEF CachesRight, Shape
<1>2. CASE CommitFlow(r)
  <2>1. pc[r] = "commit" /\ flowCache' = staged[r] /\ unitCache' = unitCache
    BY <1>2 DEF CommitFlow
  <2>2. FlowRight(staged[r])
    BY <1>0, <2>1 DEF RunRight
  <2>3. QED
    BY <1>0, <2>1, <2>2 DEF CachesRight
<1>3. CASE ~CommitUnit(r) /\ ~CommitFlow(r)
  <2>1. unitCache' = unitCache /\ flowCache' = flowCache
    BY <1>3 DEF Load, Work, Die, ReadFlow, ReadUnit, Parse, StageUnit, StageFlow
  <2>2. QED
    BY <1>0, <2>1 DEF CachesRight
<1>4. QED
  BY <1>1, <1>2, <1>3

\* And its own variables.
LEMMA OwnRunRight ==
  ASSUME NEW r \in Run, TypeInv, QuietInv, Load(r) \/ Work(r) \/ Die(r)
  PROVE  RunRight(r)'
<1>0. RunType(r) /\ RunRight(r) /\ Shape /\ CachesRight
  BY DEF TypeInv, QuietInv
<1>1. disk' = disk /\ database' = database /\ disk \in Files
  BY OwnKeepsFiles, DiskFiles
<1>2. CASE EndRun(r)
  BY <1>2, EndTypes DEF Ended, RunRight
<1>3. CASE Load(r)
  <2>1. /\ units'[r] = LoadedUnits(database, disk)
        /\ notGenerated'[r] = NotGenerated(database, disk)
        /\ results'[r] = [i \in DOMAIN units'[r] |-> Unread]
        /\ unsaved'[r] = {} /\ pc'[r] = "flow"
    BY <1>0, <1>3 DEF Load, Goto, Shape
  <2>2. QED
    BY <1>1, <2>1 DEF RunRight
<1>4. CASE ReadFlow(r) /\ ~EndRun(r)
  <2>1. /\ pc'[r] = "units" /\ units'[r] = units[r] /\ notGenerated'[r] = notGenerated[r]
        /\ results'[r] = results[r] /\ unsaved'[r] = unsaved[r] /\ staged'[r] = staged[r]
        /\ pc[r] = "flow"
    BY <1>0, <1>4 DEF ReadFlow, Return, extractorVars, Goto, Shape
  <2>2. staged[r] = NoEntry
    BY <1>0, <2>1 DEF RunType
  <2>3. QED
    BY <1>0, <1>1, <2>1, <2>2 DEF RunRight
<1>5. CASE ReadUnit(r)
  <2>1. PICK i \in DOMAIN results[r] :
          /\ results[r][i] = Unread
          /\ \/ /\ UnitAccepted(units[r][i])
                /\ results' = [results EXCEPT ![r][i] = unitCache[units[r][i].source].result]
                /\ unsaved' = unsaved
             \/ /\ results' = [results EXCEPT ![r][i] = Pending]
                /\ unsaved' = [unsaved EXCEPT ![r] = @ \cup {i}]
    BY <1>5 DEF ReadUnit
  <2>2. /\ pc'[r] = "units" /\ pc[r] = "units" /\ units'[r] = units[r]
        /\ notGenerated'[r] = notGenerated[r] /\ staged'[r] = staged[r] /\ DOMAIN results = Run
        /\ DOMAIN results[r] = DOMAIN units[r] /\ DOMAIN unsaved = Run /\ i \in DOMAIN units[r]
    BY <1>0, <1>5 DEF ReadUnit, Shape, RunType
  <2>3. PICK x : x = results'[r][i]
    OBVIOUS
  <2>4. results'[r] = [results[r] EXCEPT ![i] = x]
    BY <2>1, <2>2, <2>3
  <2>5. i \notin unsaved[r]
    BY <1>0, <2>1, <2>2 DEF RunRight
  <2>6. CASE UnitAccepted(units[r][i]) /\ unsaved' = unsaved
              /\ results' = [results EXCEPT ![r][i] = unitCache[units[r][i].source].result]
    <3>1. PICK entry, stored : entry = units[r][i] /\ stored = unitCache[entry.source]
      OBVIOUS
    <3>2. entry \in Entry /\ entry.source \in Source
      <4>1. entry \in Entry
        BY <1>0, <2>2, <3>1 DEF RunType
      <4>2. QED
        BY <4>1, DatabaseType, SourceTreeAssumption DEF Entry
    <3>3. /\ stored # NoEntry /\ entry.args = stored.result.args /\ On(stored.stamps, disk)
          /\ \A h \in stored.result.missing : ~Exists(disk, h)
      BY <2>6, <3>1 DEF UnitAccepted, StampsMatch, MissingHeaderAvailable, On
    <3>4. /\ stored.result \in UnitResult /\ stored.result.source = entry.source
          /\ UnitRight(stored)
      BY <1>0, <3>1, <3>2, <3>3 DEF Shape, CachesRight
    <3>5. Alike(stored.result, ParseUnit(entry, disk, FALSE))
      BY <1>1, <3>2, <3>3, <3>4 DEF UnitRight
    <3>6. x = stored.result
      BY <2>2, <2>3, <2>6, <3>1
    <3>7. x # Unread
      BY <3>4, <3>6, FlowCacheAssumption
    <3>8. \A j \in DOMAIN units[r] :
            j # i => results'[r][j] = results[r][j]
      BY <2>2, <2>4
    <3>9. results'[r][i] = x /\ Alike(x, ParseUnit(units[r][i], disk, FALSE))
      BY <2>3, <3>1, <3>5, <3>6
    <3>10. QED
      BY <1>0, <1>1, <2>2, <2>5, <2>6, <3>7, <3>8, <3>9 DEF RunRight
  <2>7. CASE /\ results' = [results EXCEPT ![r][i] = Pending]
             /\ unsaved' = [unsaved EXCEPT ![r] = @ \cup {i}]
    <3>1. results'[r][i] = Pending /\ Pending # Unread
      BY <2>2, <2>7, FlowCacheAssumption
    <3>2. \A j \in DOMAIN units[r] :
            j # i => results'[r][j] = results[r][j] /\ (j \in unsaved'[r] => j \in unsaved[r])
      BY <2>2, <2>4, <2>7
    <3>3. QED
      BY <1>0, <1>1, <2>2, <3>1, <3>2 DEF RunRight
  <2>8. QED
    BY <2>1, <2>6, <2>7
<1>6. CASE Parse(r)
  <2>1. PICK i \in DOMAIN results[r], fails \in BOOLEAN :
          /\ results[r][i] = Pending
          /\ results' = [results EXCEPT ![r][i] = ParseUnit(units[r][i], disk, fails)]
    BY <1>6 DEF Parse
  <2>2. /\ pc'[r] = "units" /\ pc[r] = "units" /\ units'[r] = units[r]
        /\ notGenerated'[r] = notGenerated[r]
        /\ staged'[r] = staged[r] /\ unsaved'[r] = unsaved[r]
        /\ DOMAIN results = Run /\ DOMAIN results[r] = DOMAIN units[r]
    BY <1>0, <1>6 DEF Parse, Shape, RunType
  <2>3. results'[r][i] = ParseUnit(units[r][i], disk, fails)
    BY <2>1, <2>2
  <2>4. \/ results'[r][i].failed
        \/ Alike(results'[r][i], ParseUnit(units[r][i], disk, FALSE))
    BY <2>3, ParseLoaded DEF Alike
  <2>5. results'[r][i] # Unread
    <3>1. units[r][i] \in Entry
      BY <1>0, <2>2 DEF RunType
    <3>2. results'[r][i] \in UnitResult
      BY <1>1, <2>3, <3>1, ParseType DEF Files
    <3>3. QED
      BY <3>2, FlowCacheAssumption
  <2>6. \A j \in DOMAIN units[r] : j # i => results'[r][j] = results[r][j]
    BY <2>1, <2>2
  <2>7. QED
    BY <1>0, <1>1, <2>2, <2>3, <2>4, <2>5, <2>6 DEF RunRight
<1>7. CASE StageUnit(r)
  <2>1. /\ pc'[r] = "units" /\ pc[r] = "units" /\ units'[r] = units[r]
        /\ notGenerated'[r] = notGenerated[r] /\ results'[r] = results[r]
        /\ staged[r] = NoEntry /\ unsaved[r] # {} /\ DOMAIN staged = Run /\ DOMAIN unsaved = Run
    BY <1>0, <1>7 DEF StageUnit, Shape
  <2>2. PICK i, result : i = FirstUnsaved(r) /\ result = results[r][i]
    OBVIOUS
  <2>3. i \in DOMAIN units[r] /\ i \in unsaved[r]
    BY <2>1, <2>2, FirstUnsavedIs
  <2>4. /\ result # Pending
        /\ \/ /\ Cacheable(result)
              /\ DependencyStamps(DOMAIN result.read) # NoEntry
              /\ staged' = [staged EXCEPT ![r] =
                              [stamps |-> DependencyStamps(DOMAIN result.read), result |-> result]]
              /\ unsaved' = unsaved
           \/ /\ unsaved' = [unsaved EXCEPT ![r] = @ \ {i}]
              /\ staged' = staged
    BY <1>7, <2>2 DEF StageUnit, FirstUnsaved
  <2>5. result # Unread
    BY <1>0, <1>7, <2>2, <2>3 DEF StageUnit, RunType, Range
  <2>6. PICK fails \in BOOLEAN : result = ParseUnit(units[r][i], disk, fails)
    BY <1>0, <2>1, <2>2, <2>3, <2>4, <2>5 DEF RunRight
  <2>7. unsaved'[r] \subseteq unsaved[r]
    BY <2>1, <2>4
  <2>8. staged'[r] # NoEntry => UnitRight(staged'[r])
    <3>1. SUFFICES ASSUME Cacheable(result), DependencyStamps(DOMAIN result.read) # NoEntry
                   PROVE  UnitRight([stamps |-> DependencyStamps(DOMAIN result.read), result |-> result])
      BY <2>1, <2>4
    <3>2. PICK entry, stamps : entry = units[r][i] /\ stamps = DependencyStamps(DOMAIN result.read)
      OBVIOUS
    <3>3. stamps = [f \in DOMAIN result.read |-> disk[f]]
      BY <3>1, <3>2 DEF DependencyStamps
    <3>4. entry \in Entry
      BY <1>0, <2>3, <3>2 DEF RunType
    <3>5. ~result.failed /\ ~result.diagnosed
      BY <3>1 DEF Cacheable
    <3>6. result = ParseUnit(entry, disk, fails)
      BY <2>6, <3>2
    <3>7. UnitRight([stamps |-> stamps, result |-> result])
      BY ONLY <3>3, <3>4, <3>5, <3>6, fails \in BOOLEAN, StagedUnitRight
    <3>8. QED
      BY <3>2, <3>7
  <2>9. QED
    BY <1>0, <1>1, <2>1, <2>7, <2>8 DEF RunRight
<1>8. CASE CommitUnit(r)
  <2>1. /\ pc'[r] = "units" /\ pc[r] = "units" /\ units'[r] = units[r]
        /\ notGenerated'[r] = notGenerated[r] /\ results'[r] = results[r]
        /\ staged'[r] = NoEntry /\ unsaved'[r] \subseteq unsaved[r]
    BY <1>0, <1>8 DEF CommitUnit, Shape
  <2>2. QED
    BY <1>0, <1>1, <2>1 DEF RunRight
<1>9. CASE StageFlow(r) /\ ~EndRun(r)
  <2>1. /\ pc[r] = "units" /\ pc'[r] = "commit" /\ units'[r] = units[r]
        /\ notGenerated'[r] = notGenerated[r] /\ results'[r] = results[r] /\ unsaved'[r] = unsaved[r]
        /\ unsaved[r] = {} /\ Unread \notin Range(results[r]) /\ FlowCacheable(r)
        /\ staged'[r].database = database /\ staged'[r].data = MergedFlow(r)
        /\ staged'[r].stamps = DependencyStamps(MergedDependencies(r))
    BY <1>0, <1>9 DEF StageFlow, Return, Goto, Shape
  <2>2. staged'[r].stamps = [f \in MergedDependencies(r) |-> disk[f]] /\ ~MergedDiagnostics(r)
    BY <2>1 DEF FlowCacheable, DependencyStamps
  <2>3. On(staged'[r].stamps, disk)
    BY <2>2 DEF On
  <2>4. ASSUME NEW d \in Files, On(staged'[r].stamps, d), Complete(staged'[r].data)
        PROVE  staged'[r].data = FreshFlow(database, d)
    <3>1. \A f \in MergedDependencies(r) : d[f] = disk[f]
      BY <2>2, <2>4 DEF On
    <3>2. QED
      BY <2>1, <2>2, <2>4, <3>1, MergedRight
  <2>5. FlowRight(staged'[r])
    BY <2>1, <2>4, MergedRight DEF FlowRight
  <2>6. QED
    BY <1>0, <1>1, <2>1, <2>3, <2>5 DEF RunRight
<1>10. CASE CommitFlow(r) \/ Die(r)
  BY <1>2, <1>10 DEF CommitFlow, Die, Return
<1>11. QED
  BY <1>2, <1>3, <1>4, <1>5, <1>6, <1>7, <1>8, <1>9, <1>10 DEF Work

\* Where files change only between extractions, every step keeps them right.
LEMMA StepQuiet == QuietRuns /\ TypeInv /\ QuietInv /\ [Next]_vars => QuietInv'
<1> SUFFICES ASSUME QuietRuns, TypeInv, QuietInv, [Next]_vars PROVE QuietInv'
  OBVIOUS
<1>0. CachesRight /\ \A r \in Run : RunRight(r)
  BY DEF QuietInv
<1>1. CASE UNCHANGED vars
  <2>1. \A r \in Run : RunRight(r)'
    BY <1>0, <1>1 DEF RunRight, vars, envVars, runVars
  <2>2. CachesRight'
    BY <1>0, <1>1 DEF CachesRight, vars
  <2>3. QED
    BY <2>1, <2>2 DEF QuietInv
<1>2. CASE Change
  <2>1. unitCache' = unitCache /\ flowCache' = flowCache /\ pc' = pc
    BY <1>2 DEF Change, runVars
  <2>2. \A r \in Run : pc[r] = "idle"
    BY <1>2 DEF Change, running
  <2>3. \A r \in Run : RunRight(r)'
    BY <2>1, <2>2 DEF RunRight
  <2>4. CachesRight'
    BY <1>0, <2>1 DEF CachesRight
  <2>5. QED
    BY <2>3, <2>4 DEF QuietInv
<1>3. ASSUME NEW r \in Run, Load(r) \/ Work(r) \/ Die(r) PROVE QuietInv'
  <2>1. RunRight(r)' /\ CachesRight'
    BY <1>3, OwnRunRight, OwnCachesRight
  <2>2. ASSUME NEW q \in Run, q # r PROVE RunRight(q)'
    <3>1. Same(q) /\ disk' = disk /\ database' = database
      BY <1>3, <2>2, OthersSame, OwnKeepsFiles
    <3>2. QED
      BY <1>0, <3>1 DEF Same, RunRight
  <2>3. QED
    BY <2>1, <2>2 DEF QuietInv
<1>4. QED
  BY <1>1, <1>2, <1>3 DEF Next

\* QuietInv holds there.
LEMMA QuietInvHolds ==
  ASSUME QuietRuns PROVE Spec => [](TypeInv /\ QuietInv)
<1>1. TypeInv /\ QuietInv /\ [Next]_vars => (TypeInv /\ QuietInv)'
  BY StepTypes, StepQuiet
<1>2. Init => TypeInv /\ QuietInv
  BY InitTypes, InitQuiet
<1>3. QED
  BY <1>1, <1>2, PTL DEF Spec

\* FlowCache.CacheInvariant: a unit result that _read_cached_unit would return adds to
\* the flow map what parsing the unit now would add, for any number of extractions
\* sharing the caches, any edits between them, and deaths at any step.
THEOREM CacheInvariantHolds ==
  ASSUME QuietRuns PROVE Spec => []CacheInvariant
<1>1. TypeInv /\ QuietInv => CacheInvariant
  <2> SUFFICES ASSUME TypeInv, QuietInv PROVE CacheInvariant
    OBVIOUS
  <2>1. TypeOK
    BY TypeInvSuffices
  <2>2. ASSUME NEW entry \in Range(database), UnitAccepted(entry)
        PROVE  FlowMap(<<unitCache[entry.source].result>>, {})
                 = FlowMap(<<ParseUnit(entry, disk, FALSE)>>, {})
    <3>1. PICK stored : stored = unitCache[entry.source]
      OBVIOUS
    <3>2. entry \in Entry
      BY DiskFiles DEF Entry
    <3>3. entry.source \in Source
      BY DiskFiles, SourceTreeAssumption
    <3>4. /\ stored # NoEntry /\ entry.args = stored.result.args /\ On(stored.stamps, disk)
          /\ \A h \in stored.result.missing : ~Exists(disk, h)
      BY <2>2, <3>1 DEF UnitAccepted, StampsMatch, MissingHeaderAvailable, On
    <3>5. stored.result.source = entry.source /\ UnitRight(stored)
      BY <3>1, <3>3, <3>4 DEF TypeInv, Shape, QuietInv, CachesRight
    <3>6. Alike(stored.result, ParseUnit(entry, disk, FALSE))
      BY <3>2, <3>4, <3>5, DiskFiles DEF UnitRight
    <3>7. QED
      BY <3>1, <3>6, AlikeFlow
  <2>3. QED
    BY <2>1, <2>2 DEF CacheInvariant, UnitCacheExact
<1>2. QED
  BY <1>1, QuietInvHolds, PTL

\* FlowCache.CompleteFlowExact: a merged map that _read_cached_flow would return, if
\* every unit of it was there and was parsed, is the one a fresh extraction gives.
THEOREM CompleteFlowExactHolds ==
  ASSUME QuietRuns PROVE Spec => []CompleteFlowExact
<1>1. TypeInv /\ QuietInv => CompleteFlowExact
  <2> SUFFICES ASSUME TypeInv, QuietInv, FlowAccepted, Complete(flowCache.data)
               PROVE  flowCache.data = FreshFlow(database, disk)
    BY DEF CompleteFlowExact
  <2>1. flowCache # NoEntry /\ flowCache.database = database /\ On(flowCache.stamps, disk)
    BY DEF FlowAccepted, StampsMatch, On
  <2>2. FlowRight(flowCache)
    BY <2>1 DEF QuietInv, CachesRight
  <2>3. QED
    BY <2>1, <2>2, DiskFiles DEF FlowRight
<1>2. QED
  BY <1>1, QuietInvHolds, PTL

-----------------------------------------------------------------------------
(* The promise of ExtractedFlow. *)

\* The promise speaks of the same maps.
LEMMA SameOperators ==
  /\ \A flow : Promise!Complete(flow) = Complete(flow)
  /\ \A db, d : Promise!FreshFlow(db, d) = FreshFlow(db, d)
  /\ Files \subseteq Promise!Disk
<1>1. \A flow : Promise!Complete(flow) = Complete(flow)
  BY DEF Promise!Complete, Complete
<1>2. \A f, S : Promise!Restrict(f, S) = Restrict(f, S)
  BY DEF Promise!Restrict, Restrict
<1>3. \A f : Promise!Range(f) = Range(f)
  BY DEF Promise!Range, Range
<1>4. \A d, f : Promise!Exists(d, f) = Exists(d, f)
  BY DEF Promise!Exists, Exists
<1>5. \A entry, d, fails : Promise!ParseUnit(entry, d, fails) = ParseUnit(entry, d, fails)
  BY <1>4 DEF Promise!ParseUnit, ParseUnit
<1>6. \A db, d : Promise!LoadedUnits(db, d) = LoadedUnits(db, d)
  BY <1>2, <1>4 DEF Promise!LoadedUnits, LoadedUnits
<1>7. \A db, d : Promise!NotGenerated(db, d) = NotGenerated(db, d)
  BY <1>3, <1>4 DEF Promise!NotGenerated, NotGenerated
<1>8. \A R, N : Promise!FlowMap(R, N) = FlowMap(R, N)
  BY <1>2, <1>3 DEF Promise!FlowMap, FlowMap
<1>9. \A db, d : Promise!FreshFlow(db, d) = FreshFlow(db, d)
  BY <1>5, <1>6, <1>7, <1>8 DEF Promise!FreshFlow, FreshFlow
<1>10. Files \subseteq Promise!Disk
  <2>1. Version \subseteq Nat \cup {Absent}
    BY FlowCacheAssumption DEF Version
  <2>2. Promise!Disk = [File -> Nat \cup {Absent}]
    BY DEF Promise!Disk, Promise!File, File
  <2>3. QED
    BY <2>1, <2>2 DEF Files
<1>11. QED
  BY <1>1, <1>9, <1>10

\* A return answers with a flow map; one that is complete is the fresh one.
LEMMA ReturnReplies ==
  ASSUME NEW r \in Run, TypeInv, pc[r] # "idle", NEW flow \in Flow, Return(r, flow),
         disk' = disk, database' = database,
         Complete(flow) => flow = FreshFlow(database, disk)
  PROVE  Promise!Reply(r)
<1>1. answer' = [answer EXCEPT ![r] = flow] /\ answer = [q \in Run |-> answer[q]]
  BY DEF Return, TypeInv, Shape
<1>2. answer'[r] = flow /\ answer' = [answer EXCEPT ![r] = answer'[r]]
  BY <1>1
<1>3. pc \in [Run -> {"idle", "flow", "units", "commit"}] /\ pc' = [pc EXCEPT ![r] = "idle"]
  BY DEF Return, EndRun, Goto, TypeInv, Shape
<1>4. r \in running /\ running' = running \ {r}
  BY <1>3 DEF running
<1>5. flow # NoFlow
  BY FlowCacheAssumption
<1>6. Promise!Complete(answer'[r]) => answer'[r] = Promise!FreshFlow(database, disk)
  BY <1>2, SameOperators
<1>7. QED
  BY <1>2, <1>4, <1>5, <1>6 DEF Promise!Reply

\* A step that ends no extraction and starts none leaves what the promise speaks of.
LEMMA GoesOn ==
  ASSUME NEW r \in Run, TypeInv, pc[r] # "idle", pc'[r] # "idle",
         pc' = pc \/ \E label : Goto(r, label),
         answer' = answer, disk' = disk, database' = database
  PROVE  UNCHANGED Promise!vars
<1>1. pc \in [Run -> {"idle", "flow", "units", "commit"}]
  BY DEF TypeInv, Shape
<1>2. \A q \in Run : (pc'[q] # "idle") = (pc[q] # "idle")
  <2>1. CASE pc' = pc
    BY <2>1
  <2>2. CASE \E label : Goto(r, label)
    <3>1. PICK label : pc' = [pc EXCEPT ![r] = label]
      BY <2>2 DEF Goto
    <3>2. \A q \in Run : q # r => pc'[q] = pc[q]
      BY <1>1, <3>1
    <3>3. QED
      BY <3>2
  <2>3. QED
    BY <2>1, <2>2
<1>3. running' = running
  BY <1>2 DEF running
<1>4. QED
  BY <1>3 DEF Promise!vars

\* Where files change only between extractions, every step is one of the promise, or
\* changes nothing it speaks of.
LEMMA StepPromised ==
  QuietRuns /\ TypeInv /\ QuietInv /\ TypeInv' /\ [Next]_vars => [Promise!Next]_Promise!vars
<1> SUFFICES ASSUME QuietRuns, TypeInv, QuietInv, TypeInv', [Next]_vars
             PROVE  [Promise!Next]_Promise!vars
  OBVIOUS
<1>1. CASE UNCHANGED vars
  BY <1>1 DEF vars, envVars, runVars, running, Promise!vars
<1>2. CASE Change
  <2>1. running = {} /\ pc' = pc /\ answer' = answer
    BY <1>2 DEF Change, runVars
  <2>2. running' = running
    BY <2>1 DEF running
  <2>3. disk' \in Promise!Disk /\ database' \in Databases
    BY SameOperators DEF TypeInv, Shape, Files
  <2>4. QED
    BY <2>1, <2>2, <2>3 DEF Promise!Change, Promise!Next
<1>3. ASSUME NEW r \in Run, Load(r) \/ Work(r) \/ Die(r)
      PROVE  [Promise!Next]_Promise!vars
  <2>0. Shape /\ RunType(r) /\ CachesRight /\ RunRight(r)
    BY DEF TypeInv, QuietInv
  <2>1. disk' = disk /\ database' = database
    BY <1>3, OwnKeepsFiles
  <2>2. pc \in [Run -> {"idle", "flow", "units", "commit"}] /\ answer = [q \in Run |-> answer[q]]
    BY <2>0 DEF Shape
  <2>3. Promise!Reply(r) => Promise!Next
    BY DEF Promise!Next
  <2>4. CASE Load(r)
    <3>1. pc[r] = "idle" /\ pc' = [pc EXCEPT ![r] = "flow"]
          /\ answer' = [answer EXCEPT ![r] = NoFlow]
      BY <2>4 DEF Load, Goto
    <3>2. r \notin running /\ running' = running \cup {r}
      BY <2>2, <3>1 DEF running
    <3>3. QED
      BY <2>1, <3>1, <3>2 DEF Promise!Begin, Promise!Next
  <2>5. CASE ReadFlow(r)
    <3>1. CASE FlowAccepted /\ Return(r, flowCache.data)
      <4>1. flowCache # NoEntry /\ flowCache.database = database /\ On(flowCache.stamps, disk)
        BY <3>1 DEF FlowAccepted, StampsMatch, On
      <4>2. flowCache.data \in Flow
            /\ (Complete(flowCache.data) => flowCache.data = FreshFlow(database, disk))
        BY <2>0, <4>1, DiskFiles DEF CachesRight, FlowRight
      <4>3. pc[r] # "idle"
        BY <2>5 DEF ReadFlow
      <4>4. QED
        BY <2>1, <2>3, <3>1, <4>2, <4>3, ReturnReplies
    <3>2. CASE Goto(r, "units") /\ answer' = answer
      <4>1. pc[r] # "idle" /\ pc'[r] # "idle"
        BY <2>2, <2>5, <3>2 DEF ReadFlow, Goto
      <4>2. QED
        BY <2>1, <3>2, <4>1, GoesOn
    <3>3. QED
      BY <2>5, <3>1, <3>2 DEF ReadFlow
  <2>6. CASE ReadUnit(r) \/ Parse(r) \/ StageUnit(r) \/ CommitUnit(r)
    <3>1. pc[r] # "idle" /\ pc' = pc /\ answer' = answer
      BY <2>6 DEF ReadUnit, Parse, StageUnit, CommitUnit
    <3>2. QED
      BY <2>1, <3>1, GoesOn
  <2>7. CASE StageFlow(r)
    <3>1. pc[r] = "units" /\ unsaved[r] = {} /\ Unread \notin Range(results[r])
      BY <2>7 DEF StageFlow
    <3>2. CASE Goto(r, "commit") /\ answer' = answer
      <4>1. pc[r] # "idle" /\ pc'[r] # "idle"
        BY <2>2, <3>1, <3>2 DEF Goto
      <4>2. QED
        BY <2>1, <3>2, <4>1, GoesOn
    <3>3. CASE Return(r, MergedFlow(r))
      <4>1. /\ MergedFlow(r) \in Flow
            /\ Complete(MergedFlow(r)) => MergedFlow(r) = FreshFlow(database, disk)
        BY <3>1, MergedRight
      <4>2. QED
        BY <2>1, <2>3, <3>1, <3>3, <4>1, ReturnReplies
    <3>4. QED
      BY <2>7, <3>2, <3>3 DEF StageFlow
  <2>8. CASE CommitFlow(r)
    <3>1. pc[r] = "commit" /\ Return(r, staged[r].data)
      BY <2>8 DEF CommitFlow
    <3>2. FlowRight(staged[r]) /\ staged[r].database = database /\ On(staged[r].stamps, disk)
      BY <2>0, <3>1 DEF RunRight
    <3>3. staged[r].data \in Flow
          /\ (Complete(staged[r].data) => staged[r].data = FreshFlow(database, disk))
      BY <3>2, DiskFiles DEF FlowRight
    <3>4. QED
      BY <2>1, <2>3, <3>1, <3>3, ReturnReplies
  <2>9. CASE Die(r)
    <3>1. pc[r] # "idle" /\ pc' = [pc EXCEPT ![r] = "idle"] /\ answer' = answer
      BY <2>9 DEF Die, EndRun, Goto
    <3>2. r \in running /\ running' = running \ {r}
      BY <2>2, <3>1 DEF running
    <3>3. QED
      BY <2>1, <3>1, <3>2 DEF Promise!Die, Promise!Next
  <2>10. QED
    BY <1>3, <2>4, <2>5, <2>6, <2>7, <2>8, <2>9 DEF Work
<1>4. QED
  BY <1>1, <1>2, <1>3 DEF Next

\* FlowCache.ReturnsFreshFlow: where files change only between extractions, the
\* extractor implements ExtractedFlow: a complete map that run() returns is what a
\* fresh parse of the files gives, whatever was cached before and by whom.
THEOREM ReturnsFreshFlowHolds ==
  ASSUME QuietRuns PROVE Spec => ReturnsFreshFlow
<1>1. TypeInv /\ QuietInv /\ TypeInv' /\ [Next]_vars => [Promise!Next]_Promise!vars
  BY StepPromised
<1>2. Init => Promise!Init
  <2>1. Init => TypeInv
    BY InitTypes
  <2>2. Init => disk \in Promise!Disk /\ database \in Databases
    BY <2>1, SameOperators DEF TypeInv, Shape, Files
  <2>3. QED
    BY <2>2 DEF Init, running, Promise!Init
<1>3. QED
  BY <1>1, <1>2, QuietInvHolds, PTL DEF Spec, ReturnsFreshFlow, Promise!Spec
=============================================================================
