----------------------------- MODULE FlowCache ------------------------------
(***************************************************************************)
(* CallGraphExtractor.run: extractions of one build's C++ flow, each a     *)
(* process, that share the flow cache and the per-unit caches beside       *)
(* compile_commands.json, over files that builds and editors change.  A    *)
(* cache file is replaced by a rename, a process may die between any two   *)
(* steps, a write may fail and libclang may fail to load a unit.  The      *)
(* versions of the extractor and of the cache format never change.         *)
(***************************************************************************)
EXTENDS SourceTree

CONSTANTS
  Run,            \* extractor processes
  QuietRuns,      \* TRUE: nothing changes a file while an extraction runs
  Removable,      \* the files the environment may remove
  MaxChanges,     \* bound: changes of the environment
  MaxRuns,        \* bound: extractions started
  MaxFailures,    \* bound: units libclang fails to load
  NoFlow, NoEntry, Unread, Pending   \* sentinels

VARIABLES
  disk, database,          \* the files and compile_commands.json
  unitCache, flowCache,    \* the cache files
  pc,                      \* where each extraction is
  units, notGenerated,     \* what load_translation_units gave it
  results,                 \* unit_results: Unread, Pending or a result
  unsaved,                 \* indexes of pending the loop has not consumed
  staged,                  \* the temporary file it wrote, or NoEntry
  answer,                  \* what run() last returned, or NoFlow
  changes, started, failures   \* counters for the bounds

envVars == <<disk, database, changes>>
runVars == <<pc, units, notGenerated, results, unsaved, staged, answer>>
vars == <<envVars, unitCache, flowCache, runVars, started, failures>>

running == {r \in Run : pc[r] # "idle"}

Init ==
  /\ disk = [f \in File |-> 0]
  /\ database \in Databases
  /\ unitCache = [u \in Source |-> NoEntry]
  /\ flowCache = NoEntry
  /\ pc = [r \in Run |-> "idle"]
  /\ units = [r \in Run |-> <<>>]
  /\ notGenerated = [r \in Run |-> {}]
  /\ results = [r \in Run |-> <<>>]
  /\ unsaved = [r \in Run |-> {}]
  /\ staged = [r \in Run |-> NoEntry]
  /\ answer = [r \in Run |-> NoFlow]
  /\ changes = 0
  /\ started = 0
  /\ failures = 0

-----------------------------------------------------------------------------
\* Cache entries.

\* _dependency_stamps, which gives None (here NoEntry) when a file is gone.
DependencyStamps(paths) ==
  IF \A f \in paths : Exists(disk, f) THEN [f \in paths |-> disk[f]] ELSE NoEntry

StampsMatch(stamps) == \A f \in DOMAIN stamps : disk[f] = stamps[f]

MissingHeaderAvailable(result) == \E h \in result.missing : Exists(disk, h)

\* Mutants of the three conditions below: a generated header that appeared is not
\* looked for; the database is not compared; only sources are stamped.
UnitAcceptedByStamps(entry) ==
  LET stored == unitCache[entry.source]
  IN stored # NoEntry /\ stored.result.args = entry.args /\ StampsMatch(stored.stamps)
FlowAcceptedByStamps == flowCache # NoEntry /\ StampsMatch(flowCache.stamps)
MergedSources(r) == {result.source : result \in Range(results[r])}

\* _read_cached_unit returns the stored result.
UnitAccepted(entry) ==
  LET stored == unitCache[entry.source]
  IN /\ stored # NoEntry
     /\ stored.result.args = entry.args
     /\ StampsMatch(stored.stamps)
     /\ ~MissingHeaderAvailable(stored.result)

\* The early return of _write_cached_unit does not apply.
Cacheable(result) == ~result.failed /\ ~result.diagnosed

\* _read_cached_flow returns the stored map.
FlowAccepted ==
  /\ flowCache # NoEntry
  /\ flowCache.database = database
  /\ StampsMatch(flowCache.stamps)

\* What the merge leaves in data, self.dependencies and self.diagnostic_count.
MergedFlow(r) == FlowMap(results[r], notGenerated[r])
MergedDependencies(r) == UNION {DOMAIN result.read : result \in Range(results[r])}
MergedDiagnostics(r) == \E result \in Range(results[r]) : result.diagnosed

FlowCacheable(r) ==
  /\ MergedDependencies(r) # {}
  /\ DependencyStamps(MergedDependencies(r)) # NoEntry
  /\ ~MergedDiagnostics(r)

-----------------------------------------------------------------------------
\* One extraction.

Goto(r, label) == pc' = [pc EXCEPT ![r] = label]

\* run() is called on a fresh extractor and loads the database.
Load(r) ==
  /\ pc[r] = "idle"
  /\ started < MaxRuns
  /\ units' = [units EXCEPT ![r] = LoadedUnits(database, disk)]
  /\ notGenerated' = [notGenerated EXCEPT ![r] = NotGenerated(database, disk)]
  /\ results' = [results EXCEPT ![r] = [i \in DOMAIN units'[r] |-> Unread]]
  /\ unsaved' = [unsaved EXCEPT ![r] = {}]
  /\ answer' = [answer EXCEPT ![r] = NoFlow]
  /\ started' = started + 1
  /\ Goto(r, "flow")
  /\ UNCHANGED <<envVars, unitCache, flowCache, staged, failures>>

\* The extractor of a run that ended is discarded.
EndRun(r) ==
  /\ Goto(r, "idle")
  /\ units' = [units EXCEPT ![r] = <<>>]
  /\ notGenerated' = [notGenerated EXCEPT ![r] = {}]
  /\ results' = [results EXCEPT ![r] = <<>>]
  /\ unsaved' = [unsaved EXCEPT ![r] = {}]
  /\ staged' = [staged EXCEPT ![r] = NoEntry]

Return(r, flow) ==
  /\ answer' = [answer EXCEPT ![r] = flow]
  /\ EndRun(r)

extractorVars == <<units, notGenerated, results, unsaved, staged>>

\* The merged flow of an unchanged deployment is returned as it is.
ReadFlow(r) ==
  /\ pc[r] = "flow"
  /\ \/ FlowAccepted /\ Return(r, flowCache.data)
     \/ ~FlowAccepted /\ Goto(r, "units") /\ UNCHANGED <<extractorVars, answer>>
  /\ UNCHANGED <<envVars, unitCache, flowCache, started, failures>>

\* The next unit in order is taken from its cache or put in pending.
ReadUnit(r) ==
  /\ pc[r] = "units"
  /\ \E i \in DOMAIN results[r] :
       /\ results[r][i] = Unread
       /\ \A j \in DOMAIN results[r] : j < i => results[r][j] # Unread
       /\ \/ /\ UnitAccepted(units[r][i])
             /\ results' = [results EXCEPT ![r][i] = unitCache[units[r][i].source].result]
             /\ UNCHANGED unsaved
          \/ /\ ~UnitAccepted(units[r][i])
             /\ results' = [results EXCEPT ![r][i] = Pending]
             /\ unsaved' = [unsaved EXCEPT ![r] = @ \cup {i}]
  /\ UNCHANGED <<envVars, unitCache, flowCache, pc, units, notGenerated, staged,
                 answer, started, failures>>

\* A worker of the pool parses a pending unit; workers finish in any order.
Parse(r) ==
  /\ pc[r] = "units"
  /\ Unread \notin Range(results[r])
  /\ \E i \in DOMAIN results[r], fails \in BOOLEAN :
       /\ results[r][i] = Pending
       /\ fails => failures < MaxFailures
       /\ results' = [results EXCEPT ![r][i] = ParseUnit(units[r][i], disk, fails)]
       /\ failures' = IF fails THEN failures + 1 ELSE failures
  /\ UNCHANGED <<envVars, unitCache, flowCache, pc, units, notGenerated, unsaved,
                 staged, answer, started>>

\* The loop consumes results in source order.  _write_cached_unit takes the
\* stamps now, not when the unit was parsed, and fills a temporary file, or it
\* writes nothing: an uncacheable result, a file that is gone, an OSError.
StageUnit(r) ==
  /\ pc[r] = "units"
  /\ Unread \notin Range(results[r])
  /\ staged[r] = NoEntry
  /\ unsaved[r] # {}
  /\ LET i == CHOOSE k \in unsaved[r] : \A j \in unsaved[r] : k <= j
         result == results[r][i]
         stamps == DependencyStamps(DOMAIN result.read)
     IN /\ result # Pending
        /\ \/ /\ Cacheable(result)
              /\ stamps # NoEntry
              /\ staged' = [staged EXCEPT ![r] = [stamps |-> stamps, result |-> result]]
              /\ UNCHANGED unsaved
           \/ /\ unsaved' = [unsaved EXCEPT ![r] = @ \ {i}]
              /\ UNCHANGED staged
  /\ UNCHANGED <<envVars, unitCache, flowCache, pc, units, notGenerated, results,
                 answer, started, failures>>

\* temporary.replace(cache_file): the rename is atomic.
CommitUnit(r) ==
  /\ pc[r] = "units"
  /\ staged[r] # NoEntry
  /\ unitCache' = [unitCache EXCEPT ![staged[r].result.source] = staged[r]]
  /\ unsaved' = [unsaved EXCEPT
       ![r] = @ \ {CHOOSE k \in unsaved[r] : \A j \in unsaved[r] : k <= j}]
  /\ staged' = [staged EXCEPT ![r] = NoEntry]
  /\ UNCHANGED <<envVars, flowCache, pc, units, notGenerated, results, answer,
                 started, failures>>

\* Every unit is merged and the flow map built; _write_cached_flow takes its
\* stamps and the hash of the database, or writes nothing and run() returns.
StageFlow(r) ==
  /\ pc[r] = "units"
  /\ unsaved[r] = {}
  /\ Unread \notin Range(results[r])
  /\ \/ /\ FlowCacheable(r)
        /\ staged' = [staged EXCEPT ![r] =
             [database |-> database,
              stamps |-> DependencyStamps(MergedDependencies(r)),
              data |-> MergedFlow(r)]]
        /\ Goto(r, "commit")
        /\ UNCHANGED <<units, notGenerated, results, unsaved, answer>>
     \/ Return(r, MergedFlow(r))
  /\ UNCHANGED <<envVars, unitCache, flowCache, started, failures>>

CommitFlow(r) ==
  /\ pc[r] = "commit"
  /\ flowCache' = staged[r]
  /\ Return(r, staged[r].data)
  /\ UNCHANGED <<envVars, unitCache, started, failures>>

\* The process is killed, or a worker is and run() raises.
Die(r) ==
  /\ pc[r] # "idle"
  /\ EndRun(r)
  /\ UNCHANGED <<envVars, unitCache, flowCache, answer, started, failures>>

Work(r) ==
  \/ ReadFlow(r) \/ ReadUnit(r) \/ Parse(r) \/ StageUnit(r) \/ CommitUnit(r)
  \/ StageFlow(r) \/ CommitFlow(r)

-----------------------------------------------------------------------------
\* The build and its editors: a file is written anew (its stamp was never seen
\* before) or removed, or the database is regenerated.
Change ==
  /\ changes < MaxChanges
  /\ QuietRuns => running = {}
  /\ changes' = changes + 1
  /\ \/ \E f \in File : disk' = [disk EXCEPT ![f] = changes + 1] /\ UNCHANGED database
     \/ \E f \in Removable : disk' = [disk EXCEPT ![f] = Absent] /\ UNCHANGED database
     \/ database' \in Databases /\ UNCHANGED disk
  /\ UNCHANGED <<unitCache, flowCache, runVars, started, failures>>

Next == Change \/ \E r \in Run : Load(r) \/ Work(r) \/ Die(r)

Spec == Init /\ [][Next]_vars

-----------------------------------------------------------------------------
\* Properties.

Entry == UNION {Range(database_) : database_ \in Databases}
Version == (0..MaxChanges) \cup {Absent}
UnitResult == [source : Source, args : {entry.args : entry \in Entry},
               read : UNION {[read -> Version] : read \in SUBSET File},
               failed : BOOLEAN, missing : SUBSET Generated, diagnosed : BOOLEAN]
Places == UNION {SUBSET DOMAIN database_ : database_ \in Databases}
Flow == [parsed : UNION {[places -> UnitResult] : places \in Places},
         failed : SUBSET Source, notGenerated : SUBSET Source]

\* The bounds are numbers, the sentinels no values.
ASSUME FlowCacheAssumption ==
  /\ {MaxChanges, MaxRuns, MaxFailures} \subseteq Nat
  /\ Unread # Pending /\ Unread \notin UnitResult /\ Pending \notin UnitResult
  /\ NoFlow \notin Flow

\* Type correctness; and an extraction holds a temporary file only while it
\* has a unit or the flow to commit.
TypeOK ==
  /\ disk \in [File -> Version]
  /\ database \in Databases
  /\ pc \in [Run -> {"idle", "flow", "units", "commit"}]
  /\ \A u \in Source : unitCache[u] # NoEntry =>
       unitCache[u].result \in UnitResult /\ unitCache[u].result.source = u
  /\ flowCache # NoEntry => flowCache.database \in Databases
  /\ \A r \in Run :
       /\ DOMAIN results[r] = DOMAIN units[r]
       /\ \A i \in DOMAIN results[r] :
            results[r][i] \in {Unread, Pending} \cup UnitResult
       /\ unsaved[r] \subseteq DOMAIN results[r]
       /\ staged[r] # NoEntry => unsaved[r] # {} \/ pc[r] = "commit"
  /\ changes \in 0..MaxChanges
  /\ started \in 0..MaxRuns
  /\ failures \in 0..MaxFailures

\* A unit result that _read_cached_unit would return now adds to the flow map
\* what parsing the unit now would add, whatever was edited, removed or generated
\* since it was stored and whoever stored it: a stale one silently drops or
\* invents calls.
UnitCacheExact ==
  \A entry \in Range(database) :
    UnitAccepted(entry) =>
      FlowMap(<<unitCache[entry.source].result>>, {})
        = FlowMap(<<ParseUnit(entry, disk, FALSE)>>, {})

\* The caches and the extractions keep their types, and no stale unit is accepted.
CacheInvariant == TypeOK /\ UnitCacheExact

\* A merged flow map that _read_cached_flow would return now is the one a fresh
\* extraction would give, if every unit of it was there and was parsed.
CompleteFlowExact ==
  FlowAccepted /\ Complete(flowCache.data) => flowCache.data = FreshFlow(database, disk)

\* The same with no proviso: README.md, "unchanged deployments reuse the merged
\* flow map", says nothing more is needed than an unchanged deployment.
FlowCacheExact == FlowAccepted => flowCache.data = FreshFlow(database, disk)

\* The extractor keeps its promise (module ExtractedFlow) through two processes
\* that share caches, deaths at any step, and writes that fail: a complete map it
\* returns is what a fresh parse returns.
Promise ==
  INSTANCE ExtractedFlow WITH
    disk <- disk, database <- database, running <- running, answer <- answer
ReturnsFreshFlow == Promise!Spec
=============================================================================
