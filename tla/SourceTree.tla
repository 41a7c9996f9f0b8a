----------------------------- MODULE SourceTree -----------------------------
(***************************************************************************)
(* The files a deployment's flow extraction reads, and what parsing them   *)
(* yields.  A file's content is its version; a stamp (mtime, size) is      *)
(* taken to tell two versions of one file apart, so it is the version too. *)
(* A parse result keeps what it depends on: the arguments and the content  *)
(* of every file it read.                                                  *)
(***************************************************************************)
EXTENDS Naturals, Sequences, FiniteSets, SequencesExt

CONSTANTS
  Source,        \* translation units
  Header,        \* headers
  Generated,     \* the headers the F Prime autocoder produces (*Ac.hpp)
  Includes,      \* [Source -> SUBSET Header]
  Databases,     \* the contents compile_commands.json may have: entry lists
  Absent         \* the version of a file that does not exist

ASSUME SourceTreeAssumption ==
  /\ Generated \subseteq Header
  /\ Includes \in [Source -> SUBSET Header]
  /\ Absent \notin Nat
  /\ \A database \in Databases :
       database \in Seq(Range(database)) /\ \A entry \in Range(database) : entry.source \in Source

File == Source \cup Header
Disk == [File -> Nat \cup {Absent}]

Exists(disk, f) == disk[f] # Absent

\* parse_unit, and parsed_files, failed_files, diagnostic_count, missing_autocode
\* and dependencies of its _UnitResult; fails: libclang could not load the unit.
ParseUnit(entry, disk, fails) ==
  LET loaded == ~fails /\ Exists(disk, entry.source)
      absent == {h \in Includes[entry.source] : ~Exists(disk, h)}
      read == {entry.source} \cup
              IF loaded THEN Includes[entry.source] \ absent ELSE {}
  IN [source |-> entry.source,
      args |-> entry.args,
      read |-> [f \in read |-> disk[f]],
      failed |-> ~loaded,
      missing |-> IF loaded THEN absent \cap Generated ELSE {},
      diagnosed |-> loaded /\ absent # {} /\ absent \cap Generated = {}]

\* load_translation_units: the entries parsed, at their places in the database, and
\* those listed in not_generated.
LoadedUnits(database, disk) ==
  Restrict(database, {i \in DOMAIN database : Exists(disk, database[i].source)})
NotGenerated(database, disk) ==
  {entry.source : entry \in {e \in Range(database) : ~Exists(disk, e.source)}}

\* build_flow_map, as far as it depends on the files: the results whose methods
\* it holds (in merge order, a later definition of a method wins), and the units
\* it reports as failed or as not generated.
FlowMap(results, notGenerated) ==
  LET built(result) == ~result.failed /\ result.missing = {}
  IN [parsed |-> Restrict(results, {i \in DOMAIN results : built(results[i])}),
      failed |-> {result.source : result \in {x \in Range(results) : x.failed}},
      notGenerated |-> notGenerated \cup
        {result.source : result \in {x \in Range(results) : x.missing # {}}}]

\* Every unit listed was there and was parsed.
Complete(flow) == flow.failed = {} /\ flow.notGenerated = {}

\* The flow map a run with no cache at all extracts from an unchanging tree.
FreshFlow(database, disk) ==
  LET units == LoadedUnits(database, disk)
  IN FlowMap([i \in DOMAIN units |-> ParseUnit(units[i], disk, FALSE)],
             NotGenerated(database, disk))
=============================================================================
