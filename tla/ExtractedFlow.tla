--------------------------- MODULE ExtractedFlow ----------------------------
(***************************************************************************)
(* What a flow extraction promises: a map it returns as complete is the one*)
(* a fresh parse of the files gives, whatever was cached before.  Files    *)
(* change only between extractions.                                        *)
(***************************************************************************)
EXTENDS SourceTree

CONSTANTS Run, NoFlow

VARIABLES
  disk,      \* the version of every file
  database,  \* the content of compile_commands.json
  running,   \* the extractions in progress
  answer     \* the flow map each extraction last returned, or NoFlow

vars == <<disk, database, running, answer>>

Init ==
  /\ disk \in Disk
  /\ database \in Databases
  /\ running = {}
  /\ answer = [r \in Run |-> NoFlow]

Change ==
  /\ running = {}
  /\ disk' \in Disk
  /\ database' \in Databases
  /\ UNCHANGED <<running, answer>>

Begin(r) ==
  /\ r \notin running
  /\ running' = running \cup {r}
  /\ answer' = [answer EXCEPT ![r] = NoFlow]
  /\ UNCHANGED <<disk, database>>

Reply(r) ==
  /\ r \in running
  /\ running' = running \ {r}
  /\ answer' = [answer EXCEPT ![r] = answer'[r]]
  /\ answer'[r] # NoFlow
  /\ Complete(answer'[r]) => answer'[r] = FreshFlow(database, disk)
  /\ UNCHANGED <<disk, database>>

Die(r) ==
  /\ r \in running
  /\ running' = running \ {r}
  /\ UNCHANGED <<disk, database, answer>>

Next == Change \/ \E r \in Run : Begin(r) \/ Reply(r) \/ Die(r)

Spec == Init /\ [][Next]_vars
=============================================================================
