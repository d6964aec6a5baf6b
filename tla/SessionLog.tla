----------------------------- MODULE SessionLog -----------------------------
(***************************************************************************)
(* The session log (utils/log_manager.py) over several launches of the     *)
(* program: the runtime directory, which outlives a crash, the records     *)
(* that worker threads add to it, and the export when the program exits.   *)
(* One program runs at a time.  A record is known by the session that      *)
(* wrote it.                                                               *)
(***************************************************************************)
EXTENDS Naturals, Sequences

CONSTANTS
  MaxSessions,  \* bound: launches in a behaviour
  MaxSaves,     \* bound: calls of save_session in a session
  MaxWorkers    \* bound: workers inside save_session at once

ASSUME BoundsAssumption ==
  MaxSessions \in Nat /\ MaxSaves \in Nat /\ MaxWorkers \in Nat

VARIABLES
  session,   \* number of the last launch
  phase,     \* what its main thread does
  creating,  \* workers in save_session that found no JSONL
  saving,    \* workers in save_session about to append
  dir,       \* does RUNTIME_DIR exist?
  file,      \* does JSONL exist in it?
  jsonl,     \* the records in JSONL
  tmpCsv,    \* the records in session.csv
  saves,     \* per session: save_session calls begun
  saved,     \* per session: records it appended
  atExit,    \* per session: of these, those appended before it began to exit
  late,      \* history: records appended since the purge began
  crowded,   \* history: sessions where two workers found no JSONL at once
  given,     \* sessions whose file the user kept
  exported   \* per session: the records in that file

workVars == <<creating, saving>>
diskVars == <<dir, file, jsonl, tmpCsv>>
exits == <<given, exported>>
tallies == <<saves, saved, atExit, late, crowded, exits>>
logVars == <<session, phase, workVars, diskVars, tallies>>

Sessions == 1 .. MaxSessions
Nothing == << >>

LogTypeOK ==
  /\ session \in 0 .. MaxSessions
  /\ phase \in {"none", "asking", "off", "on", "convert", "dialog", "purge", "rmdir", "last"}
  /\ creating \in Nat /\ saving \in Nat /\ creating + saving <= MaxWorkers
  /\ dir \in BOOLEAN /\ file \in BOOLEAN
  /\ jsonl \in Seq(Sessions) /\ tmpCsv \in Seq(Sessions)
  /\ ~dir => ~file /\ tmpCsv = Nothing
  /\ ~file => jsonl = Nothing
  /\ saves \in [Sessions -> 0 .. MaxSaves]
  /\ \A p \in Sessions : atExit[p] <= saved[p] /\ saved[p] <= saves[p]
  /\ late \in 0 .. MaxSaves
  /\ crowded \subseteq Sessions /\ given \subseteq Sessions
  /\ exported \in [Sessions -> Seq(Sessions)]

LogInit ==
  /\ session = 0
  /\ phase = "none"
  /\ creating = 0 /\ saving = 0
  /\ dir = FALSE /\ file = FALSE
  /\ jsonl = Nothing /\ tmpCsv = Nothing
  /\ saves = [p \in Sessions |-> 0]
  /\ saved = [p \in Sessions |-> 0]
  /\ atExit = [p \in Sessions |-> 0]
  /\ late = 0
  /\ crowded = {} /\ given = {}
  /\ exported = [p \in Sessions |-> Nothing]

-----------------------------------------------------------------------------
(* Launch: the user is asked, then configure_logging(enable).              *)

Launch ==
  /\ phase = "none"
  /\ session < MaxSessions
  /\ session' = session + 1
  /\ phase' = "asking"
  /\ UNCHANGED <<workVars, diskVars, tallies>>

Refuse ==
  /\ phase = "asking"
  /\ phase' = "off"
  /\ UNCHANGED <<session, workVars, diskVars, tallies>>

\* Mutation of Enable: a directory that exists is used as it is.
EnableKeepsDir ==
  /\ phase = "asking"
  /\ phase' = "on"
  /\ dir' = TRUE
  /\ UNCHANGED <<session, workVars, file, jsonl, tmpCsv, tallies>>

\* _fresh_runtime_dir.
Enable ==
  /\ phase = "asking"
  /\ phase' = "on"
  /\ dir' = TRUE /\ file' = FALSE
  /\ jsonl' = Nothing /\ tmpCsv' = Nothing
  /\ UNCHANGED <<session, workVars, tallies>>

-----------------------------------------------------------------------------
(* save_session, on a worker thread.  Workers are daemons: they go on while *)
(* the main thread exits.                                                   *)

Enabled == phase \in {"on", "convert", "dialog", "purge", "rmdir", "last"}

\* _enabled holds; the worker asks whether the file exists ...
SaveBegin ==
  /\ Enabled
  /\ creating + saving < MaxWorkers
  /\ saves[session] < MaxSaves
  /\ saves' = [saves EXCEPT ![session] = @ + 1]
  /\ IF file
     THEN saving' = saving + 1 /\ UNCHANGED <<creating, crowded>>
     ELSE /\ creating' = creating + 1
          /\ crowded' = IF creating > 0 THEN crowded \cup {session} ELSE crowded
          /\ UNCHANGED saving
  /\ UNCHANGED <<session, phase, diskVars, saved, atExit, late, exits>>

\* ... and if not, writes an empty one, over whatever another worker has put
\* there since; that raises when the directory has gone.
CreateFile ==
  /\ creating > 0
  /\ creating' = creating - 1
  /\ IF dir
     THEN file' = TRUE /\ jsonl' = Nothing /\ saving' = saving + 1
     ELSE UNCHANGED <<file, jsonl, saving>>
  /\ UNCHANGED <<session, phase, dir, tmpCsv, tallies>>

\* Mutation of AppendRecord: the line is written without a look at the directory.
AppendAnyway ==
  /\ saving > 0
  /\ saving' = saving - 1
  /\ file' = TRUE
  /\ jsonl' = Append(jsonl, session)
  /\ saved' = [saved EXCEPT ![session] = @ + 1]
  /\ late' = IF phase \in {"rmdir", "last"} THEN late + 1 ELSE late
  /\ UNCHANGED <<session, phase, creating, dir, tmpCsv, saves, atExit, crowded, exits>>

\* open(JSONL, "a") and one write; it raises when the directory has gone.
AppendRecord ==
  /\ saving > 0
  /\ saving' = saving - 1
  /\ IF dir
     THEN /\ file' = TRUE
          /\ jsonl' = Append(jsonl, session)
          /\ saved' = [saved EXCEPT ![session] = @ + 1]
          /\ late' = IF phase \in {"rmdir", "last"} THEN late + 1 ELSE late
     ELSE UNCHANGED <<file, jsonl, saved, late>>
  /\ UNCHANGED <<session, phase, creating, dir, tmpCsv, saves, atExit, crowded, exits>>

-----------------------------------------------------------------------------
(* Exit.                                                                   *)

\* Nothing is registered with atexit.
ExitOff ==
  /\ phase \in {"asking", "off"}
  /\ phase' = "none"
  /\ UNCHANGED <<session, workVars, diskVars, tallies>>

\* _export_and_purge: with no file, or an empty one, there is nothing to export.
Export ==
  /\ phase = "on"
  /\ atExit' = [atExit EXCEPT ![session] = saved[session]]
  /\ phase' = IF jsonl = Nothing THEN "purge" ELSE "convert"
  /\ UNCHANGED <<session, workVars, diskVars, saves, saved, late, crowded, exits>>

\* The records the file holds by now are turned into session.csv.
Convert ==
  /\ phase = "convert"
  /\ phase' = "dialog"
  /\ tmpCsv' = jsonl
  /\ UNCHANGED <<session, workVars, dir, file, jsonl, tallies>>

\* The user picks a file, and session.csv is moved there ...
Keep ==
  /\ phase = "dialog"
  /\ phase' = "purge"
  /\ given' = given \cup {session}
  /\ exported' = [exported EXCEPT ![session] = tmpCsv]
  /\ tmpCsv' = Nothing
  /\ UNCHANGED <<session, workVars, dir, file, jsonl, saves, saved, atExit, late, crowded>>

\* ... or cancels, or the dialog fails.
Cancel ==
  /\ phase = "dialog"
  /\ phase' = "purge"
  /\ UNCHANGED <<session, workVars, diskVars, tallies>>

\* Mutation of Purge: the files stay.
PurgeNothing ==
  /\ phase = "purge"
  /\ phase' = "rmdir"
  /\ late' = 0
  /\ UNCHANGED <<session, workVars, diskVars, saves, saved, atExit, crowded, exits>>

\* rmtree removes the files ...
Purge ==
  /\ phase = "purge"
  /\ phase' = "rmdir"
  /\ file' = FALSE
  /\ jsonl' = Nothing /\ tmpCsv' = Nothing
  /\ late' = 0
  /\ UNCHANGED <<session, workVars, dir, saves, saved, atExit, crowded, exits>>

\* ... and then the directory, unless a worker has made the file again, with or
\* without a record; ignore_errors hides that.
RemoveDir ==
  /\ phase = "rmdir"
  /\ phase' = "last"
  /\ dir' = file
  /\ UNCHANGED <<session, workVars, file, jsonl, tmpCsv, tallies>>

\* The process ends and its workers with it.
ProcessEnds ==
  /\ phase = "last"
  /\ phase' = "none"
  /\ creating' = 0 /\ saving' = 0
  /\ UNCHANGED <<session, diskVars, tallies>>

\* The process dies; what is on the disk stays.
Crash ==
  /\ phase # "none"
  /\ phase' = "none"
  /\ creating' = 0 /\ saving' = 0
  /\ UNCHANGED <<session, diskVars, tallies>>

LogNext ==
  \/ Launch \/ Refuse \/ Enable
  \/ SaveBegin \/ CreateFile \/ AppendRecord
  \/ ExitOff \/ Export \/ Convert \/ Keep \/ Cancel \/ Purge \/ RemoveDir \/ ProcessEnds
  \/ Crash

LogSpec == LogInit /\ [][LogNext]_logVars

-----------------------------------------------------------------------------
(* Properties.                                                             *)

OwnedBy(records, p) == \A k \in 1 .. Len(records) : records[k] = p

\* The file a user is given holds only records of the session just ended, none
\* of an earlier session that crashed, though both use the same directory; and
\* all that were saved before it began to exit, unless two workers saved the
\* first record at once: then each may have found no file, and the second to
\* create it erases what the first has appended.
ExportIsTheSession == \A p \in given :
  /\ OwnedBy(exported[p], p)
  /\ p \notin crowded => Len(exported[p]) >= atExit[p]

\* A program that exits cleanly leaves no record behind but those a worker
\* appended after the purge had begun.
CleanExitLeavesNothing == phase = "last" => Len(jsonl) + Len(tmpCsv) <= late
=============================================================================
