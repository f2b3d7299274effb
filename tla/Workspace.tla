----------------------------- MODULE Workspace -----------------------------
(***************************************************************************)
(* The files beside a package that the commands of the CLI and of the      *)
(* review workbench read and replace: derived/revisions.json, the bookmark *)
(* snapshot and its reviews, a searchable PDF and an export directory.     *)
(* Every command is a process of its own; none takes a lock, and each may  *)
(* be killed between two steps.                                            *)
(*                                                                         *)
(* The revisions are the numbers of the commands that asked for them, 0    *)
(* that of none: a log of it is a file that cannot be read.                *)
(* save_revisions writes through one name, so files are inodes: a process  *)
(* writes to the one it opened, wherever it has been renamed to.  A        *)
(* snapshot is the log of revisions its document had, being otherwise the  *)
(* same; so is an export.  The other files are persisted from temporary    *)
(* files of their own and are replaced in one step.                        *)
(***************************************************************************)
EXTENDS Integers, Sequences, FiniteSets, SequencesExt

CONSTANTS Procs,       \* the processes that run commands
          Editors,     \* those among them that add revisions and reviews
          Overwriters, \* those that pass --overwrite
          MaxCommands, \* bound: the commands that are started
          MaxFaults    \* bound: the renames of directories that fail

ASSUME ProcsAssumption == IsFiniteSet(Procs) /\ Editors \subseteq Procs /\ Overwriters \subseteq Procs
ASSUME BoundsAssumption == MaxCommands \in Nat /\ MaxFaults \in Nat

VARIABLES
  inode,      \* inode[i]: the log of revisions in it, or Torn
  live,       \* the inode of revisions.json, 0 when there is none
  temp,       \* the inode of revisions.json.tmp, 0 when there is none
  candidates, \* the snapshot of bookmarks/candidates.json
  reviews,    \* bookmarks/reviews.json
  pdf,        \* the searchable PDF: whose bookmarks and whose text it has
  bundle,     \* the export directory
  orphans,    \* the backups of exporters that were killed
  at,         \* at[p]: what p does next
  mem,        \* mem[p]: what it has read, and its own files
  started,    \* the commands started
  faults      \* the renames that failed

files == <<inode, live, temp>>
marks == <<candidates, reviews, pdf>>
exports == <<bundle, orphans, faults>>
vars == <<files, marks, exports, at, mem, started>>

None == <<>>
Torn == <<0>>
Inodes == 1 .. Cardinality(Procs) + 2
Fresh == [number |-> 0, file |-> 0, log |-> <<>>, snapshot |-> None, reviews |-> <<>>, backup |-> None]
Log == IF live = 0 THEN <<>> ELSE inode[live]
Readable == Log # Torn

Init ==
  /\ inode = [i \in Inodes |-> <<>>]
  /\ live = 0 /\ temp = 0
  /\ candidates = None /\ reviews = None /\ pdf = None
  /\ bundle = None /\ orphans = {} /\ faults = 0
  /\ at = [p \in Procs |-> "rest"]
  /\ mem = [p \in Procs |-> Fresh]
  /\ started = 0

To(p, step) == at' = [at EXCEPT ![p] = step]
Keeps(p, m) == mem' = [mem EXCEPT ![p] = m]
Ends(p) == To(p, "rest") /\ Keeps(p, Fresh)
Starts(p, step, m) ==
  /\ at[p] = "rest" /\ started < MaxCommands
  /\ started' = started + 1
  /\ To(p, step) /\ Keeps(p, [m EXCEPT !.number = started + 1])

-----------------------------------------------------------------------------
(***************************************************************************)
(* revision add.                                                           *)
(***************************************************************************)
\* The document is loaded with the revisions there are, then they are read
\* again to be added to.
ReviseStart(p) ==
  /\ p \in Editors /\ Readable
  /\ Starts(p, "open", [Fresh EXCEPT !.log = Append(Log, started + 1)])
  /\ UNCHANGED <<files, marks, exports>>

\* save_revisions: the file is created or emptied, written, and renamed.
InUse == {live, temp} \cup {mem[p].file : p \in Procs}
\* As below, writing revisions.json itself.
ReviseOpenFaulty(p) ==
  /\ at[p] = "open"
  /\ LET i == IF live # 0 THEN live ELSE CHOOSE j \in Inodes : j \notin InUse
     IN  /\ inode' = [inode EXCEPT ![i] = Torn]
         /\ temp' = i
         /\ Keeps(p, [mem[p] EXCEPT !.file = i])
  /\ To(p, "write")
  /\ UNCHANGED <<live, marks, exports, started>>

ReviseOpen(p) ==
  /\ at[p] = "open"
  /\ LET i == IF temp # 0 THEN temp ELSE CHOOSE j \in Inodes : j \notin InUse
     IN  /\ inode' = [inode EXCEPT ![i] = Torn]
         /\ temp' = i
         /\ Keeps(p, [mem[p] EXCEPT !.file = i])
  /\ To(p, "write")
  /\ UNCHANGED <<live, marks, exports, started>>

\* The text of a shorter log leaves the end of a longer one behind it.
ReviseWrite(p) ==
  /\ at[p] = "write"
  /\ LET there == inode[mem[p].file]
         covers == there = Torn \/ Len(there) <= Len(mem[p].log)
     IN  inode' = [inode EXCEPT ![mem[p].file] = IF covers THEN mem[p].log ELSE Torn]
  /\ To(p, "rename")
  /\ UNCHANGED <<live, temp, mem, marks, exports, started>>
ReviseRename(p) ==
  /\ at[p] = "rename"
  /\ IF temp = 0 THEN UNCHANGED <<live, temp>> ELSE live' = temp /\ temp' = 0
  /\ Ends(p)
  /\ UNCHANGED <<inode, marks, exports, started>>

-----------------------------------------------------------------------------
(***************************************************************************)
(* bookmarks generate, confirm and pdf build-searchable.                   *)
(***************************************************************************)
GenerateStart(p) ==
  /\ Readable
  /\ Starts(p, "generated", [Fresh EXCEPT !.snapshot = <<Log>>])
  /\ UNCHANGED <<files, marks, exports>>
\* save_snapshot looks for the file before it writes its own.
GenerateCheck(p) ==
  /\ at[p] = "generated"
  /\ IF p \notin Overwriters /\ candidates # None THEN Ends(p) ELSE To(p, "persist") /\ UNCHANGED mem
  /\ UNCHANGED <<files, marks, exports, started>>
GeneratePersist(p) ==
  /\ at[p] = "persist"
  /\ candidates' = mem[p].snapshot
  /\ Ends(p)
  /\ UNCHANGED <<files, reviews, pdf, exports, started>>

\* load_snapshot: the snapshot, then the revisions it must fit.
Commands == {"review", "build"}
Check == [review |-> "check for review", build |-> "check for build"]
Reviews == [review |-> "reviews for review", build |-> "reviews for build"]
SnapshotStart(p, command) ==
  /\ candidates # None
  /\ command = "review" => p \in Editors
  /\ Starts(p, Check[command], [Fresh EXCEPT !.snapshot = candidates])
  /\ UNCHANGED <<files, marks, exports>>
SnapshotCheck(p, command) ==
  /\ at[p] = Check[command]
  /\ IF Readable /\ mem[p].snapshot = <<Log>>
     THEN To(p, Reviews[command]) /\ UNCHANGED mem
     ELSE Ends(p)
  /\ UNCHANGED <<files, marks, exports, started>>
LoadReviews(p, command) ==
  /\ at[p] = Reviews[command]
  /\ CASE reviews = None -> To(p, command) /\ Keeps(p, [mem[p] EXCEPT !.reviews = <<>>])
       [] reviews # None /\ reviews[1].base = mem[p].snapshot ->
            To(p, command) /\ Keeps(p, [mem[p] EXCEPT !.reviews = reviews[1].operations])
       [] reviews # None /\ reviews[1].base # mem[p].snapshot -> Ends(p)
  /\ UNCHANGED <<files, marks, exports, started>>

ReviewSave(p) ==
  /\ at[p] = "review"
  /\ reviews' = <<[base |-> mem[p].snapshot, operations |-> Append(mem[p].reviews, mem[p].number)]>>
  /\ Ends(p)
  /\ UNCHANGED <<files, candidates, pdf, exports, started>>

\* build_searchable reads the revisions once more, for the text.
BuildText(p) ==
  /\ at[p] = "build"
  /\ IF Readable THEN To(p, "written") /\ Keeps(p, [mem[p] EXCEPT !.log = Log]) ELSE Ends(p)
  /\ UNCHANGED <<files, marks, exports, started>>
\* As below, with the snapshot there is when the PDF is written.
BuildPersistFaulty(p) ==
  /\ at[p] = "written"
  /\ pdf' = <<[bookmarks |-> candidates[1], operations |-> mem[p].reviews, text |-> mem[p].log]>>
  /\ Ends(p)
  /\ UNCHANGED <<files, candidates, reviews, exports, started>>

BuildPersist(p) ==
  /\ at[p] = "written"
  /\ pdf' = <<[bookmarks |-> mem[p].snapshot[1], operations |-> mem[p].reviews, text |-> mem[p].log]>>
  /\ Ends(p)
  /\ UNCHANGED <<files, candidates, reviews, exports, started>>

-----------------------------------------------------------------------------
(***************************************************************************)
(* export --format all: install_directory_atomically.                      *)
(***************************************************************************)
ExportStart(p) ==
  /\ Readable
  /\ p \in Overwriters \/ bundle = None
  /\ Starts(p, "install", [Fresh EXCEPT !.log = Log])
  /\ UNCHANGED <<files, marks, exports>>

\* The directory was there, or was not, when it was looked for.
ExportLook(p) ==
  /\ at[p] = "install"
  /\ To(p, IF bundle = None THEN "place" ELSE "backup")
  /\ UNCHANGED <<files, marks, exports, mem, started>>
\* As below, with the old directory removed.
ExportBackupFaulty(p) ==
  /\ at[p] = "backup"
  /\ IF bundle = None
     THEN Ends(p) /\ UNCHANGED bundle
     ELSE To(p, "replace") /\ UNCHANGED mem /\ bundle' = None
  /\ UNCHANGED <<files, marks, orphans, faults, started>>

ExportBackup(p) ==
  /\ at[p] = "backup"
  /\ IF bundle = None
     THEN Ends(p) /\ UNCHANGED bundle
     ELSE To(p, "replace") /\ Keeps(p, [mem[p] EXCEPT !.backup = bundle]) /\ bundle' = None
  /\ UNCHANGED <<files, marks, orphans, faults, started>>

\* A directory is renamed to a name that is free; the one in the way of it
\* is not empty.
Placed(p) == bundle = None /\ bundle' = <<mem[p].log>> /\ UNCHANGED faults
NotPlaced ==
  /\ UNCHANGED bundle
  /\ IF bundle # None THEN UNCHANGED faults ELSE faults < MaxFaults /\ faults' = faults + 1
ExportPlace(p) ==
  /\ at[p] = "place"
  /\ Placed(p) \/ NotPlaced
  /\ Ends(p)
  /\ UNCHANGED <<files, marks, orphans, started>>
\* When it is placed the backup goes.
ExportReplace(p) ==
  /\ at[p] = "replace"
  /\ \/ Placed(p) /\ Ends(p)
     \/ NotPlaced /\ To(p, "restore") /\ UNCHANGED mem
  /\ UNCHANGED <<files, marks, orphans, started>>
\* Whether it could be renamed back or not, TempDir removes what is at the
\* name of the backup.
ExportRestore(p) ==
  /\ at[p] = "restore"
  /\ \/ bundle = None /\ bundle' = mem[p].backup /\ UNCHANGED faults
     \/ NotPlaced
  /\ Ends(p)
  /\ UNCHANGED <<files, marks, orphans, started>>

-----------------------------------------------------------------------------
\* A process is killed.
Crash(p) ==
  /\ at[p] # "rest"
  /\ orphans' = orphans \cup ({mem[p].backup} \ {None})
  /\ Ends(p)
  /\ UNCHANGED <<files, marks, bundle, faults, started>>

Step(p) ==
  \/ ReviseStart(p) \/ ReviseOpen(p) \/ ReviseWrite(p) \/ ReviseRename(p)
  \/ GenerateStart(p) \/ GenerateCheck(p) \/ GeneratePersist(p)
  \/ \E c \in Commands : SnapshotStart(p, c) \/ SnapshotCheck(p, c) \/ LoadReviews(p, c)
  \/ ReviewSave(p) \/ BuildText(p) \/ BuildPersist(p)
  \/ ExportStart(p) \/ ExportLook(p) \/ ExportBackup(p)
  \/ ExportPlace(p) \/ ExportReplace(p) \/ ExportRestore(p)
  \/ Crash(p)
Next == \E p \in Procs : Step(p)

Spec == Init /\ [][Next]_vars

-----------------------------------------------------------------------------
(***************************************************************************)
(* What the files promise.                                                 *)
(***************************************************************************)
RevisionsGrow == Log' # Torn /\ IsPrefix(Log, Log')
ReviewsGrow ==
  reviews # None =>
    /\ reviews' # None /\ reviews'[1].base = reviews[1].base
    /\ IsPrefix(reviews[1].operations, reviews'[1].operations)
\* Readers only ever see the log of revisions whole, and longer than before;
\* so they do the reviews, which stay with the snapshot they began with
\* ("Revisions are append-only records", ADR 0006; "append-only operation
\* log", ADR 0007).
LogsOnlyGrow == [][RevisionsGrow /\ ReviewsGrow]_vars

\* A PDF never has text that is older than the document its bookmarks were
\* made from.
TextIsNotOlder == pdf # None => IsPrefix(pdf[1].bookmarks, pdf[1].text)

\* Once there is an export there is one for good, at its place or in a backup.
Held == {bundle} \cup orphans \cup {mem[p].backup : p \in Procs}
BundleIsKept == [][Held # {None} => Held' # {None}]_vars
=============================================================================
