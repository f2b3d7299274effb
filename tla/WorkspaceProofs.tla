--------------------------- MODULE WorkspaceProofs ---------------------------
(***************************************************************************)
(* Proofs about Workspace for every set of processes and editors and any   *)
(* number of commands.  No lock keeps two editors apart, so what is proved *)
(* of the logs is of the runs in which no two commands are at one time     *)
(* between reading a log and replacing it: in those, whatever builders,    *)
(* generators and exporters do and whoever is killed, the logs only grow   *)
(* and a PDF never has text older than its bookmarks.  If at most one      *)
(* rename fails, an export is never lost.                                  *)
(*                                                                         *)
(* That the log grows is not inductive: it needs to be known that the      *)
(* editor is the only one to write to revisions.json.tmp, that the file is *)
(* not the one in use, and that what the editor has read is still there.   *)
(***************************************************************************)
EXTENDS Workspace, FiniteSetTheorems, TLAPS

Logs == Seq(Nat \ {0})
Places ==
  {"rest", "open", "write", "rename", "generated", "persist", "check for review", "check for build",
   "reviews for review", "reviews for build", "review", "build", "written", "install", "place",
   "backup", "replace", "restore"}
Mem == [number : Nat, file : Inodes \cup {0}, log : Seq(Nat), snapshot : Seq(Seq(Nat)),
        reviews : Seq(Nat), backup : Seq(Seq(Nat))]

Typed ==
  /\ inode \in [Inodes -> Seq(Nat)]
  /\ live \in Inodes \cup {0} /\ temp \in Inodes \cup {0}
  /\ candidates \in Seq(Seq(Nat)) /\ bundle \in Seq(Seq(Nat))
  /\ reviews \in Seq([base : Seq(Seq(Nat)), operations : Seq(Nat)])
  /\ at \in [Procs -> Places] /\ mem \in [Procs -> Mem]
  /\ started \in Nat /\ faults \in Nat /\ faults <= MaxFaults

\* No two commands that add revisions, or reviews, are between reading the log
\* and replacing it.
Adding == {"open", "write", "rename"}
AddsApart == \A p, q \in Procs : at[p] \in Adding /\ at[q] \in Adding => p = q
ReviewsApart == \A p, q \in Procs : at[p] = "review" /\ at[q] = "review" => p = q

\* What an editor relies on while it adds a revision, ...
Editing(p) ==
  /\ at[p] \in Adding => mem[p].log \in Logs /\ IsPrefix(Log, mem[p].log)
  /\ IF at[p] \in {"write", "rename"} THEN temp # 0 /\ mem[p].file = temp ELSE mem[p].file = 0
  /\ at[p] = "write" => inode[temp] = Torn
  /\ at[p] = "rename" => inode[temp] = mem[p].log
LogInv ==
  /\ live # 0 => live # temp /\ inode[live] \in Logs
  /\ \A p \in Procs : Editing(p)

\* ... while it adds a review, ...
Reviewing(p) ==
  at[p] = "review" => IF reviews = None
                      THEN mem[p].reviews = <<>>
                      ELSE reviews[1].base = mem[p].snapshot /\ reviews[1].operations = mem[p].reviews

\* ... and anybody while building a PDF.
Building(p) ==
  /\ at[p] \in {"reviews for build", "build"} => IsPrefix(mem[p].snapshot[1], Log)
  /\ at[p] \in {"reviews for build", "build", "written"} => mem[p].snapshot[1] \in Seq(Nat)
  /\ at[p] = "written" => IsPrefix(mem[p].snapshot[1], mem[p].log)

\* What an exporter relies on: it has a backup from when it takes one until
\* it is done, and as long as no rename failed, one that could not put its
\* directory in place was kept from it by another.
Replacing == {"replace", "restore"}
Others(p) == bundle # None \/ orphans # {} \/ \E q \in Procs \ {p} : mem[q].backup # None
Exporting(p) ==
  /\ mem[p].backup # None <=> at[p] \in Replacing
  /\ at[p] = "restore" /\ faults = 0 => Others(p)
BundleInv == None \notin orphans /\ \A p \in Procs : Exporting(p)

-----------------------------------------------------------------------------
(***************************************************************************)
(* Prefixes.                                                               *)
(***************************************************************************)
LEMMA PrefixItself == ASSUME NEW S, NEW s \in Seq(S) PROVE IsPrefix(s, s)
BY DEF IsPrefix

LEMMA PrefixAppend ==
  ASSUME NEW S, NEW s \in Seq(S), NEW e \in S PROVE IsPrefix(s, Append(s, e))
<1>1. Len(s) <= Len(Append(s, e))
  OBVIOUS
<1>2. SubSeq(s, 1, Len(s)) = s /\ SubSeq(Append(s, e), 1, Len(s)) = s
  OBVIOUS
<1>3. QED
  BY <1>1, <1>2 DEF IsPrefix

LEMMA PrefixTransitive ==
  ASSUME NEW S, NEW r \in Seq(S), NEW s \in Seq(S), NEW t \in Seq(S), IsPrefix(r, s), IsPrefix(s, t)
  PROVE  IsPrefix(r, t)
<1>1. Len(r) <= Len(t)
  BY DEF IsPrefix
<1>2. \A k \in 1 .. Len(r) : r[k] = t[k]
  BY DEF IsPrefix
<1>3. QED
  BY <1>1, <1>2 DEF IsPrefix

LEMMA EmptyPrefix == ASSUME NEW S, NEW s \in Seq(S) PROVE IsPrefix(<<>>, s)
BY DEF IsPrefix

LEMMA LogsAreWhole == ASSUME NEW s \in Logs PROVE s \in Seq(Nat) /\ s # Torn
<1>1. \A k \in 1 .. Len(s) : s[k] \in Nat /\ s[k] # 0
  BY DEF Logs
<1>2. s \in Seq(Nat)
  BY <1>1, s \in Seq(Nat \ {0}) DEF Logs
<1>3. Len(Torn) = 1 /\ Torn[1] = 0
  BY DEF Torn
<1>4. QED
  BY <1>1, <1>2, <1>3

LEMMA FirstIsThere == ASSUME NEW S, NEW s \in Seq(S), s # <<>> PROVE s[1] \in S
OBVIOUS

-----------------------------------------------------------------------------
(***************************************************************************)
(* Types.                                                                  *)
(***************************************************************************)
LEMMA LogIsTyped == Typed => Log \in Seq(Nat)
BY DEF Typed, Log

LEMMA FreshIsTyped == Fresh \in Mem
BY DEF Fresh, Mem, None

LEMMA TypedInit == Init => Typed
<1> SUFFICES ASSUME Init PROVE Typed
  OBVIOUS
<1>1. inode \in [Inodes -> Seq(Nat)]
  BY DEF Init
<1>2. at \in [Procs -> Places] /\ mem \in [Procs -> Mem]
  BY FreshIsTyped DEF Init, Places
<1>3. QED
  BY <1>1, <1>2, BoundsAssumption DEF Init, Typed, None

LEMMA MemChanges ==
  ASSUME NEW m \in Mem
  PROVE  /\ \A n \in Nat : [m EXCEPT !.number = n] \in Mem
         /\ \A i \in Inodes \cup {0} : [m EXCEPT !.file = i] \in Mem
         /\ \A s \in Seq(Nat) : [m EXCEPT !.log = s] \in Mem /\ [m EXCEPT !.reviews = s] \in Mem
         /\ \A s \in Seq(Seq(Nat)) : [m EXCEPT !.snapshot = s] \in Mem /\ [m EXCEPT !.backup = s] \in Mem
<1>1. \A n \in Nat : [m EXCEPT !.number = n] \in Mem
  BY DEF Mem
<1>2. \A i \in Inodes \cup {0} : [m EXCEPT !.file = i] \in Mem
  BY DEF Mem
<1>3. \A s \in Seq(Nat) : [m EXCEPT !.log = s] \in Mem /\ [m EXCEPT !.reviews = s] \in Mem
  BY DEF Mem
<1>4. \A s \in Seq(Seq(Nat)) : [m EXCEPT !.snapshot = s] \in Mem /\ [m EXCEPT !.backup = s] \in Mem
  BY DEF Mem
<1>5. QED
  BY <1>1, <1>2, <1>3, <1>4

\* Where a step takes a process, and what it then remembers.
MovesTyped == at' \in [Procs -> Places] /\ mem' \in [Procs -> Mem]

LEMMA StepMoves ==
  ASSUME Typed, NEW p \in Procs, NEW s \in Places, NEW m \in Mem
  PROVE  /\ To(p, s) /\ Keeps(p, m) => MovesTyped
         /\ To(p, s) /\ UNCHANGED mem => MovesTyped
         /\ Ends(p) => MovesTyped
         /\ Starts(p, s, m) => MovesTyped /\ started' \in Nat
<1>1. /\ To(p, s) => at' \in [Procs -> Places]
      /\ To(p, "rest") => at' \in [Procs -> Places]
  BY DEF Typed, To, Places
<1>2. /\ Keeps(p, m) => mem' \in [Procs -> Mem]
      /\ Keeps(p, Fresh) => mem' \in [Procs -> Mem]
  BY FreshIsTyped DEF Typed, Keeps
<1>3. Starts(p, s, m) => mem' \in [Procs -> Mem] /\ started' \in Nat
  <2>1. started + 1 \in Nat
    BY DEF Typed
  <2>2. [m EXCEPT !.number = started + 1] \in Mem
    BY <2>1, MemChanges
  <2>3. QED
    BY <2>1, <2>2 DEF Typed, Starts, Keeps
<1>4. QED
  BY <1>1, <1>2, <1>3 DEF Typed, MovesTyped, Ends, Starts

\* There is a name for a new file.
LEMMA FreeInode == Typed /\ temp = 0 => \E j \in Inodes : j \notin InUse
<1> SUFFICES ASSUME Typed, temp = 0 PROVE \E j \in Inodes : j \notin InUse
  OBVIOUS
<1> DEFINE held == {mem[p].file : p \in Procs}
           n == Cardinality(Procs)
<1>1. n \in Nat
  BY FS_CardinalityType, ProcsAssumption
<1>2. IsFiniteSet(held) /\ Cardinality(held) <= n
  <2>1. [p \in Procs |-> mem[p].file] \in Surjection(Procs, held)
    BY DEF Surjection
  <2>2. QED
    BY <2>1, FS_Surjection, ProcsAssumption
<1>3. IsFiniteSet(InUse) /\ Cardinality(InUse) <= n + 2
  <2>1. IsFiniteSet(held \cup {live}) /\ Cardinality(held \cup {live}) <= n + 1
    <3>1. Cardinality(held) \in Nat
      BY <1>2, FS_CardinalityType
    <3>2. /\ IsFiniteSet(held \cup {live})
          /\ Cardinality(held \cup {live}) = IF live \in held THEN Cardinality(held) ELSE Cardinality(held) + 1
      BY <1>2, FS_AddElement
    <3>3. QED
      BY <1>1, <1>2, <3>1, <3>2
  <2>2. IsFiniteSet((held \cup {live}) \cup {temp}) /\ Cardinality((held \cup {live}) \cup {temp}) <= n + 2
    <3> DEFINE some == held \cup {live}
    <3>1. Cardinality(some) \in Nat
      BY <2>1, FS_CardinalityType
    <3>2. /\ IsFiniteSet(some \cup {temp})
          /\ Cardinality(some \cup {temp}) = IF temp \in some THEN Cardinality(some) ELSE Cardinality(some) + 1
      BY <2>1, FS_AddElement
    <3>3. QED
      BY <1>1, <2>1, <3>1, <3>2
  <2>3. InUse = (held \cup {live}) \cup {temp}
    BY DEF InUse
  <2>4. QED
    BY <2>2, <2>3
<1>4. Inodes \cup {0} = 0 .. n + 2 /\ Cardinality(0 .. n + 2) = n + 3
  BY <1>1, FS_Interval DEF Inodes
<1>5. ~ (Inodes \cup {0} \subseteq InUse)
  BY <1>1, <1>3, <1>4, FS_Subset, FS_CardinalityType
<1>6. QED
  BY <1>5 DEF InUse

LEMMA ReviseTyped ==
  ASSUME Typed, NEW p \in Procs,
         ReviseStart(p) \/ ReviseOpen(p) \/ ReviseWrite(p) \/ ReviseRename(p)
  PROVE  Typed'
<1>1. mem[p] \in Mem /\ Log \in Seq(Nat) /\ started + 1 \in Nat
  BY LogIsTyped DEF Typed
<1>2. CASE ReviseStart(p)
  <2>1. Append(Log, started + 1) \in Seq(Nat)
    BY <1>1
  <2>2. [Fresh EXCEPT !.log = Append(Log, started + 1)] \in Mem
    BY <2>1, FreshIsTyped, MemChanges
  <2>3. MovesTyped /\ started' \in Nat
    BY <1>2, <2>2, StepMoves, "open" \in Places DEF ReviseStart, Places
  <2>4. QED
    BY <1>2, <2>3 DEF Typed, MovesTyped, ReviseStart, files, marks, exports
<1>3. CASE ReviseOpen(p)
  <2>1. PICK i \in Inodes :
          /\ inode' = [inode EXCEPT ![i] = Torn]
          /\ temp' = i
          /\ Keeps(p, [mem[p] EXCEPT !.file = i])
    BY <1>3, FreeInode DEF Typed, ReviseOpen
  <2>2. [mem[p] EXCEPT !.file = i] \in Mem
    BY <1>1, MemChanges
  <2>3. MovesTyped
    BY <1>3, <2>1, <2>2, StepMoves, "write" \in Places DEF ReviseOpen, Places
  <2>4. inode' \in [Inodes -> Seq(Nat)]
    BY <2>1 DEF Typed, Torn
  <2>5. QED
    BY <1>3, <2>1, <2>3, <2>4 DEF Typed, MovesTyped, ReviseOpen, marks, exports
<1>4. CASE ReviseWrite(p)
  <2>1. MovesTyped
    BY <1>1, <1>4, StepMoves, "rename" \in Places DEF ReviseWrite, Places
  <2>2. mem[p].log \in Seq(Nat) /\ Torn \in Seq(Nat)
    BY <1>1 DEF Mem, Torn
  <2>3. inode' \in [Inodes -> Seq(Nat)]
    BY <1>4, <2>2 DEF Typed, ReviseWrite
  <2>4. QED
    BY <1>4, <2>1, <2>3 DEF Typed, MovesTyped, ReviseWrite, marks, exports
<1>5. CASE ReviseRename(p)
  <2>1. MovesTyped
    BY <1>5, StepMoves, FreshIsTyped DEF ReviseRename, Places
  <2>2. QED
    BY <1>5, <2>1 DEF Typed, MovesTyped, ReviseRename, marks, exports
<1>6. QED
  BY <1>2, <1>3, <1>4, <1>5

LEMMA BookmarksTyped ==
  ASSUME Typed, NEW p \in Procs,
         \/ GenerateStart(p) \/ GenerateCheck(p) \/ GeneratePersist(p)
         \/ \E c \in Commands : SnapshotStart(p, c) \/ SnapshotCheck(p, c) \/ LoadReviews(p, c)
         \/ ReviewSave(p) \/ BuildText(p) \/ BuildPersist(p)
  PROVE  Typed'
<1> USE DEF files, marks, exports
<1>1. mem[p] \in Mem /\ Fresh \in Mem /\ Log \in Seq(Nat)
  BY LogIsTyped, FreshIsTyped DEF Typed
<1>2. CASE GenerateStart(p)
  <2>1. <<Log>> \in Seq(Seq(Nat))
    BY <1>1
  <2>2. [Fresh EXCEPT !.snapshot = <<Log>>] \in Mem
    BY <1>1, <2>1, MemChanges
  <2>3. MovesTyped /\ started' \in Nat
    BY <1>2, <2>2, StepMoves, "generated" \in Places DEF GenerateStart, Places
  <2>4. QED
    BY <1>2, <2>3 DEF Typed, MovesTyped, GenerateStart
<1>3. CASE GenerateCheck(p)
  <2>1. MovesTyped
    BY <1>1, <1>3, StepMoves, "persist" \in Places DEF GenerateCheck, Places
  <2>2. QED
    BY <1>3, <2>1 DEF Typed, MovesTyped, GenerateCheck
<1>4. CASE GeneratePersist(p)
  <2>1. MovesTyped
    BY <1>1, <1>4, StepMoves, "rest" \in Places DEF GeneratePersist, Places
  <2>2. mem[p].snapshot \in Seq(Seq(Nat))
    BY <1>1 DEF Mem
  <2>3. QED
    BY <1>4, <2>1, <2>2 DEF Typed, MovesTyped, GeneratePersist
<1>5. ASSUME NEW c \in Commands, SnapshotStart(p, c) \/ SnapshotCheck(p, c) \/ LoadReviews(p, c)
      PROVE  Typed'
  <2>1. Check[c] \in Places /\ Reviews[c] \in Places /\ c \in Places /\ "rest" \in Places
    <3>1. CASE c = "review"
      BY <3>1 DEF Check, Reviews, Places
    <3>2. CASE c = "build"
      BY <3>2 DEF Check, Reviews, Places
    <3>3. QED
      BY <3>1, <3>2 DEF Commands
  <2>2. CASE SnapshotStart(p, c)
    <3>1. [Fresh EXCEPT !.snapshot = candidates] \in Mem
      BY <1>1, MemChanges DEF Typed
    <3>2. MovesTyped /\ started' \in Nat
      BY <2>1, <2>2, <3>1, StepMoves DEF SnapshotStart
    <3>3. QED
      BY <2>2, <3>2 DEF Typed, MovesTyped, SnapshotStart
  <2>3. CASE SnapshotCheck(p, c)
    <3>1. MovesTyped
      BY <1>1, <2>1, <2>3, StepMoves DEF SnapshotCheck
    <3>2. QED
      BY <2>3, <3>1 DEF Typed, MovesTyped, SnapshotCheck
  <2>4. CASE LoadReviews(p, c)
    <3>1. <<>> \in Seq(Nat) /\ (reviews # None => reviews[1].operations \in Seq(Nat))
      <4>1. reviews \in Seq([base : Seq(Seq(Nat)), operations : Seq(Nat)])
        BY DEF Typed
      <4>2. reviews # None => reviews[1] \in [base : Seq(Seq(Nat)), operations : Seq(Nat)]
        BY <4>1, FirstIsThere DEF None
      <4>3. QED
        BY <4>2
    <3>2. /\ [mem[p] EXCEPT !.reviews = <<>>] \in Mem
          /\ reviews # None => [mem[p] EXCEPT !.reviews = reviews[1].operations] \in Mem
      BY <1>1, <3>1, MemChanges
    <3>3. MovesTyped
      BY <2>1, <2>4, <3>2, StepMoves, FreshIsTyped DEF LoadReviews
    <3>4. QED
      BY <2>4, <3>3 DEF Typed, MovesTyped, LoadReviews
  <2>5. QED
    BY <1>5, <2>2, <2>3, <2>4
<1>6. CASE ReviewSave(p)
  <2>1. MovesTyped
    BY <1>1, <1>6, StepMoves, "rest" \in Places DEF ReviewSave, Places
  <2>2. Append(mem[p].reviews, mem[p].number) \in Seq(Nat) /\ mem[p].snapshot \in Seq(Seq(Nat))
    BY <1>1 DEF Mem
  <2>3. [base |-> mem[p].snapshot, operations |-> Append(mem[p].reviews, mem[p].number)]
          \in [base : Seq(Seq(Nat)), operations : Seq(Nat)]
    BY <2>2
  <2>4. reviews' \in Seq([base : Seq(Seq(Nat)), operations : Seq(Nat)])
    BY <1>6, <2>3 DEF ReviewSave
  <2>5. QED
    BY <1>6, <2>1, <2>4 DEF Typed, MovesTyped, ReviewSave
<1>7. CASE BuildText(p)
  <2>1. [mem[p] EXCEPT !.log = Log] \in Mem
    BY <1>1, MemChanges
  <2>2. MovesTyped
    BY <1>1, <1>7, <2>1, StepMoves, "written" \in Places DEF BuildText, Places
  <2>3. QED
    BY <1>7, <2>2 DEF Typed, MovesTyped, BuildText
<1>8. CASE BuildPersist(p)
  <2>1. MovesTyped
    BY <1>1, <1>8, StepMoves, "rest" \in Places DEF BuildPersist, Places
  <2>2. QED
    BY <1>8, <2>1 DEF Typed, MovesTyped, BuildPersist
<1>9. QED
  BY <1>2, <1>3, <1>4, <1>5, <1>6, <1>7, <1>8

LEMMA ExportTyped ==
  ASSUME Typed, NEW p \in Procs,
         \/ ExportStart(p) \/ ExportLook(p) \/ ExportBackup(p)
         \/ ExportPlace(p) \/ ExportReplace(p) \/ ExportRestore(p) \/ Crash(p)
  PROVE  Typed'
<1> USE DEF files, marks, exports
<1>1. mem[p] \in Mem /\ Fresh \in Mem /\ Log \in Seq(Nat)
  BY LogIsTyped, FreshIsTyped DEF Typed
<1>2. {"rest", "install", "place", "backup", "replace", "restore"} \subseteq Places
  BY DEF Places
<1>3. CASE ExportStart(p)
  <2>1. [Fresh EXCEPT !.log = Log] \in Mem
    BY <1>1, MemChanges
  <2>2. MovesTyped /\ started' \in Nat
    BY <1>2, <1>3, <2>1, StepMoves DEF ExportStart
  <2>3. QED
    BY <1>3, <2>2 DEF Typed, MovesTyped, ExportStart
<1>4. bundle \in Seq(Seq(Nat)) /\ faults \in Nat /\ faults <= MaxFaults /\ MaxFaults \in Nat
  BY BoundsAssumption DEF Typed
<1>5. /\ Placed(p) => bundle' \in Seq(Seq(Nat)) /\ faults' \in Nat /\ faults' <= MaxFaults
      /\ NotPlaced => bundle' \in Seq(Seq(Nat)) /\ faults' \in Nat /\ faults' <= MaxFaults
  <2>1. <<mem[p].log>> \in Seq(Seq(Nat))
    BY <1>1 DEF Mem
  <2>2. UNCHANGED faults => faults' \in Nat /\ faults' <= MaxFaults
    BY <1>4
  <2>3. Placed(p) => bundle' \in Seq(Seq(Nat)) /\ UNCHANGED faults
    BY <2>1 DEF Placed
  <2>4. NotPlaced => bundle' \in Seq(Seq(Nat)) /\ (UNCHANGED faults \/ (faults < MaxFaults /\ faults' = faults + 1))
    BY <1>4 DEF NotPlaced
  <2>5. QED
    BY <1>4, <2>2, <2>3, <2>4
<1>6. CASE ExportLook(p)
  <2>1. MovesTyped
    BY <1>1, <1>2, <1>6, StepMoves DEF ExportLook
  <2>2. QED
    BY <1>6, <2>1 DEF Typed, MovesTyped, ExportLook
<1>7. CASE ExportBackup(p)
  <2>1. [mem[p] EXCEPT !.backup = bundle] \in Mem
    BY <1>1, <1>4, MemChanges
  <2>2. MovesTyped
    BY <1>1, <1>2, <1>7, <2>1, StepMoves DEF ExportBackup
  <2>3. bundle' \in Seq(Seq(Nat))
    <3>1. None \in Seq(Seq(Nat))
      BY DEF None
    <3>2. bundle' = bundle \/ bundle' = None
      BY <1>7 DEF ExportBackup
    <3>3. QED
      BY <1>4, <3>1, <3>2
  <2>4. QED
    BY <1>7, <2>2, <2>3 DEF Typed, MovesTyped, ExportBackup
<1>8. CASE ExportPlace(p)
  <2>1. MovesTyped
    BY <1>1, <1>2, <1>8, StepMoves DEF ExportPlace
  <2>2. QED
    BY <1>5, <1>8, <2>1 DEF Typed, MovesTyped, ExportPlace
<1>9. CASE ExportReplace(p)
  <2>1. MovesTyped
    BY <1>1, <1>2, <1>9, StepMoves DEF ExportReplace
  <2>2. QED
    BY <1>5, <1>9, <2>1 DEF Typed, MovesTyped, ExportReplace
<1>10. CASE ExportRestore(p)
  <2>1. MovesTyped
    BY <1>1, <1>2, <1>10, StepMoves DEF ExportRestore
  <2>2. mem[p].backup \in Seq(Seq(Nat))
    BY <1>1 DEF Mem
  <2>3. QED
    BY <1>5, <1>10, <2>1, <2>2 DEF Typed, MovesTyped, ExportRestore
<1>11. CASE Crash(p)
  <2>1. MovesTyped
    BY <1>1, <1>2, <1>11, StepMoves DEF Crash
  <2>2. QED
    BY <1>11, <2>1 DEF Typed, MovesTyped, Crash
<1>12. QED
  BY <1>3, <1>6, <1>7, <1>8, <1>9, <1>10, <1>11

LEMMA TypedStep == Typed /\ [Next]_vars => Typed'
<1>1. Typed /\ UNCHANGED vars => Typed'
  BY DEF Typed, vars, files, marks, exports
<1>2. ASSUME NEW p \in Procs, Typed, Step(p) PROVE Typed'
  BY <1>2, ReviseTyped, BookmarksTyped, ExportTyped DEF Step
<1>3. QED
  BY <1>1, <1>2 DEF Next

-----------------------------------------------------------------------------
(***************************************************************************)
(* The log of revisions.                                                   *)
(***************************************************************************)
LEMMA LogIsWhole == LogInv => Log \in Logs
BY DEF LogInv, Log, Logs

\* Only revision add touches its files: for the rest a step of p takes it
\* out of those places, or between others.
Elsewhere(p) ==
  /\ UNCHANGED files
  /\ \A q \in Procs \ {p} : at'[q] = at[q] /\ mem'[q] = mem[q]
  /\ at'[p] \notin Adding /\ mem'[p].file = 0

LEMMA ElsewhereIsQuiet ==
  ASSUME Typed, LogInv, NEW p \in Procs, Elsewhere(p)
  PROVE  LogInv' /\ Log' = Log
<1>1. Log' = Log
  BY DEF Elsewhere, files, Log
<1>2. ASSUME NEW q \in Procs PROVE Editing(q)'
  <2>1. CASE q = p
    BY <2>1 DEF Elsewhere, Editing, Adding
  <2>2. CASE q # p
    BY <1>1, <2>2 DEF LogInv, Elsewhere, Editing, files
  <2>3. QED
    BY <2>1, <2>2
<1>3. QED
  BY <1>1, <1>2 DEF LogInv, Elsewhere, files

LEMMA StepsAside ==
  ASSUME Typed, NEW p \in Procs, UNCHANGED files
  PROVE  /\ \A s, m : To(p, s) /\ Keeps(p, m) /\ s \notin Adding /\ m.file = 0 => Elsewhere(p)
         /\ \A s : To(p, s) /\ UNCHANGED mem /\ s \notin Adding /\ mem[p].file = 0 => Elsewhere(p)
         /\ Ends(p) => Elsewhere(p)
<1>1. at \in [Procs -> Places] /\ mem \in [Procs -> Mem] /\ Fresh.file = 0
  BY DEF Typed, Fresh
<1>2. \A s, m : To(p, s) /\ Keeps(p, m) /\ s \notin Adding /\ m.file = 0 => Elsewhere(p)
  BY <1>1 DEF To, Keeps, Elsewhere
<1>3. \A s : To(p, s) /\ UNCHANGED mem /\ s \notin Adding /\ mem[p].file = 0 => Elsewhere(p)
  BY <1>1 DEF To, Elsewhere
<1>4. QED
  BY <1>1, <1>2, <1>3 DEF Ends, Adding

LEMMA OtherStepsAreElsewhere ==
  ASSUME Typed, LogInv, NEW p \in Procs, Step(p),
         ~ (ReviseStart(p) \/ ReviseOpen(p) \/ ReviseWrite(p) \/ ReviseRename(p))
  PROVE  Elsewhere(p)
<1> USE DEF Adding
<1>1. mem[p] \in Mem /\ Fresh \in Mem /\ Fresh.file = 0
  BY FreshIsTyped DEF Typed, Fresh
<1>2. at[p] \notin {"write", "rename"} => mem[p].file = 0
  BY DEF LogInv, Editing
<1>3. ASSUME NEW m \in Mem
      PROVE  /\ \A v : /\ [m EXCEPT !.number = v].file = m.file
                       /\ [m EXCEPT !.log = v].file = m.file
                       /\ [m EXCEPT !.snapshot = v].file = m.file
                       /\ [m EXCEPT !.reviews = v].file = m.file
                       /\ [m EXCEPT !.backup = v].file = m.file
  BY DEF Mem
<1>4. CASE GenerateStart(p)
  <2>1. [[Fresh EXCEPT !.snapshot = <<Log>>] EXCEPT !.number = started + 1].file = 0
    BY DEF Fresh
  <2>2. QED
    BY <1>4, <2>1, StepsAside DEF GenerateStart, Starts
<1>5. CASE ExportStart(p)
  <2>1. [[Fresh EXCEPT !.log = Log] EXCEPT !.number = started + 1].file = 0
    BY DEF Fresh
  <2>2. QED
    BY <1>5, <2>1, StepsAside DEF ExportStart, Starts
<1>6. CASE GenerateCheck(p) \/ GeneratePersist(p)
  BY <1>2, <1>6, StepsAside DEF GenerateCheck, GeneratePersist
<1>7. ASSUME NEW c \in Commands, SnapshotStart(p, c) \/ SnapshotCheck(p, c) \/ LoadReviews(p, c)
      PROVE  Elsewhere(p)
  <2>1. Check[c] \notin Adding /\ Reviews[c] \notin Adding /\ c \notin Adding
    <3>1. CASE c = "review"
      BY <3>1 DEF Check, Reviews
    <3>2. CASE c = "build"
      BY <3>2 DEF Check, Reviews
    <3>3. QED
      BY <3>1, <3>2 DEF Commands
  <2>2. CASE SnapshotStart(p, c)
    <3>1. [[Fresh EXCEPT !.snapshot = candidates] EXCEPT !.number = started + 1].file = 0
      BY DEF Fresh
    <3>2. QED
      BY <2>1, <2>2, <3>1, StepsAside DEF SnapshotStart, Starts
  <2>3. CASE SnapshotCheck(p, c)
    <3>1. mem[p].file = 0
      BY <1>2, <2>1, <2>3, Check[c] \notin Adding DEF SnapshotCheck
    <3>2. QED
      BY <2>1, <2>3, <3>1, StepsAside DEF SnapshotCheck
  <2>4. CASE LoadReviews(p, c)
    <3>1. mem[p].file = 0 /\ UNCHANGED files
      BY <1>2, <2>1, <2>4 DEF LoadReviews
    <3>2. Ends(p) \/ \E v : To(p, c) /\ Keeps(p, [mem[p] EXCEPT !.reviews = v])
      BY <2>4 DEF LoadReviews
    <3>3. QED
      BY <1>1, <1>3, <2>1, <3>1, <3>2, StepsAside
  <2>5. QED
    BY <1>7, <2>2, <2>3, <2>4
<1>8. CASE ReviewSave(p) \/ BuildPersist(p) \/ ExportPlace(p) \/ ExportRestore(p) \/ Crash(p)
  BY <1>8, StepsAside DEF ReviewSave, BuildPersist, ExportPlace, ExportRestore, Crash
<1>9. CASE BuildText(p)
  <2>1. mem[p].file = 0 /\ UNCHANGED files
    BY <1>2, <1>9 DEF BuildText
  <2>2. Ends(p) \/ \E v : To(p, "written") /\ Keeps(p, [mem[p] EXCEPT !.log = v])
    BY <1>9 DEF BuildText
  <2>3. QED
    BY <1>1, <1>3, <2>1, <2>2, StepsAside
<1>10. CASE ExportLook(p) \/ ExportReplace(p)
  BY <1>2, <1>10, StepsAside DEF ExportLook, ExportReplace
<1>11. CASE ExportBackup(p)
  <2>1. mem[p].file = 0 /\ UNCHANGED files
    BY <1>2, <1>11 DEF ExportBackup
  <2>2. Ends(p) \/ \E v : To(p, "replace") /\ Keeps(p, [mem[p] EXCEPT !.backup = v])
    BY <1>11 DEF ExportBackup
  <2>3. QED
    BY <1>1, <1>3, <2>1, <2>2, StepsAside
<1>12. QED
  BY <1>4, <1>5, <1>6, <1>7, <1>8, <1>9, <1>10, <1>11 DEF Step

\* The steps of revision add: its editor is the only process at them.
LEMMA ReviseSteps ==
  ASSUME AddsApart, AddsApart', Typed, LogInv, NEW p \in Procs,
         ReviseStart(p) \/ ReviseOpen(p) \/ ReviseWrite(p) \/ ReviseRename(p)
  PROVE  LogInv' /\ RevisionsGrow
<1>1. /\ at \in [Procs -> Places] /\ mem \in [Procs -> Mem] /\ inode \in [Inodes -> Seq(Nat)]
      /\ live \in Inodes \cup {0} /\ temp \in Inodes \cup {0} /\ 0 \notin Inodes
  BY DEF Typed, Inodes
<1>2. Editing(p) /\ Log \in Logs /\ Log \in Seq(Nat) /\ Log # Torn
  BY LogIsWhole, LogsAreWhole DEF LogInv
<1>3. \A q \in Procs \ {p} : at'[q] = at[q] /\ mem'[q] = mem[q]
  BY <1>1 DEF ReviseStart, ReviseOpen, ReviseWrite, ReviseRename, Starts, Ends, To, Keeps
<1>4. ASSUME NEW q \in Procs \ {p} PROVE at[q] \notin Adding /\ mem[q].file = 0
  <2>1. at[p] \in Adding \/ at'[p] \in Adding
    BY <1>1 DEF Adding, ReviseStart, ReviseOpen, ReviseWrite, ReviseRename, Starts, To
  <2>2. at[q] \notin Adding
    BY <1>3, <2>1 DEF AddsApart
  <2>3. QED
    BY <2>2 DEF LogInv, Editing, Adding
<1>5. \A q \in Procs \ {p} : Editing(q)'
  BY <1>3, <1>4 DEF Editing, Adding
<1>6. IsPrefix(Log, Log)
  BY <1>2, PrefixItself
<1>7. CASE ReviseStart(p)
  <2> DEFINE log == Append(Log, started + 1)
  <2>1. at'[p] = "open" /\ mem'[p].log = log /\ mem'[p].file = 0 /\ UNCHANGED files
    <3>1. mem'[p] = [[Fresh EXCEPT !.log = log] EXCEPT !.number = started + 1]
      BY <1>1, <1>7 DEF ReviseStart, Starts, Keeps
    <3>2. mem'[p].log = log /\ mem'[p].file = 0
      BY <3>1 DEF Fresh
    <3>3. QED
      BY <1>1, <1>7, <3>2 DEF ReviseStart, Starts, To
  <2>2. log \in Logs /\ IsPrefix(Log, log)
    <3>1. started + 1 \in Nat \ {0}
      BY DEF Typed
    <3>2. QED
      BY <1>2, <3>1, PrefixAppend DEF Logs
  <2>3. Log' = Log
    BY <2>1 DEF Log, files
  <2>4. Editing(p)'
    BY <1>3, <2>1, <2>2, <2>3 DEF Editing, Adding
  <2>5. QED
    BY <1>2, <1>5, <1>6, <2>1, <2>3, <2>4 DEF LogInv, RevisionsGrow, files
<1>8. CASE ReviseOpen(p)
  <2>1. PICK i \in Inodes :
          /\ i # live
          /\ inode' = [inode EXCEPT ![i] = Torn]
          /\ temp' = i
          /\ Keeps(p, [mem[p] EXCEPT !.file = i])
    BY <1>8, FreeInode DEF Typed, LogInv, ReviseOpen, InUse
  <2>2. at'[p] = "write" /\ mem'[p].log = mem[p].log /\ mem'[p].file = i
    <3>1. mem'[p] = [mem[p] EXCEPT !.file = i] /\ mem[p] \in Mem
      BY <1>1, <2>1 DEF Keeps
    <3>2. mem'[p].log = mem[p].log /\ mem'[p].file = i
      BY <3>1 DEF Mem
    <3>3. QED
      BY <1>1, <1>8, <3>2 DEF ReviseOpen, To
  <2>3. live' = live /\ (live # 0 => inode'[live] = inode[live]) /\ inode'[i] = Torn
    BY <1>1, <1>8, <2>1 DEF ReviseOpen
  <2>4. Log' = Log
    BY <2>3 DEF Log
  <2>5. Editing(p)'
    BY <1>1, <1>2, <1>8, <2>1, <2>2, <2>3, <2>4 DEF Editing, Adding, ReviseOpen
  <2>6. QED
    BY <1>2, <1>5, <1>6, <2>1, <2>3, <2>4, <2>5 DEF LogInv, RevisionsGrow
<1>9. CASE ReviseWrite(p)
  <2>1. temp # 0 /\ mem[p].file = temp /\ inode[temp] = Torn /\ temp # live
    BY <1>2, <1>9 DEF Editing, LogInv, ReviseWrite
  <2>2. inode' = [inode EXCEPT ![temp] = mem[p].log] /\ UNCHANGED <<live, temp, mem>>
    BY <1>9, <2>1 DEF ReviseWrite
  <2>3. (live # 0 => inode'[live] = inode[live]) /\ inode'[temp] = mem[p].log /\ at'[p] = "rename"
    BY <1>1, <1>9, <2>1, <2>2 DEF ReviseWrite, To
  <2>4. Log' = Log
    BY <2>2, <2>3 DEF Log
  <2>5. Editing(p)'
    BY <1>2, <1>9, <2>1, <2>2, <2>3, <2>4 DEF Editing, Adding, ReviseWrite
  <2>6. QED
    BY <1>2, <1>5, <1>6, <2>1, <2>2, <2>3, <2>4, <2>5 DEF LogInv, RevisionsGrow
<1>10. CASE ReviseRename(p)
  <2>1. /\ temp # 0 /\ inode[temp] = mem[p].log /\ mem[p].log \in Logs /\ IsPrefix(Log, mem[p].log)
    BY <1>2, <1>10 DEF Editing, Adding, ReviseRename
  <2>2. live' = temp /\ temp' = 0 /\ inode' = inode
    BY <1>10, <2>1 DEF ReviseRename
  <2>3. at'[p] = "rest" /\ mem'[p].file = 0
    BY <1>1, <1>10 DEF ReviseRename, Ends, To, Keeps, Fresh
  <2>4. Log' = mem[p].log
    BY <2>1, <2>2 DEF Log
  <2>5. Editing(p)'
    BY <2>3 DEF Editing, Adding
  <2>6. QED
    BY <1>5, <2>1, <2>2, <2>4, <2>5, LogsAreWhole DEF LogInv, RevisionsGrow
<1>11. QED
  BY <1>7, <1>8, <1>9, <1>10

LEMMA LogStep == AddsApart /\ AddsApart' /\ Typed /\ LogInv /\ [Next]_vars => LogInv' /\ RevisionsGrow
<1> SUFFICES ASSUME AddsApart, AddsApart', Typed, LogInv, [Next]_vars PROVE LogInv' /\ RevisionsGrow
  OBVIOUS
<1>1. Log # Torn /\ IsPrefix(Log, Log)
  BY LogIsWhole, LogsAreWhole, PrefixItself DEF Logs
<1>2. CASE UNCHANGED vars
  <2>1. Log' = Log
    BY <1>2 DEF Log, vars, files
  <2>2. \A q \in Procs : Editing(q)'
    BY <1>2, <2>1 DEF LogInv, Editing, vars, files
  <2>3. QED
    BY <1>1, <1>2, <2>1, <2>2 DEF LogInv, RevisionsGrow, vars, files
<1>3. ASSUME NEW p \in Procs, Step(p) PROVE LogInv' /\ RevisionsGrow
  BY <1>1, <1>3, ReviseSteps, OtherStepsAreElsewhere, ElsewhereIsQuiet DEF RevisionsGrow
<1>4. QED
  BY <1>2, <1>3 DEF Next

LEMMA LogInit == Init => LogInv
BY DEF Init, LogInv, Editing, Adding, Fresh

-----------------------------------------------------------------------------
(***************************************************************************)
(* Reviews and PDFs.                                                       *)
(***************************************************************************)
\* A step is of one process.
LEMMA OthersStay ==
  ASSUME Typed, NEW p \in Procs, Step(p)
  PROVE  \A q \in Procs \ {p} : at'[q] = at[q] /\ mem'[q] = mem[q]
<1> USE DEF Starts, Ends, To, Keeps
<1>1. at \in [Procs -> Places] /\ mem \in [Procs -> Mem]
  BY DEF Typed
<1>2. CASE ReviseStart(p) \/ ReviseOpen(p) \/ ReviseWrite(p) \/ ReviseRename(p)
  BY <1>1, <1>2 DEF ReviseStart, ReviseOpen, ReviseWrite, ReviseRename
<1>3. CASE GenerateStart(p) \/ GenerateCheck(p) \/ GeneratePersist(p)
  BY <1>1, <1>3 DEF GenerateStart, GenerateCheck, GeneratePersist
<1>4. CASE \E c \in Commands : SnapshotStart(p, c) \/ SnapshotCheck(p, c) \/ LoadReviews(p, c)
  BY <1>1, <1>4 DEF SnapshotStart, SnapshotCheck, LoadReviews
<1>5. CASE ReviewSave(p) \/ BuildText(p) \/ BuildPersist(p)
  BY <1>1, <1>5 DEF ReviewSave, BuildText, BuildPersist
<1>6. CASE ExportStart(p) \/ ExportLook(p) \/ ExportBackup(p)
  BY <1>1, <1>6 DEF ExportStart, ExportLook, ExportBackup
<1>7. CASE ExportPlace(p) \/ ExportReplace(p) \/ ExportRestore(p) \/ Crash(p)
  BY <1>1, <1>7 DEF ExportPlace, ExportReplace, ExportRestore, Crash
<1>8. QED
  BY <1>2, <1>3, <1>4, <1>5, <1>6, <1>7 DEF Step

\* How a process gets to where a review or a PDF is made.
Arrives(p) ==
  /\ at'[p] = "check for review" => p \in Editors
  /\ at'[p] = "reviews for review" => at[p] = "check for review"
  /\ at'[p] = "review" =>
       /\ at[p] = "reviews for review"
       /\ UNCHANGED reviews
       /\ IF reviews = None
          THEN mem'[p].reviews = <<>>
          ELSE reviews[1].base = mem'[p].snapshot /\ reviews[1].operations = mem'[p].reviews
  /\ at'[p] = "reviews for build" => mem'[p].snapshot = <<Log>> /\ UNCHANGED files
  /\ at'[p] = "build" => at[p] = "reviews for build" /\ mem'[p].snapshot = mem[p].snapshot /\ UNCHANGED files
  /\ at'[p] = "written" => at[p] = "build" /\ mem'[p].snapshot = mem[p].snapshot /\ mem'[p].log = Log

LEMMA StepArrives == ASSUME Typed, NEW p \in Procs, Step(p) PROVE Arrives(p)
<1> USE DEF Starts, Ends, To
<1>1. at \in [Procs -> Places] /\ mem \in [Procs -> Mem] /\ mem[p] \in Mem
  BY DEF Typed
<1>2. CASE ReviseStart(p) \/ ReviseOpen(p) \/ ReviseWrite(p) \/ ReviseRename(p)
  BY <1>1, <1>2 DEF Arrives, ReviseStart, ReviseOpen, ReviseWrite, ReviseRename
<1>3. CASE GenerateStart(p) \/ GenerateCheck(p) \/ GeneratePersist(p)
  BY <1>1, <1>3 DEF Arrives, GenerateStart, GenerateCheck, GeneratePersist
<1>4. ASSUME NEW c \in Commands, SnapshotStart(p, c) \/ SnapshotCheck(p, c) \/ LoadReviews(p, c)
      PROVE  Arrives(p)
  <2>1. \/ c = "review" /\ Check[c] = "check for review" /\ Reviews[c] = "reviews for review"
        \/ c = "build" /\ Check[c] = "check for build" /\ Reviews[c] = "reviews for build"
    <3>1. CASE c = "review"
      BY <3>1 DEF Check, Reviews
    <3>2. CASE c = "build"
      BY <3>2 DEF Check, Reviews
    <3>3. QED
      BY <3>1, <3>2 DEF Commands
  <2>2. CASE SnapshotStart(p, c)
    BY <1>1, <2>1, <2>2 DEF Arrives, SnapshotStart
  <2>3. CASE SnapshotCheck(p, c)
    BY <1>1, <2>1, <2>3 DEF Arrives, SnapshotCheck
  <2>4. CASE LoadReviews(p, c)
    <3>1. CASE Ends(p)
      BY <1>1, <3>1 DEF Arrives
    <3>2. ASSUME NEW v, To(p, c), Keeps(p, [mem[p] EXCEPT !.reviews = v])
          PROVE  at'[p] = c /\ mem'[p].reviews = v /\ mem'[p].snapshot = mem[p].snapshot
      <4>1. mem'[p] = [mem[p] EXCEPT !.reviews = v]
        BY <1>1, <3>2 DEF Keeps
      <4>2. mem'[p].reviews = v /\ mem'[p].snapshot = mem[p].snapshot
        BY <1>1, <4>1 DEF Mem
      <4>3. QED
        BY <1>1, <3>2, <4>2
    <3>3. at[p] = Reviews[c] /\ UNCHANGED <<reviews, files>>
      BY <2>4 DEF LoadReviews, marks
    <3>4. CASE reviews = None
      <4>1. at'[p] = c /\ mem'[p].reviews = <<>> /\ mem'[p].snapshot = mem[p].snapshot
        BY <2>4, <3>2, <3>4 DEF LoadReviews
      <4>2. QED
        BY <2>1, <3>3, <3>4, <4>1 DEF Arrives
    <3>5. CASE reviews # None /\ reviews[1].base = mem[p].snapshot
      <4>1. at'[p] = c /\ mem'[p].reviews = reviews[1].operations /\ mem'[p].snapshot = mem[p].snapshot
        BY <2>4, <3>2, <3>5 DEF LoadReviews
      <4>2. QED
        BY <2>1, <3>3, <3>5, <4>1 DEF Arrives
    <3>6. QED
      BY <2>4, <3>1, <3>4, <3>5 DEF LoadReviews
  <2>5. QED
    BY <1>4, <2>2, <2>3, <2>4
<1>5. CASE ReviewSave(p) \/ BuildPersist(p)
  BY <1>1, <1>5 DEF Arrives, ReviewSave, BuildPersist
<1>6. CASE BuildText(p)
  <2>1. CASE Ends(p)
    BY <1>1, <2>1 DEF Arrives
  <2>2. CASE To(p, "written") /\ Keeps(p, [mem[p] EXCEPT !.log = Log])
    <3>1. mem'[p] = [mem[p] EXCEPT !.log = Log]
      BY <1>1, <2>2 DEF Keeps
    <3>2. mem'[p].log = Log /\ mem'[p].snapshot = mem[p].snapshot
      BY <1>1, <3>1 DEF Mem
    <3>3. QED
      BY <1>1, <1>6, <2>2, <3>2 DEF Arrives, BuildText
  <2>3. QED
    BY <1>6, <2>1, <2>2 DEF BuildText
<1>7. CASE ExportStart(p) \/ ExportLook(p) \/ ExportBackup(p)
  BY <1>1, <1>7 DEF Arrives, ExportStart, ExportLook, ExportBackup
<1>8. CASE ExportPlace(p) \/ ExportReplace(p) \/ ExportRestore(p) \/ Crash(p)
  BY <1>1, <1>8 DEF Arrives, ExportPlace, ExportReplace, ExportRestore, Crash
<1>9. QED
  BY <1>2, <1>3, <1>4, <1>5, <1>6, <1>7, <1>8 DEF Step

LEMMA ReviewsAreSaved ==
  ASSUME NEW p, Step(p) PROVE UNCHANGED reviews \/ ReviewSave(p)
BY DEF Step, ReviseStart, ReviseOpen, ReviseWrite, ReviseRename, GenerateStart, GenerateCheck,
       GeneratePersist, SnapshotStart, SnapshotCheck, LoadReviews, BuildText, BuildPersist,
       ExportStart, ExportLook, ExportBackup, ExportPlace, ExportReplace, ExportRestore, Crash, marks

LEMMA PdfIsBuilt ==
  ASSUME NEW p, Step(p) PROVE UNCHANGED pdf \/ BuildPersist(p)
BY DEF Step, ReviseStart, ReviseOpen, ReviseWrite, ReviseRename, GenerateStart, GenerateCheck,
       GeneratePersist, SnapshotStart, SnapshotCheck, LoadReviews, ReviewSave, BuildText,
       ExportStart, ExportLook, ExportBackup, ExportPlace, ExportReplace, ExportRestore, Crash, marks

LEMMA ReviewStep ==
  ASSUME ReviewsApart, Typed, \A q \in Procs : Reviewing(q), [Next]_vars
  PROVE  (\A q \in Procs : Reviewing(q))' /\ ReviewsGrow
<1>1. reviews # None => reviews[1].operations \in Seq(Nat)
  <2>1. reviews \in Seq([base : Seq(Seq(Nat)), operations : Seq(Nat)])
    BY DEF Typed
  <2>2. reviews # None => reviews[1] \in [base : Seq(Seq(Nat)), operations : Seq(Nat)]
    BY <2>1, FirstIsThere DEF None
  <2>3. QED
    BY <2>2
<1>2. UNCHANGED reviews => ReviewsGrow
  BY <1>1, PrefixItself DEF ReviewsGrow
<1>3. CASE UNCHANGED vars
  BY <1>2, <1>3 DEF Reviewing, vars, marks
<1>4. ASSUME NEW p \in Procs, Step(p)
      PROVE  (\A q \in Procs : Reviewing(q))' /\ ReviewsGrow
  <2>1. Arrives(p) /\ \A q \in Procs \ {p} : at'[q] = at[q] /\ mem'[q] = mem[q]
    BY <1>4, StepArrives, OthersStay
  <2>2. Reviewing(p)'
    BY <2>1 DEF Arrives, Reviewing
  <2>3. CASE ReviewSave(p)
    <3>1. /\ reviews # None => reviews[1].base = mem[p].snapshot /\ reviews[1].operations = mem[p].reviews
          /\ at[p] = "review"
      BY <2>3 DEF Reviewing, ReviewSave
    <3>2. mem[p].number \in Nat
      BY DEF Typed, Mem
    <3>3. ReviewsGrow
      BY <1>1, <2>3, <3>1, <3>2, PrefixAppend DEF ReviewSave, ReviewsGrow, None
    <3>4. ASSUME NEW q \in Procs \ {p} PROVE Reviewing(q)'
      BY <2>1, <3>1 DEF ReviewsApart, Reviewing
    <3>5. QED
      BY <2>2, <3>3, <3>4
  <2>4. CASE UNCHANGED reviews
    <3>1. ASSUME NEW q \in Procs \ {p} PROVE Reviewing(q)'
      BY <2>1, <2>4 DEF Reviewing
    <3>2. QED
      BY <1>2, <2>2, <2>4, <3>1
  <2>5. QED
    BY <1>4, <2>3, <2>4, ReviewsAreSaved
<1>5. QED
  BY <1>3, <1>4 DEF Next

LEMMA BuildStep ==
  ASSUME Typed, Typed', RevisionsGrow, \A q \in Procs : Building(q), TextIsNotOlder, [Next]_vars
  PROVE  (\A q \in Procs : Building(q))' /\ TextIsNotOlder'
<1>1. Log \in Seq(Nat) /\ Log' \in Seq(Nat) /\ IsPrefix(Log, Log')
  BY DEF Typed, Log, RevisionsGrow
<1>2. CASE UNCHANGED vars
  <2>1. Log' = Log
    BY <1>2 DEF Log, vars, files
  <2>2. QED
    BY <1>2, <2>1 DEF Building, TextIsNotOlder, vars, marks
<1>3. ASSUME NEW p \in Procs, Step(p)
      PROVE  (\A q \in Procs : Building(q))' /\ TextIsNotOlder'
  <2>1. Arrives(p) /\ \A q \in Procs \ {p} : at'[q] = at[q] /\ mem'[q] = mem[q]
    BY <1>3, StepArrives, OthersStay
  <2>2. UNCHANGED files => Log' = Log
    BY DEF Log, files
  <2>3. ASSUME NEW q \in Procs \ {p} PROVE Building(q)'
    <3>1. at[q] \in {"reviews for build", "build"} => IsPrefix(mem[q].snapshot[1], Log')
      BY <1>1, PrefixTransitive DEF Building
    <3>2. QED
      BY <2>1, <3>1 DEF Building
  <2>4. Building(p)'
    <3>1. CASE at'[p] = "reviews for build"
      <4>1. mem'[p].snapshot[1] = Log /\ Log' = Log
        <5>1. mem'[p].snapshot = <<Log>> /\ UNCHANGED files
          BY <2>1, <3>1 DEF Arrives
        <5>2. mem'[p].snapshot[1] = Log
          BY <5>1
        <5>3. QED
          BY <2>2, <5>1, <5>2
      <4>2. QED
        BY <1>1, <3>1, <4>1, PrefixItself DEF Building
    <3>2. CASE at'[p] = "build"
      BY <2>1, <2>2, <3>2 DEF Arrives, Building
    <3>3. CASE at'[p] = "written"
      BY <2>1, <3>3 DEF Arrives, Building
    <3>4. QED
      BY <3>1, <3>2, <3>3 DEF Building
  <2>5. TextIsNotOlder'
    <3>1. CASE UNCHANGED pdf
      BY <3>1 DEF TextIsNotOlder
    <3>2. CASE BuildPersist(p)
      <4>1. IsPrefix(mem[p].snapshot[1], mem[p].log)
        BY <3>2 DEF BuildPersist, Building
      <4>2. pdf'[1].bookmarks = mem[p].snapshot[1] /\ pdf'[1].text = mem[p].log
        BY <3>2 DEF BuildPersist
      <4>3. QED
        BY <4>1, <4>2 DEF TextIsNotOlder
    <3>3. QED
      BY <1>3, <3>1, <3>2, PdfIsBuilt
  <2>6. QED
    BY <2>3, <2>4, <2>5
<1>4. QED
  BY <1>2, <1>3 DEF Next

LEMMA FirstState == Init => /\ \A q \in Procs : Reviewing(q) /\ Building(q)
                            /\ TextIsNotOlder
BY DEF Init, Reviewing, Building, TextIsNotOlder

\* The files and what the processes remember have their types.
THEOREM WorkspaceIsTyped == Spec => []Typed
BY TypedInit, TypedStep, PTL DEF Spec

\* Unless two commands are between reading a log and replacing it at one time,
\* a reader of the log of revisions finds it whole and no shorter than any
\* reader before, and the reviews only grow on the snapshot they began with,
\* whichever commands run beside each other and wherever they are killed
\* (save_revisions, save_reviews).
THEOREM EditsApartGrowLogs == Spec /\ []AddsApart /\ []ReviewsApart => LogsOnlyGrow
<1> DEFINE I == Typed /\ LogInv /\ \A q \in Procs : Reviewing(q)
<1>1. Init => I
  BY TypedInit, LogInit, FirstState
<1>2. AddsApart /\ AddsApart' /\ ReviewsApart /\ I /\ [Next]_vars => I' /\ RevisionsGrow /\ ReviewsGrow
  BY TypedStep, LogStep, ReviewStep
<1>3. QED
  BY <1>1, <1>2, PTL DEF Spec, LogsOnlyGrow

\* Unless two commands add revisions at one time, the text of a searchable PDF
\* is that of the document its bookmarks were made from, or of a later one,
\* whoever builds it while the log is replaced (build_searchable).
THEOREM AddsApartKeepTextNew == Spec /\ []AddsApart => []TextIsNotOlder
<1> DEFINE I == Typed /\ LogInv /\ (\A q \in Procs : Building(q)) /\ TextIsNotOlder
<1>1. Init => I
  BY TypedInit, LogInit, FirstState
<1>2. AddsApart /\ AddsApart' /\ I /\ [Next]_vars => I'
  BY TypedStep, LogStep, BuildStep
<1>3. QED
  BY <1>1, <1>2, PTL DEF Spec

-----------------------------------------------------------------------------
(***************************************************************************)
(* The export.                                                             *)
(***************************************************************************)
Kept == bundle # None \/ orphans # {} \/ \E q \in Procs : mem[q].backup # None

LEMMA HeldIsKept == ASSUME BundleInv PROVE Held # {None} <=> Kept
BY DEF BundleInv, Held, Kept

\* Steps that have nothing to do with the export.
Away(p) ==
  /\ UNCHANGED exports
  /\ at[p] \notin Replacing /\ at'[p] \notin Replacing /\ mem'[p].backup = None

LEMMA AwayKeeps ==
  ASSUME Typed, BundleInv, NEW p \in Procs, Step(p), Away(p)
  PROVE  BundleInv' /\ (Kept => Kept')
<1>1. \A q \in Procs \ {p} : at'[q] = at[q] /\ mem'[q] = mem[q]
  BY OthersStay
<1>2. mem[p].backup = None
  BY DEF BundleInv, Exporting, Away
<1>3. ASSUME NEW q \in Procs \ {p}, Others(q) PROVE Others(q)'
  BY <1>1, <1>2, <1>3 DEF Others, Away, exports
<1>4. ASSUME NEW q \in Procs PROVE Exporting(q)'
  <2>1. CASE q = p
    BY <2>1 DEF Away, Exporting, Replacing
  <2>2. CASE q # p
    BY <1>1, <1>3, <2>2 DEF BundleInv, Exporting, Away, exports
  <2>3. QED
    BY <2>1, <2>2
<1>5. Kept => Kept'
  BY <1>1, <1>2 DEF Kept, Away, exports
<1>6. QED
  BY <1>4, <1>5 DEF BundleInv, Away, exports

\* The steps of an exporter after it looked.
Exchange(p) ==
  \/ ExportBackup(p) \/ ExportPlace(p) \/ ExportReplace(p) \/ ExportRestore(p)
  \/ at[p] \in Replacing /\ Crash(p)

LEMMA OtherStepsAreAway ==
  ASSUME Typed, BundleInv, NEW p \in Procs, Step(p), ~ Exchange(p)
  PROVE  Away(p)
<1> USE DEF Away, Replacing, Exchange, Starts, Ends, To, Keeps
<1>1. at \in [Procs -> Places] /\ mem \in [Procs -> Mem] /\ mem[p] \in Mem /\ Fresh.backup = None
  BY DEF Typed, Fresh
<1>2. at[p] \notin Replacing => mem[p].backup = None
  BY DEF BundleInv, Exporting
<1>3. \A v : /\ [mem[p] EXCEPT !.file = v].backup = mem[p].backup
             /\ [mem[p] EXCEPT !.log = v].backup = mem[p].backup
             /\ [mem[p] EXCEPT !.reviews = v].backup = mem[p].backup
  BY <1>1 DEF Mem
<1>4. CASE ReviseStart(p)
  <2>1. mem'[p] = [[Fresh EXCEPT !.log = Append(Log, started + 1)] EXCEPT !.number = started + 1]
    BY <1>1, <1>4 DEF ReviseStart
  <2>2. mem'[p].backup = None
    BY <2>1 DEF Fresh
  <2>3. QED
    BY <1>1, <1>4, <2>2 DEF ReviseStart
<1>5. CASE ReviseOpen(p)
  <2>1. PICK i : mem' = [mem EXCEPT ![p] = [mem[p] EXCEPT !.file = i]]
    BY <1>5 DEF ReviseOpen
  <2>2. mem'[p].backup = mem[p].backup
    BY <1>1, <1>3, <2>1
  <2>3. QED
    BY <1>1, <1>2, <1>5, <2>2 DEF ReviseOpen
<1>6. CASE ReviseWrite(p) \/ ReviseRename(p)
  BY <1>1, <1>2, <1>6 DEF ReviseWrite, ReviseRename
<1>7. CASE GenerateStart(p)
  <2>1. mem'[p] = [[Fresh EXCEPT !.snapshot = <<Log>>] EXCEPT !.number = started + 1]
    BY <1>1, <1>7 DEF GenerateStart
  <2>2. mem'[p].backup = None
    BY <2>1 DEF Fresh
  <2>3. QED
    BY <1>1, <1>7, <2>2 DEF GenerateStart
<1>8. CASE GenerateCheck(p) \/ GeneratePersist(p)
  BY <1>1, <1>2, <1>8 DEF GenerateCheck, GeneratePersist
<1>9. ASSUME NEW c \in Commands, SnapshotStart(p, c) \/ SnapshotCheck(p, c) \/ LoadReviews(p, c)
      PROVE  Away(p)
  <2>1. Check[c] \notin Replacing /\ Reviews[c] \notin Replacing /\ c \notin Replacing
    <3>1. CASE c = "review"
      BY <3>1 DEF Check, Reviews
    <3>2. CASE c = "build"
      BY <3>2 DEF Check, Reviews
    <3>3. QED
      BY <3>1, <3>2 DEF Commands
  <2>2. CASE SnapshotStart(p, c)
    <3>1. mem'[p] = [[Fresh EXCEPT !.snapshot = candidates] EXCEPT !.number = started + 1]
      BY <1>1, <2>2 DEF SnapshotStart
    <3>2. mem'[p].backup = None
      BY <3>1 DEF Fresh
    <3>3. QED
      BY <1>1, <2>1, <2>2, <3>2 DEF SnapshotStart
  <2>3. CASE SnapshotCheck(p, c)
    BY <1>1, <1>2, <2>1, <2>3 DEF SnapshotCheck
  <2>4. CASE LoadReviews(p, c)
    <3>1. at[p] \notin Replacing /\ UNCHANGED exports
      BY <2>1, <2>4 DEF LoadReviews
    <3>2. Ends(p) \/ \E v : To(p, c) /\ Keeps(p, [mem[p] EXCEPT !.reviews = v])
      BY <2>4 DEF LoadReviews
    <3>3. ASSUME NEW v, To(p, c), Keeps(p, [mem[p] EXCEPT !.reviews = v])
          PROVE  at'[p] \notin Replacing /\ mem'[p].backup = None
      <4>1. mem'[p] = [mem[p] EXCEPT !.reviews = v] /\ at'[p] = c
        BY <1>1, <3>3
      <4>2. QED
        BY <1>2, <1>3, <2>1, <3>1, <4>1
    <3>4. QED
      BY <1>1, <3>1, <3>2, <3>3
  <2>5. QED
    BY <1>9, <2>2, <2>3, <2>4
<1>10. CASE ReviewSave(p) \/ BuildPersist(p)
  BY <1>1, <1>10 DEF ReviewSave, BuildPersist
<1>11. CASE BuildText(p)
  <2>1. at[p] \notin Replacing /\ UNCHANGED exports
    BY <1>11 DEF BuildText
  <2>2. Ends(p) \/ \E v : To(p, "written") /\ Keeps(p, [mem[p] EXCEPT !.log = v])
    BY <1>11 DEF BuildText
  <2>3. ASSUME NEW v, To(p, "written"), Keeps(p, [mem[p] EXCEPT !.log = v])
        PROVE  at'[p] \notin Replacing /\ mem'[p].backup = None
    <3>1. mem'[p] = [mem[p] EXCEPT !.log = v] /\ at'[p] = "written"
      BY <1>1, <2>3
    <3>2. QED
      BY <1>2, <1>3, <2>1, <3>1
  <2>4. QED
    BY <1>1, <2>1, <2>2, <2>3
<1>12. CASE ExportStart(p)
  <2>1. mem'[p] = [[Fresh EXCEPT !.log = Log] EXCEPT !.number = started + 1]
    BY <1>1, <1>12 DEF ExportStart
  <2>2. mem'[p].backup = None
    BY <2>1 DEF Fresh
  <2>3. QED
    BY <1>1, <1>12, <2>2 DEF ExportStart
<1>13. CASE ExportLook(p)
  BY <1>1, <1>2, <1>13 DEF ExportLook
<1>14. CASE Crash(p)
  BY <1>1, <1>2, <1>14 DEF Crash, exports
<1>15. QED
  BY <1>4, <1>5, <1>6, <1>7, <1>8, <1>9, <1>10, <1>11, <1>12, <1>13, <1>14 DEF Step

LEMMA ExchangeKeeps ==
  ASSUME MaxFaults <= 1, Typed, BundleInv, NEW p \in Procs, Step(p), Exchange(p)
  PROVE  BundleInv' /\ (Kept => Kept')
<1> USE DEF Replacing
<1>1. /\ at \in [Procs -> Places] /\ mem \in [Procs -> Mem] /\ mem[p] \in Mem /\ Fresh.backup = None
      /\ faults \in Nat /\ faults <= 1 /\ MaxFaults \in Nat
  BY BoundsAssumption DEF Typed, Fresh
<1>2. \A q \in Procs \ {p} : at'[q] = at[q] /\ mem'[q] = mem[q]
  BY OthersStay
<1>3. /\ mem[p].backup # None <=> at[p] \in Replacing
      /\ at[p] = "restore" /\ faults = 0 => Others(p)
  BY DEF BundleInv, Exporting
\* It is enough that every process but p finds something left, if it needs
\* to, and so does p.
<1>4. ASSUME None \notin orphans', Exporting(p)',
             faults' = 0 => faults = 0,
             ASSUME NEW q \in Procs \ {p}, Others(q) PROVE Others(q)' \/ faults' # 0,
             Kept => Kept'
      PROVE  BundleInv' /\ (Kept => Kept')
  <2>1. ASSUME NEW q \in Procs \ {p} PROVE Exporting(q)'
    BY <1>2, <1>4 DEF BundleInv, Exporting
  <2>2. QED
    BY <1>4, <2>1 DEF BundleInv
<1>5. Kept <=> bundle # None \/ orphans # {} \/ mem[p].backup # None
                 \/ \E q \in Procs \ {p} : mem[q].backup # None
  BY DEF Kept
<1>6. Kept' <=> bundle' # None \/ orphans' # {} \/ mem'[p].backup # None
                 \/ \E q \in Procs \ {p} : mem[q].backup # None
  BY <1>2 DEF Kept
<1>7. ASSUME NEW q \in Procs \ {p},
             bundle' # None \/ orphans' # {} \/ mem'[p].backup # None
      PROVE  Others(q)'
  BY <1>7 DEF Others
<1>8. ASSUME NEW q \in Procs \ {p}, Others(q),
             UNCHANGED bundle, UNCHANGED orphans, mem'[p].backup = mem[p].backup
      PROVE  Others(q)'
  BY <1>2, <1>8 DEF Others
<1>9. Ends(p) => at'[p] = "rest" /\ mem'[p].backup = None
  BY <1>1 DEF Ends, To, Keeps
<1>10. Placed(p) => bundle' # None /\ UNCHANGED faults
  BY DEF Placed, None
<1>11. NotPlaced => /\ UNCHANGED bundle
                    /\ (bundle # None /\ UNCHANGED faults) \/ (bundle = None /\ faults = 0 /\ faults' = 1)
  BY <1>1 DEF NotPlaced
<1>12. None \notin orphans
  BY DEF BundleInv
<1>13. CASE ExportBackup(p)
  <2>1. at[p] = "backup" /\ mem[p].backup = None /\ UNCHANGED <<orphans, faults>>
    BY <1>3, <1>13 DEF ExportBackup
  <2>2. CASE bundle = None
    <3>1. at'[p] = "rest" /\ mem'[p].backup = None /\ UNCHANGED bundle
      BY <1>9, <1>13, <2>2 DEF ExportBackup
    <3>2. Exporting(p)'
      BY <3>1 DEF Exporting
    <3>3. QED
      BY <1>4, <1>5, <1>6, <1>8, <1>12, <2>1, <3>1, <3>2
  <2>3. CASE bundle # None
    <3>1. mem'[p] = [mem[p] EXCEPT !.backup = bundle] /\ at'[p] = "replace"
      BY <1>1, <1>13, <2>3 DEF ExportBackup, To, Keeps
    <3>2. mem'[p].backup # None
      BY <1>1, <2>3, <3>1 DEF Mem
    <3>3. Exporting(p)'
      BY <3>1, <3>2 DEF Exporting
    <3>4. QED
      BY <1>4, <1>6, <1>7, <1>12, <2>1, <3>2, <3>3
  <2>4. QED
    BY <2>2, <2>3
<1>14. CASE ExportPlace(p)
  <2>1. at'[p] = "rest" /\ mem'[p].backup = None /\ mem[p].backup = None /\ UNCHANGED orphans
    BY <1>3, <1>9, <1>14 DEF ExportPlace
  <2>2. Exporting(p)'
    BY <2>1 DEF Exporting
  <2>3. CASE Placed(p)
    BY <1>4, <1>6, <1>7, <1>10, <1>12, <2>1, <2>2, <2>3
  <2>4. CASE NotPlaced
    <3>1. UNCHANGED bundle /\ (UNCHANGED faults \/ faults = 0)
      BY <1>11, <2>4
    <3>2. QED
      BY <1>4, <1>5, <1>6, <1>8, <1>12, <2>1, <2>2, <3>1
  <2>5. QED
    BY <1>14, <2>3, <2>4 DEF ExportPlace
<1>15. CASE ExportReplace(p)
  <2>1. at[p] = "replace" /\ UNCHANGED orphans
    BY <1>15 DEF ExportReplace
  <2>2. CASE Placed(p) /\ Ends(p)
    <3>1. Exporting(p)'
      BY <1>9, <2>2 DEF Exporting
    <3>2. QED
      BY <1>4, <1>6, <1>7, <1>10, <1>12, <2>1, <2>2, <3>1
  <2>3. CASE NotPlaced /\ To(p, "restore") /\ UNCHANGED mem
    <3>1. at'[p] = "restore" /\ mem'[p].backup # None /\ mem'[p].backup = mem[p].backup
      BY <1>1, <1>3, <2>1, <2>3 DEF To
    <3>2. faults' = 0 => bundle' # None
      BY <1>11, <2>3
    <3>3. Exporting(p)'
      BY <3>1, <3>2 DEF Exporting, Others
    <3>4. QED
      BY <1>4, <1>6, <1>7, <1>11, <1>12, <2>1, <2>3, <3>1, <3>3
  <2>4. QED
    BY <1>15, <2>2, <2>3 DEF ExportReplace
<1>16. CASE ExportRestore(p)
  <2>1. at[p] = "restore" /\ mem[p].backup # None /\ at'[p] = "rest" /\ mem'[p].backup = None /\ UNCHANGED orphans
    BY <1>3, <1>9, <1>16 DEF ExportRestore
  <2>2. Exporting(p)'
    BY <2>1 DEF Exporting
  <2>3. CASE bundle' = mem[p].backup /\ UNCHANGED faults
    BY <1>4, <1>6, <1>7, <1>12, <2>1, <2>2, <2>3
  <2>4. CASE NotPlaced
    <3>1. CASE bundle # None /\ UNCHANGED faults
      BY <1>4, <1>6, <1>7, <1>11, <1>12, <2>1, <2>2, <2>4, <3>1
    <3>2. CASE bundle = None /\ faults = 0 /\ faults' = 1
      <4>1. Others(p)
        BY <1>3, <2>1, <3>2
      <4>2. Kept'
        BY <1>6, <2>1, <3>2, <4>1 DEF Others
      <4>3. QED
        <5>1. faults' # 0
          BY <3>2
        <5>2. QED
          BY <1>4, <1>12, <2>1, <2>2, <4>2, <5>1
    <3>3. QED
      BY <1>11, <2>4, <3>1, <3>2
  <2>5. QED
    BY <1>16, <2>3, <2>4 DEF ExportRestore
<1>17. CASE at[p] \in Replacing /\ Crash(p)
  <2>1. at'[p] = "rest" /\ mem'[p].backup = None /\ UNCHANGED faults /\ orphans' = orphans \cup {mem[p].backup}
    BY <1>3, <1>9, <1>17 DEF Crash
  <2>2. orphans' # {} /\ None \notin orphans'
    BY <1>3, <1>12, <1>17, <2>1
  <2>3. Exporting(p)'
    BY <2>1 DEF Exporting
  <2>4. QED
    BY <1>4, <1>6, <1>7, <2>1, <2>2, <2>3
<1>18. QED
  BY <1>13, <1>14, <1>15, <1>16, <1>17 DEF Exchange

\* With at most one failed rename, an export that was ever complete is still
\* there, in its place or as a backup, whichever exporters replace it at once
\* and wherever they are killed.
THEOREM OneFaultKeepsBundle == ASSUME MaxFaults <= 1 PROVE Spec => BundleIsKept
<1> DEFINE I == Typed /\ BundleInv
<1>1. Init => I
  <2>1. Init => BundleInv
    BY DEF Init, BundleInv, Exporting, Replacing, Fresh
  <2>2. QED
    BY <2>1, TypedInit
<1>2. I /\ [Next]_vars => BundleInv' /\ (Kept => Kept')
  <2>1. ASSUME I, UNCHANGED vars PROVE BundleInv' /\ (Kept => Kept')
    BY <2>1 DEF BundleInv, Exporting, Others, Kept, vars, exports
  <2>2. ASSUME I, NEW p \in Procs, Step(p) PROVE BundleInv' /\ (Kept => Kept')
    BY <2>2, AwayKeeps, OtherStepsAreAway, ExchangeKeeps
  <2>3. QED
    BY <2>1, <2>2 DEF Next
<1>3. I /\ [Next]_vars => I' /\ (Held # {None} => Held' # {None})
  <2>1. BundleInv => (Held # {None} <=> Kept)
    BY HeldIsKept
  <2>2. BundleInv' => (Held' # {None} <=> Kept')
    BY DEF BundleInv, Held, Kept
  <2>3. QED
    BY <1>2, <2>1, <2>2, TypedStep
<1>4. QED
  BY <1>1, <1>3, PTL DEF Spec, BundleIsKept
=============================================================================
