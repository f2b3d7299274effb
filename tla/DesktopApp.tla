----------------------------- MODULE DesktopApp -----------------------------
(***************************************************************************)
(* The desktop front end (App.tsx, app/reducer.ts, hooks/useProcessing.ts) *)
(* on top of its back end: what a user can click in which state, which     *)
(* call that issues, and what the reducer makes of answers and events,     *)
(* which arrive in any order relative to each other.                       *)
(*                                                                         *)
(* Settings, pages, previews, estimates and the output path are left out;  *)
(* a native file dialog is modal, so the user does nothing else meanwhile. *)
(***************************************************************************)
EXTENDS DesktopBackend

VARIABLES
  kind,        \* the state of the reducer
  shownDoc,    \* the document in it
  shownJob,    \* the job in it; after its end, the job that ended
  cancelling,
  pendingPath, \* pendingOpenPath: the file the password prompt is for
  picking      \* the file dialog of handleOpen is open

uiVars == <<kind, shownDoc, shownJob, cancelling, pendingPath, picking>>
vars == <<backendVars, uiVars>>

Kinds == {"idle", "opening", "passwordRequired", "ready", "processing",
          "completed", "cancelled", "failed"}

Init ==
  /\ BackendInit
  /\ kind = "idle" /\ shownDoc = Null /\ shownJob = Null
  /\ cancelling = FALSE /\ pendingPath = Null /\ picking = FALSE

\* A transition of the reducer.
Show(k, d, j) == kind' = k /\ shownDoc' = d /\ shownJob' = j /\ cancelling' = FALSE
Keep == UNCHANGED <<kind, shownDoc, shownJob, cancelling>>

Ask(c, op, file, id) ==
  Issue(c, op, file, id) /\ UNCHANGED <<stateVars, workerVars, jobVars>>

-----------------------------------------------------------------------------
(* The user.                                                               *)

\* handleOpenPath: a dropped file, or the one chosen in the dialog.
OpenPath(c, f) ==
  /\ IdLeft /\ Ask(c, "open", f, Null)
  /\ Show("opening", Null, Null)
  /\ UNCHANGED pendingPath

Drop(c, f) ==
  /\ ~picking /\ kind \notin {"processing", "opening"}
  /\ OpenPath(c, f) /\ UNCHANGED picking

ShowDialog ==
  /\ ~picking /\ kind \notin {"processing", "opening"}
  /\ picking' = TRUE
  /\ Keep /\ UNCHANGED <<backendVars, pendingPath>>

\* The chosen file is opened by the handler of the click: the state it looks
\* at again is the one of that moment.
Choose(c, f) == picking /\ picking' = FALSE /\ OpenPath(c, f)

CloseDialog ==
  /\ picking /\ picking' = FALSE
  /\ Keep /\ UNCHANGED <<backendVars, pendingPath>>

SubmitPassword(c) ==
  /\ ~picking /\ kind = "passwordRequired" /\ pendingPath # Null
  /\ IdLeft /\ Ask(c, "unlock", pendingPath, Null)
  /\ Keep /\ UNCHANGED <<pendingPath, picking>>

\* DISMISS_ERROR changes nothing outside "failed".
CancelPassword ==
  /\ ~picking /\ kind = "passwordRequired" /\ pendingPath # Null
  /\ pendingPath' = Null
  /\ Keep /\ UNCHANGED <<backendVars, picking>>

ClickConvert(c) ==
  /\ ~picking /\ kind = "ready"
  /\ IdLeft /\ Ask(c, "start", Null, shownDoc)
  /\ Keep /\ UNCHANGED <<pendingPath, picking>>

ClickCancel(c) ==
  /\ ~picking /\ kind = "processing" /\ ~cancelling
  /\ Ask(c, "cancel", Null, shownJob)
  /\ cancelling' = TRUE
  /\ UNCHANGED <<kind, shownDoc, shownJob, pendingPath, picking>>

StartOver ==
  /\ ~picking /\ kind \in {"completed", "cancelled"}
  /\ Show("ready", shownDoc, Null)
  /\ UNCHANGED <<backendVars, pendingPath, picking>>

\* handleCloseAndDismiss
Dismiss(c) ==
  /\ ~picking /\ kind = "failed"
  /\ Ask(c, "close", Null, Null)
  /\ Show(IF shownDoc = Null THEN "idle" ELSE "ready", shownDoc, Null)
  /\ UNCHANGED <<pendingPath, picking>>

User ==
  \/ \E c \in Calls :
       \/ \E f \in Files : Drop(c, f) \/ Choose(c, f)
       \/ SubmitPassword(c) \/ ClickConvert(c) \/ ClickCancel(c) \/ Dismiss(c)
  \/ ShowDialog \/ CloseDialog \/ CancelPassword \/ StartOver

-----------------------------------------------------------------------------
(* Answers and events.                                                     *)

OpenAnswered(c) ==
  /\ call[c].op = "open"
  /\ CASE call[c].result = "ok" -> Show("ready", call[c].id, Null) /\ UNCHANGED pendingPath
       [] call[c].result = "password" ->
            Show("passwordRequired", Null, Null) /\ pendingPath' = call[c].file
       [] OTHER -> Show("failed", Null, Null) /\ UNCHANGED pendingPath

UnlockAnswered(c) ==
  /\ call[c].op = "unlock"
  /\ IF call[c].result = "ok"
       THEN Show("ready", call[c].id, Null) /\ pendingPath' = Null
       ELSE Keep /\ UNCHANGED pendingPath

\* PROCESSING_STARTED counts in "ready" only; a refusal is an OPEN_FAILED.
StartAnswered(c) ==
  /\ call[c].op = "start"
  /\ \/ call[c].result = "ok" /\ kind = "ready" /\ Show("processing", shownDoc, call[c].id)
     \/ call[c].result = "ok" /\ kind # "ready" /\ Keep
     \/ call[c].result # "ok" /\ Show("failed", Null, Null)
  /\ UNCHANGED pendingPath

Ignored(c) == call[c].op \in {"close", "cancel"} /\ Keep /\ UNCHANGED pendingPath

Answered(c) ==
  /\ CollectAny(c)
  /\ OpenAnswered(c) \/ UnlockAnswered(c) \/ StartAnswered(c) \/ Ignored(c)
  /\ UNCHANGED picking

\* PROCESSING_COMPLETED, _CANCELLED and _FAILED: of the job shown, or dropped.
HearEndFaulty ==
  LET e == Head(events)
  IN  /\ TakeEvent
      /\ IF kind = "processing"
           THEN Show(e.end, shownDoc, shownJob) ELSE Keep
      /\ UNCHANGED <<pendingPath, picking>>
HearEnd ==
  LET e == Head(events)
  IN  /\ TakeEvent
      /\ IF kind = "processing" /\ shownJob = e.job
           THEN Show(e.end, shownDoc, shownJob) ELSE Keep
      /\ UNCHANGED <<pendingPath, picking>>

-----------------------------------------------------------------------------
Backend(A) == A /\ UNCHANGED uiVars

Next ==
  \/ User
  \/ \E c \in Calls : Backend(Serve(c)) \/ Answered(c)
  \/ Backend(Worker) \/ Backend(WorkerPanics)
  \/ \E j \in Ids : Backend(Relay(j))
  \/ HearEnd

Spec == Init /\ [][Next]_vars

\* Threads and tasks run and messages arrive; nothing is assumed of the user.
FairSpec ==
  /\ Spec
  /\ \A c \in Calls : WF_vars(Backend(Serve(c))) /\ WF_vars(Answered(c))
  /\ WF_vars(Backend(Worker))
  /\ \A j \in Ids : WF_vars(Backend(Relay(j)))
  /\ WF_vars(HearEnd)

-----------------------------------------------------------------------------
TypeOK ==
  /\ BackendTypeOK
  /\ kind \in Kinds /\ shownDoc \in Ids \cup {Null} /\ shownJob \in Ids \cup {Null}
  /\ cancelling \in BOOLEAN /\ picking \in BOOLEAN /\ pendingPath \in Files \cup {Null}
  /\ kind \in {"ready", "processing", "completed", "cancelled"} => shownDoc # Null

\* The end the window shows is the end of the job it showed, also if an event
\* of an earlier job is late, the cancellation too late or another conversion
\* under way: "no output was written" is true, and so is a completion.
ShownEndIsTrue ==
  /\ kind = "cancelled" => written[shownJob] = Null
  /\ kind = "completed" => written[shownJob] # Null

\* The job slot is freed after every start, whatever becomes of the job.
JobsEnd == job # Null ~> job = Null

\* Nobody waits for a document for ever.
OpeningEnds == kind = "opening" ~> kind # "opening"

\* A conversion converts the document it was started for ("a session is never
\* replaced out from under an in-flight conversion").
ConvertsRequestedDocument == \A j \in Ids : written[j] # Null => written[j] = asked[j]

\* The window leaves "processing" when its job has ended.  (TLC refutes it: the
\* end of a job may be heard before the answer that announces the job.)
ProcessingEnds == kind = "processing" ~> kind # "processing"

\* When nothing is under way, a document shown as ready is the open one.
Quiet ==
  /\ \A c \in Calls : call[c] = Idle
  /\ queue = <<>> /\ working = Null /\ events = <<>> /\ job = Null
ReadyDocumentIsOpen ==
  Quiet /\ kind = "ready" => document # Null /\ document.id = shownDoc
=============================================================================
