--------------------------- MODULE DesktopBackend ---------------------------
(***************************************************************************)
(* The back end of the desktop application: the asynchronous commands that *)
(* open and close the window's document and start and cancel its one       *)
(* conversion (apps/desktop/src-tauri/src/commands), and the worker thread *)
(* that does all the work, one message at a time (worker.rs).              *)
(*                                                                         *)
(* A command is a call: the front end issues it, its steps interleave with *)
(* those of the other calls wherever the code releases a lock or awaits    *)
(* the worker, and its answer travels back on its own.  The end of a       *)
(* conversion is not an answer but an event, sent by a task of its own.    *)
(*                                                                         *)
(* Previews, estimates and progress events are left out.  An operator      *)
(* called ...Faulty is the definition that follows it with a mistake in    *)
(* it, which the properties are shown to catch.                            *)
(***************************************************************************)
EXTENDS Integers, Sequences, FiniteSets

CONSTANTS
  Files, Null,
  Calls,     \* the calls that can be under way at once
  IdBound    \* bound of new_id, which numbers documents and jobs

Ids == 1 .. IdBound
Outcomes == {"completed", "cancelled", "failed"}

ASSUME IdBoundAssumption == IdBound \in Nat
ASSUME NullAssumption == Null \notin Ids /\ Null \notin Files /\ Null \notin Outcomes

VARIABLES
  document,   \* AppState.document: its id and file
  job,        \* AppState.job: the id of the one job
  cancelled,  \* jobs whose cancellation flag is set
  nextId,
  call,       \* per call: command, arguments, how far it is, its result
  queue,      \* messages to the worker
  working,    \* the message the worker is at
  session,    \* the file the worker has open
  alive,      \* the worker thread has not panicked
  relay,      \* per job: the task that waits for its outcome
  outcome,    \* per job: what the worker replied
  events,     \* terminal events on their way to the front end
  asked,      \* per job: the file of the document that was to be converted
  written     \* per job: the file whose conversion is at the destination

stateVars == <<document, job, cancelled, nextId>>
workerVars == <<queue, working, session, alive>>
jobVars == <<relay, outcome, events, asked, written>>
backendVars == <<stateVars, call, workerVars, jobVars>>

Idle == [op |-> "none", at |-> "free", file |-> Null, id |-> Null, result |-> Null]
Ops == {"open", "unlock", "close", "start", "cancel"}
Results == {"ok", "password", "refused", "failed"}
Places == {"free", "begin", "send", "wait", "opened", "forget", "claim",
           "answered"}

Message(op, c, j) == [op |-> op, call |-> c, job |-> j]

BackendInit ==
  /\ document = Null /\ job = Null /\ cancelled = {} /\ nextId = 1
  /\ call = [c \in Calls |-> Idle]
  /\ queue = <<>> /\ working = Null /\ session = Null /\ alive = TRUE
  /\ relay = [j \in Ids |-> "none"]
  /\ outcome = [j \in Ids |-> Null]
  /\ events = <<>>
  /\ asked = [j \in Ids |-> Null]
  /\ written = [j \in Ids |-> Null]

-----------------------------------------------------------------------------
(* The two ends of a call.                                                 *)

Issue(c, op, file, id) ==
  /\ call[c] = Idle
  /\ call' = [call EXCEPT ![c] =
       [op |-> op, at |-> "begin", file |-> file, id |-> id, result |-> Null]]

Collect(c) ==
  /\ call[c].at = "answered"
  /\ call' = [call EXCEPT ![c] = Idle]

At(c, ops, place) == call[c].op \in ops /\ call[c].at = place
Go(c, place) == call' = [call EXCEPT ![c].at = place]
Answer(c, result, id) ==
  call' = [call EXCEPT ![c] = [@ EXCEPT !.at = "answered", !.result = result, !.id = id]]

Send(message) == queue' = Append(queue, message)

-----------------------------------------------------------------------------
(* open_document, with a password ("unlock") or without.                   *)

Opens == {"open", "unlock"}

OpenCheck(c) ==
  /\ At(c, Opens, "begin")
  /\ IF job = Null THEN Go(c, "send") ELSE Answer(c, "refused", Null)
  /\ UNCHANGED <<stateVars, workerVars, jobVars>>

OpenSend(c) ==
  /\ At(c, Opens, "send")
  /\ Send(Message("open", c, Null)) /\ Go(c, "wait")
  /\ UNCHANGED <<stateVars, working, session, alive, jobVars>>

\* The document becomes the window's once the worker's reply is back.
OpenStore(c) ==
  /\ At(c, Opens, "opened") /\ nextId \in Ids
  /\ document' = [id |-> nextId, file |-> call[c].file]
  /\ nextId' = nextId + 1
  /\ Answer(c, "ok", nextId)
  /\ UNCHANGED <<job, cancelled, workerVars, jobVars>>

(* close_document.                                                         *)
CloseCheck(c) ==
  /\ At(c, {"close"}, "begin")
  /\ IF job = Null THEN Go(c, "send") ELSE Answer(c, "refused", Null)
  /\ UNCHANGED <<stateVars, workerVars, jobVars>>

CloseSend(c) ==
  /\ At(c, {"close"}, "send")
  /\ Send(Message("close", c, Null)) /\ Go(c, "forget")
  /\ UNCHANGED <<stateVars, working, session, alive, jobVars>>

CloseForget(c) ==
  /\ At(c, {"close"}, "forget")
  /\ document' = Null /\ Answer(c, "ok", Null)
  /\ UNCHANGED <<job, cancelled, nextId, workerVars, jobVars>>

-----------------------------------------------------------------------------
(* start_processing: is this the window's document, is there no job, are   *)
(* the settings valid, each under a lock of its own.                       *)

StartCheck(c) ==
  /\ At(c, {"start"}, "begin")
  /\ \/ /\ document # Null /\ document.id = call[c].id
        /\ call' = [call EXCEPT ![c] = [@ EXCEPT !.at = "claim", !.file = document.file]]
     \/ Answer(c, "refused", Null)   \* stale, or the output is the input
  /\ UNCHANGED <<stateVars, workerVars, jobVars>>

StartClaimFaulty(c) ==
  /\ At(c, {"start"}, "claim") /\ nextId \in Ids
  /\ job' = nextId /\ nextId' = nextId + 1
  /\ asked' = [asked EXCEPT ![nextId] = call[c].file]
  /\ call' = [call EXCEPT ![c] = [@ EXCEPT !.at = "send", !.id = nextId]]
  /\ UNCHANGED <<document, cancelled, workerVars, relay, outcome, events, written>>
StartClaim(c) ==
  /\ At(c, {"start"}, "claim") /\ nextId \in Ids
  /\ \/ /\ job = Null
        /\ job' = nextId /\ nextId' = nextId + 1
        /\ asked' = [asked EXCEPT ![nextId] = call[c].file]
        /\ call' = [call EXCEPT ![c] = [@ EXCEPT !.at = "send", !.id = nextId]]
     \/ job # Null /\ Answer(c, "refused", Null) /\ UNCHANGED <<job, nextId, asked>>
  /\ UNCHANGED <<document, cancelled, workerVars, relay, outcome, events, written>>

StartInvalidFaulty(c) ==
  /\ At(c, {"start"}, "send")
  /\ Answer(c, "refused", Null)
  /\ UNCHANGED <<stateVars, workerVars, jobVars>>
StartInvalid(c) ==
  /\ At(c, {"start"}, "send")
  /\ job' = Null /\ Answer(c, "refused", Null)
  /\ UNCHANGED <<document, cancelled, nextId, workerVars, jobVars>>

StartSend(c) ==
  LET j == call[c].id
  IN  /\ At(c, {"start"}, "send")
      /\ Send(Message("process", Null, j))
      /\ relay' = [relay EXCEPT ![j] = "waiting"]
      /\ Answer(c, "ok", j)
      /\ UNCHANGED <<stateVars, working, session, alive, outcome, events, asked, written>>

(* cancel_processing.                                                      *)
CancelRun(c) ==
  /\ At(c, {"cancel"}, "begin")
  /\ IF job # Null /\ job = call[c].id
       THEN cancelled' = cancelled \cup {job} /\ Answer(c, "ok", Null)
       ELSE UNCHANGED cancelled /\ Answer(c, "refused", Null)
  /\ UNCHANGED <<document, job, nextId, workerVars, jobVars>>

-----------------------------------------------------------------------------
(* The worker thread.  When it has panicked, the messages it was sent and  *)
(* is sent are dropped, and with them their reply channels: the receivers  *)
(* get an error in place of a reply.                                       *)

WorkerPanics ==
  /\ alive /\ working # Null
  /\ alive' = FALSE /\ session' = Null
  /\ UNCHANGED <<stateVars, call, queue, working, jobVars>>

Take ==
  /\ working = Null /\ queue # <<>>
  /\ working' = Head(queue) /\ queue' = Tail(queue)
  /\ UNCHANGED <<stateVars, call, session, alive, jobVars>>

Doing(op) == working # Null /\ working.op = op

WorkOpen ==
  LET c == working.call
  IN  /\ Doing("open")
      /\ \/ alive /\ session' = call[c].file /\ Go(c, "opened")
         \/ alive /\ Answer(c, "password", Null) /\ UNCHANGED session
         \/ Answer(c, "failed", Null) /\ UNCHANGED session
      /\ working' = Null
      /\ UNCHANGED <<stateVars, queue, alive, jobVars>>

WorkClose ==
  /\ Doing("close")
  /\ session' = Null /\ working' = Null
  /\ UNCHANGED <<stateVars, call, queue, alive, jobVars>>

\* A conversion that ends with r, having replaced the destination or not.
EndsWith(j, r) ==
  /\ outcome' = [outcome EXCEPT ![j] = r] /\ working' = Null
  /\ UNCHANGED <<stateVars, call, queue, session, alive, relay, events, asked>>

\* process_with_open_session: between any two stages it may fail or find
\* itself cancelled; after the last check it validates and persists.
Convert ==
  LET j == working.job
  IN  /\ Doing("process")
      /\ \/ EndsWith(j, "failed") /\ UNCHANGED written
         \/ /\ session # Null /\ j \in cancelled
            /\ EndsWith(j, "cancelled") /\ UNCHANGED written
         \/ /\ session # Null /\ j \notin cancelled
            /\ working' = [working EXCEPT !.op = "persist"]
            /\ UNCHANGED <<stateVars, call, queue, session, alive, jobVars>>

Persist ==
  LET j == working.job
  IN  /\ Doing("persist")
      /\ \/ EndsWith(j, "failed") /\ UNCHANGED written
         \/ /\ session # Null /\ written' = [written EXCEPT ![j] = session]
            /\ EndsWith(j, "completed")

Worker == Take \/ WorkOpen \/ WorkClose \/ Convert \/ Persist

-----------------------------------------------------------------------------
(* The task start_processing leaves behind.                                *)

RelayRelease(j) ==
  /\ relay[j] = "waiting" /\ outcome[j] # Null
  /\ relay' = [relay EXCEPT ![j] = "released"] /\ job' = Null
  /\ UNCHANGED <<document, cancelled, nextId, call, workerVars, outcome, events,
                 asked, written>>

RelayTell(j) ==
  /\ relay[j] = "released"
  /\ relay' = [relay EXCEPT ![j] = "told"]
  /\ events' = Append(events, [job |-> j, end |-> outcome[j]])
  /\ UNCHANGED <<stateVars, call, workerVars, outcome, asked, written>>

-----------------------------------------------------------------------------
Serve(c) ==
  \/ OpenCheck(c) \/ OpenSend(c) \/ OpenStore(c)
  \/ CloseCheck(c) \/ CloseSend(c) \/ CloseForget(c)
  \/ StartCheck(c) \/ StartClaim(c) \/ StartInvalid(c) \/ StartSend(c)
  \/ CancelRun(c)

Relay(j) == RelayRelease(j) \/ RelayTell(j)

\* What any front end can do: issue a call, collect an answer, take an event.
\* Ids are handed out in order; a call that needs one is issued while one is
\* left for it.
NeedsId(c) == call[c].op \in Opens \cup {"start"} /\ call[c].at # "answered"
IdLeft == nextId + Cardinality({c \in Calls : NeedsId(c)}) <= IdBound

IssueAny(c) ==
  /\ \E op \in Ops, file \in Files \cup {Null}, id \in Ids \cup {Null} :
       (op \in Opens \cup {"start"} => IdLeft) /\ Issue(c, op, file, id)
  /\ UNCHANGED <<stateVars, workerVars, jobVars>>

CollectAny(c) == Collect(c) /\ UNCHANGED <<stateVars, workerVars, jobVars>>

TakeEvent ==
  /\ events # <<>> /\ events' = Tail(events)
  /\ UNCHANGED <<stateVars, call, workerVars, relay, outcome, asked, written>>

BackendNext ==
  \/ \E c \in Calls : Serve(c) \/ IssueAny(c) \/ CollectAny(c)
  \/ Worker \/ WorkerPanics
  \/ \E j \in Ids : Relay(j)
  \/ TakeEvent

BackendSpec == BackendInit /\ [][BackendNext]_backendVars

-----------------------------------------------------------------------------
CallRecords == [op : Ops \cup {"none"}, at : Places, file : Files \cup {Null},
                id : Ids \cup {Null}, result : Results \cup {Null}]
Messages == [op : {"open", "close"}, call : Calls, job : {Null}]
              \cup [op : {"process", "persist"}, call : {Null}, job : Ids]

BackendTypeOK ==
  /\ document \in [id : Ids, file : Files \cup {Null}] \cup {Null}
  /\ job \in Ids \cup {Null} /\ cancelled \subseteq Ids /\ nextId \in 1 .. IdBound + 1
  /\ call \in [Calls -> CallRecords]
  /\ queue \in Seq(Messages) /\ working \in Messages \cup {Null}
  /\ session \in Files \cup {Null} /\ alive \in BOOLEAN
  /\ relay \in [Ids -> {"none", "waiting", "released", "told"}]
  /\ outcome \in [Ids -> Outcomes \cup {Null}]
  /\ events \in Seq([job : Ids, end : Outcomes])
  /\ asked \in [Ids -> Files \cup {Null}] /\ written \in [Ids -> Files \cup {Null}]

\* The places a job can be at, from its claim to the end of its conversion.
Starting == {call[c].id : c \in {d \in Calls : At(d, {"start"}, "send")}}
Waiting == {j \in Ids : relay[j] = "waiting"}
OnItsWay(j) == \E i \in DOMAIN queue : queue[i].op = "process" /\ queue[i].job = j
AtWork(j) == working # Null /\ working.op \in {"process", "persist"} /\ working.job = j

\* The job slot is taken exactly while there is a job, whichever calls race
\* for it: no job is forgotten, none runs beside another, none that has ended
\* or was refused blocks the window for good ("Only one job may be active").
JobSlotIsTheJob ==
  /\ Starting \cup Waiting = {job} \ {Null}
  /\ \A j \in Ids : (OnItsWay(j) \/ AtWork(j)) => j \in Waiting /\ outcome[j] = Null
=============================================================================
