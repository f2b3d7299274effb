----------------------------- MODULE RemoteTask -----------------------------
(***************************************************************************)
(* Remote OCR through the API: `mpdf api run / import / cancel /           *)
(* delete-content` (mpdf-cli/src/commands/api.rs) and the desktop's        *)
(* api_run_task (apps/desktop/src-tauri/src/commands/api.rs), on top of    *)
(* the HTTP client (mpdf-api-client) and the records of remote_api.rs.     *)
(*                                                                         *)
(* Commands run at the same time, die, and are run again.  Each HTTP       *)
(* attempt is a step: the request may be lost, carried out with the answer *)
(* lost, refused, or answered.  So is each write of a file and each        *)
(* transaction of the task store; reads that a later write depends on are  *)
(* steps of their own.                                                     *)
(*                                                                         *)
(* All plans are for one source, so they meet in one package.  Validation  *)
(* of plans, receipts and answers is in RemotePlan; here an answer is the  *)
(* service's own or is refused.  The service itself is external.           *)
(***************************************************************************)
EXTENDS Integers, FiniteSets

CONSTANTS
  Plans,         \* plans for the same source
  DeletePlans,   \* those with retention delete_after_result
  PageCount, Null,
  Slots,         \* commands running at the same time
  Budget,        \* max_cost_micros
  MaxRetries,    \* attempts of one request; 3 in the code
  CostBound,     \* the highest cost a service reports, above Budget
  PollBound,     \* polls of one command; 60 in the code
  TraceBound,    \* request traces kept of one command
  CommandBound   \* commands in one behaviour

ASSUME PlansAssumption ==
  DeletePlans \subseteq Plans /\ Null \notin Plans \cup {"local"} /\ "local" \notin Plans
ASSUME BoundsAssumption ==
  {PageCount, Budget, MaxRetries, CostBound, PollBound, TraceBound, CommandBound} \subseteq Nat

Pages == 1 .. PageCount

VARIABLES
  svc, blob,      \* the service: its tasks with their cost, the uploaded source
  deleted,        \* plans whose content the service was made to delete
  receiptFile,    \* plans whose receipt file is written
  artifacts,      \* plans whose raw artifact is installed
  package, pageFile, summary,   \* the MDP package and its OCR records
  task, audit,    \* api_tasks; api_audit, event ids of a plan's task or fallback job
  cmd,            \* the commands
  slot,           \* AppState.api_cancellation: the command it belongs to
  begun

serviceVars == <<svc, blob, deleted>>
fileVars == <<receiptFile, artifacts, package, pageFile, summary>>
storeVars == <<task, audit>>
vars == <<serviceVars, fileVars, storeVars, cmd, slot, begun>>

Requests == {"create", "upload", "start", "poll", "status", "result", "delete", "cancel"}
FallbackPlaces == {"fallback", "fcount", "fevent"}
LocalPlaces == FallbackPlaces \cup
  {"receipt", "package", "install", "records", "put", "audit", "reput", "reaudit",
   "read", "act", "acount", "event", "count", "traces"}
Kinds == {"run", "desktop", "import", "cancel", "delete"}
Retentions == {"not_requested", "pending", "acknowledged", "failed"}
Jobs == {"task", "fallback"}

Idle == [kind |-> "run", plan |-> Null, option |-> FALSE, pc |-> "idle", attempt |-> 0,
         polls |-> 0, cost |-> 0, todo |-> {}, retention |-> "not_requested", seen |-> Null,
         events |-> 0, traces |-> 0, cancelled |-> "no"]

\* The package exists, as a directory made by mpdf package, or does not.
Init ==
  /\ svc = [p \in Plans |-> [state |-> "none", cost |-> 0]]
  /\ blob = FALSE /\ deleted = {}
  /\ receiptFile = {} /\ artifacts = {}
  /\ package \in BOOLEAN
  /\ pageFile = [g \in Pages |-> Null] /\ summary = Null
  /\ task = [p \in Plans |-> Null]
  /\ audit = [l \in Plans \X Jobs |-> {}]
  /\ cmd = [i \in Slots |-> Idle]
  /\ slot = Null /\ begun = 0

-----------------------------------------------------------------------------
At(i, place) == cmd[i].pc = place
Become(i, c) == cmd' = [cmd EXCEPT ![i] = c]
Over == {"done", "failed"}
\* A command that is over keeps nothing but whose it is.
To(c, place) ==
  IF place \in Over
    THEN [Idle EXCEPT !.kind = c.kind, !.plan = c.plan, !.pc = place]
    ELSE [c EXCEPT !.pc = place, !.attempt = 0, !.polls = IF place = "poll" THEN @ ELSE 0]
Go(i, place) == Become(i, To(cmd[i], place))

\* The error path: the desktop turns to local OCR if the user chose that route.
Failed(c) ==
  IF c.kind = "desktop" /\ c.option /\ c.pc \notin FallbackPlaces
    THEN [To(c, "fallback") EXCEPT !.todo = Pages]
    ELSE To(c, "failed")
Fail(i) == Become(i, Failed(cmd[i]))

(***************************************************************************)
(* A command starts: run and the desktop from a plan and its consent, the  *)
(* others from a receipt file.  option is --mdp-root for run, the route    *)
(* api_then_local for the desktop; import has its --artifact-dir, cancel   *)
(* and delete-content their --jobs-db (without it they end after the       *)
(* request, as if they died there).                                        *)
(***************************************************************************)
FirstPlace(kind) ==
  CASE kind \in {"run", "desktop"} -> "create"
    [] kind = "import" -> "status"
    [] OTHER -> kind

Begin(i, kind, p, option) ==
  /\ At(i, "idle") /\ begun < CommandBound
  /\ kind \in {"import", "cancel", "delete"} => p \in receiptFile /\ option
  /\ Become(i, [Idle EXCEPT !.kind = kind, !.plan = p, !.option = option,
                            !.pc = FirstPlace(kind)])
  /\ slot' = IF kind = "desktop" THEN i ELSE slot
  /\ begun' = begun + 1
  /\ UNCHANGED <<serviceVars, fileVars, storeVars>>

\* api_cancel_current: sets the flag of the client the slot belongs to.  The
\* client may have tested it by then and be about to send ("passed").
Cancelled(c) ==
  {[c EXCEPT !.cancelled = "yes"]} \cup
  IF c.pc \in Requests /\ c.cancelled # "yes" THEN {[c EXCEPT !.cancelled = "passed"]} ELSE {}
ApiCancelCurrent ==
  /\ slot # Null
  /\ \E c \in Cancelled(cmd[slot]) : Become(slot, c)
  /\ UNCHANGED <<serviceVars, fileVars, storeVars, slot, begun>>

-----------------------------------------------------------------------------
\* The service, as the client relies on it: requests with the same
\* Idempotency-Key do their work once.
Serve(op, p) ==
  /\ svc' = [svc EXCEPT ![p].state =
       CASE op = "create" /\ @ = "none" -> "ready"
         [] op = "start" /\ @ = "ready" -> "running"
         [] op = "cancel" /\ @ \in {"ready", "running"} -> "cancelled"
         [] OTHER -> @]
  /\ blob' = CASE op = "upload" -> TRUE [] op = "delete" -> FALSE [] OTHER -> blob
  /\ deleted' = IF op = "delete" THEN deleted \cup {p} ELSE deleted

ServiceWorks(p) ==
  /\ svc[p].state = "running"
  /\ \E state \in {"running", "completed", "failed"},   \* failed: also paused
        cost \in svc[p].cost .. CostBound :
       svc' = [svc EXCEPT ![p] = [state |-> state, cost |-> cost]]
  /\ UNCHANGED <<blob, deleted, fileVars, storeVars, cmd, slot, begun>>

\* poll_until_terminal: what the client makes of a status.
PolledUnpricedFaulty(c, status) ==
  CASE status.state = "completed" -> IF c.kind = "run" THEN "receipt" ELSE "result"
    [] status.state \in {"cancelled", "failed"} -> "failed"
    [] OTHER -> IF c.polls + 1 < PollBound THEN "poll" ELSE "failed"
Polled(c, status) ==
  IF status.cost < c.cost \/ status.cost > Budget THEN "failed" ELSE
  CASE status.state = "completed" -> IF c.kind = "run" THEN "receipt" ELSE "result"
    [] status.state \in {"cancelled", "failed"} -> "failed"
    [] OTHER -> IF c.polls + 1 < PollBound THEN "poll" ELSE "failed"
\* Where a command goes with a good answer: the calls of run_remote,
\* execute_remote, import, cancel and delete_content in their order.
After(c) ==
  LET status == svc[c.plan]
  IN  CASE c.pc = "create" -> IF blob THEN "start" ELSE "upload"   \* deduplicated
        [] c.pc = "upload" -> "start"
        [] c.pc = "start" -> "poll"
        [] c.pc = "poll" -> Polled(c, status)
        [] c.pc = "status" -> IF status.state = "completed" THEN "result" ELSE "done"
        [] c.pc = "result" -> IF c.kind = "desktop" THEN "package" ELSE "install"
        [] c.pc = "delete" -> CASE c.kind = "run" -> "reput"
                                [] c.kind = "desktop" -> "put"
                                [] OTHER -> "read"
        [] c.pc = "cancel" -> "read"

Counted(c) ==
  IF c.pc = "poll" THEN [c EXCEPT !.polls = @ + 1, !.cost = svc[c.plan].cost] ELSE c
Answered(c) ==
  LET place == After(c)
      next == [Counted(c) EXCEPT
                        !.todo = IF c.pc = "result" THEN Pages ELSE @,
                        !.retention = IF c.pc = "delete" THEN "acknowledged" ELSE @]
  IN  IF place = "failed" THEN Failed(next) ELSE To(next, place)

\* A deletion that fails is noted by run and the desktop; every other request
\* that fails ends the command.
GivenUp(c) ==
  IF c.pc = "delete" /\ c.kind # "delete"
    THEN [To(c, IF c.kind = "run" THEN "reput" ELSE "put") EXCEPT !.retention = "failed"]
    ELSE Failed(c)
Retried(c) ==
  IF c.attempt + 1 < MaxRetries THEN [c EXCEPT !.attempt = @ + 1] ELSE GivenUp(c)
Sent(c) == [c EXCEPT !.traces = IF @ < TraceBound THEN @ + 1 ELSE @,
                     !.cancelled = IF @ = "passed" THEN "yes" ELSE @]

(***************************************************************************)
(* One turn of the loop in ApiClient::send.  Timeouts, 408, 429 and 5xx    *)
(* are retried up to the limit, other failures are not; the service may    *)
(* have carried the request out in either case.                            *)
(***************************************************************************)
Attempt(i) ==
  LET c == cmd[i]
  IN  /\ c.pc \in Requests
      /\ \/ /\ c.cancelled = "yes"
            /\ Become(i, GivenUp(c))
            /\ UNCHANGED serviceVars
         \/ /\ c.cancelled # "yes"
            /\ c.pc = "result" => svc[c.plan].state = "completed"
            /\ Serve(c.pc, c.plan)
            /\ Become(i, Answered(Sent(c)))
         \/ /\ c.cancelled # "yes"
            /\ Serve(c.pc, c.plan) \/ UNCHANGED serviceVars
            /\ Become(i, Retried(Sent(c))) \/ Become(i, GivenUp(Sent(c)))
      /\ UNCHANGED <<fileVars, storeVars, slot, begun>>

-----------------------------------------------------------------------------
\* write_new: the receipt is installed with no-clobber.
WriteReceipt(i) ==
  /\ At(i, "receipt")
  /\ IF cmd[i].plan \in receiptFile
       THEN Fail(i) /\ UNCHANGED receiptFile
       ELSE Go(i, "result") /\ receiptFile' = receiptFile \cup {cmd[i].plan}
  /\ UNCHANGED <<serviceVars, artifacts, package, pageFile, summary, storeVars, slot, begun>>

\* The desktop makes the package if there is none.
EnsurePackage(i) ==
  /\ At(i, "package")
  /\ package' = TRUE /\ Go(i, "install")
  /\ UNCHANGED <<serviceVars, receiptFile, artifacts, pageFile, summary, storeVars, slot, begun>>

\* install_artifact: under the name of its digest, and equal bytes are welcome.
IntoPackage(c) == c.kind = "desktop" \/ (c.kind = "run" /\ c.option)
InstallArtifact(i) ==
  LET c == cmd[i]
  IN  /\ At(i, "install")
      /\ IF IntoPackage(c) /\ ~package
           THEN Fail(i) /\ UNCHANGED artifacts
           ELSE /\ artifacts' = artifacts \cup {c.plan}
                /\ Go(i, CASE IntoPackage(c) -> "records"
                           [] c.kind = "run" /\ ~IntoPackage(c) -> "put"
                           [] OTHER -> "done")
      /\ UNCHANGED <<serviceVars, receiptFile, package, pageFile, summary, storeVars, slot, begun>>

\* write_ocr_records: every page record, in the order the service lists them,
\* and then the summary is created; one that exists is an error.
Recorded(i, c) ==
  Go(i, IF c.kind = "desktop" /\ c.plan \in DeletePlans THEN "delete" ELSE "put")
WriteSummary(i) ==
  LET c == cmd[i]
  IN  /\ At(i, "records") /\ c.todo = {}
      /\ IF summary = Null
           THEN summary' = [g \in Pages |-> c.plan] /\ Recorded(i, c)
           ELSE Fail(i) /\ UNCHANGED summary
      /\ UNCHANGED <<serviceVars, receiptFile, artifacts, package, pageFile, storeVars, slot, begun>>
WriteRecordFaulty(i) ==
  /\ At(i, "records")
  /\ \E g \in cmd[i].todo :
       /\ pageFile' = [pageFile EXCEPT ![g] = IF @ = Null THEN cmd[i].plan ELSE @]
       /\ Become(i, [cmd[i] EXCEPT !.todo = @ \ {g}])
  /\ UNCHANGED <<serviceVars, receiptFile, artifacts, package, summary, storeVars, slot, begun>>
WriteRecord(i) ==
  /\ At(i, "records")
  /\ \E g \in cmd[i].todo :
       IF pageFile[g] = Null
         THEN /\ pageFile' = [pageFile EXCEPT ![g] = cmd[i].plan]
              /\ Become(i, [cmd[i] EXCEPT !.todo = @ \ {g}])
         ELSE Fail(i) /\ UNCHANGED pageFile
  /\ UNCHANGED <<serviceVars, receiptFile, artifacts, package, summary, storeVars, slot, begun>>

(***************************************************************************)
(* execute_local_fallback: run_session_durable on the same package, which  *)
(* adopts the records it finds (DurableOcr has the details), and an event. *)
(***************************************************************************)
Fallback(i) ==
  LET c == cmd[i]
  IN  /\ At(i, "fallback")
      /\ \/ \E g \in c.todo :
              /\ \A h \in c.todo : g <= h
              /\ package' = TRUE
              /\ pageFile' = [pageFile EXCEPT ![g] = IF @ = Null THEN "local" ELSE @]
              /\ Become(i, [c EXCEPT !.todo = @ \ {g}]) /\ UNCHANGED summary
         \/ /\ c.todo = {} /\ summary \in {Null, pageFile}
            /\ summary' = pageFile
            /\ Go(i, "fcount")
            /\ UNCHANGED <<package, pageFile>>
      /\ UNCHANGED <<serviceVars, receiptFile, artifacts, storeVars, slot, begun>>

-----------------------------------------------------------------------------
\* ApiStore::put_task: an upsert that refuses a cost above the budget.
Accepts(record) == record.cost <= Budget
PutTask(i, record, place) ==
  IF Accepts(record)
    THEN task' = [task EXCEPT ![cmd[i].plan] = record] /\ Go(i, place)
    ELSE UNCHANGED task /\ Fail(i)
Record(c, retention) ==
  [state |-> "result_installed", retention |-> retention, cost |-> c.cost, artifact |-> TRUE]

\* append_audit: the event id is the primary key.
Log(c) == <<c.plan, IF c.pc \in FallbackPlaces THEN "fallback" ELSE "task">>
Append(i, event, next) ==
  LET log == Log(cmd[i])
  IN  IF event \in audit[log]
        THEN UNCHANGED audit /\ Fail(i)
        ELSE audit' = [audit EXCEPT ![log] = @ \cup {event}] /\ Become(i, next)

\* run writes its record before the deletion, the desktop after it.
PutFaulty(i) ==
  LET c == cmd[i]
  IN  /\ At(i, "put")
      /\ IF c.kind = "run" THEN PutTask(i, Record(c, "acknowledged"), "audit")
                           ELSE PutTask(i, Record(c, c.retention), "count")
      /\ UNCHANGED <<serviceVars, fileVars, audit, slot, begun>>
Put(i) ==
  LET c == cmd[i]
  IN  /\ At(i, "put")
      /\ IF c.kind = "run" THEN PutTask(i, Record(c, "pending"), "audit")
                           ELSE PutTask(i, Record(c, c.retention), "count")
      /\ UNCHANGED <<serviceVars, fileVars, audit, slot, begun>>
AuditResult(i) ==
  LET c == cmd[i]
  IN  /\ At(i, "audit")
      /\ Append(i, <<"result", 0>>, To(c, IF c.plan \in DeletePlans THEN "delete" ELSE "count"))
      /\ UNCHANGED <<serviceVars, fileVars, task, slot, begun>>
\* The errors of this pair are ignored.
PutRetention(i) ==
  LET record == Record(cmd[i], cmd[i].retention)
  IN  /\ At(i, "reput")
      /\ task' = IF Accepts(record) THEN [task EXCEPT ![cmd[i].plan] = record] ELSE task
      /\ Go(i, "reaudit")
      /\ UNCHANGED <<serviceVars, fileVars, audit, slot, begun>>
AuditRetention(i) ==
  /\ At(i, "reaudit")
  /\ audit' = [audit EXCEPT ![Log(cmd[i])] = @ \cup {<<"retention", 0>>}]
  /\ Go(i, "count")
  /\ UNCHANGED <<serviceVars, fileVars, task, slot, begun>>

\* persist_task_action, of cancel and delete-content: read, then write back.
ReadTask(i) ==
  /\ At(i, "read")
  /\ Become(i, [To(cmd[i], "act") EXCEPT !.seen = task[cmd[i].plan]])
  /\ UNCHANGED <<serviceVars, fileVars, storeVars, slot, begun>>
ActionRecordFaulty(c) ==
  IF c.kind = "cancel"
    THEN [Record(c, "not_requested") EXCEPT !.state = "cancelled"]
    ELSE Record(c, "acknowledged")
ActionRecord(c) ==
  LET seen == IF c.seen = Null THEN [Record(c, "pending") EXCEPT !.artifact = FALSE] ELSE c.seen
  IN  IF c.kind = "cancel"
        THEN [seen EXCEPT !.state = "cancelled", !.retention = "not_requested"]
        ELSE [seen EXCEPT !.state = "result_installed", !.retention = "acknowledged"]
WriteAction(i) ==
  /\ At(i, "act")
  /\ PutTask(i, ActionRecord(cmd[i]), "acount")
  /\ UNCHANGED <<serviceVars, fileVars, audit, slot, begun>>

\* Event ids are numbered from the length of the log, which is read first.
CountEvents(i) ==
  LET c == cmd[i]
      next == CASE c.pc = "acount" -> "event" [] c.pc = "fcount" -> "fevent" [] OTHER -> "traces"
  IN  /\ c.pc \in {"acount", "fcount", "count"}
      /\ Become(i, [To(c, next) EXCEPT !.events = Cardinality(audit[Log(c)])])
      /\ UNCHANGED <<serviceVars, fileVars, storeVars, slot, begun>>
AppendEvent(i) ==
  LET c == cmd[i]
  IN  /\ \/ At(i, "event") /\ Append(i, <<c.kind, c.events>>, To(c, "count"))
         \/ At(i, "fevent") /\ Append(i, <<"fallback", c.events>>, To(c, "done"))
      /\ UNCHANGED <<serviceVars, fileVars, task, slot, begun>>

\* persist_network_traces: one event for every request of this command.
AppendTrace(i) ==
  LET c == cmd[i]
      event == <<IF c.kind = "desktop" THEN "desktop" ELSE "network", c.events>>
  IN  /\ At(i, "traces")
      /\ IF c.traces = 0 THEN Go(i, "done") /\ UNCHANGED audit
           ELSE Append(i, event, [c EXCEPT !.traces = @ - 1, !.events = @ + 1])
      /\ UNCHANGED <<serviceVars, fileVars, task, slot, begun>>

-----------------------------------------------------------------------------
\* Any call on the file system or the database may fail.
LocalError(i) ==
  /\ cmd[i].pc \in LocalPlaces
  /\ CASE At(i, "reput") -> Go(i, "reaudit")
       [] At(i, "reaudit") -> Go(i, "count")
       [] OTHER -> Fail(i)
  /\ UNCHANGED <<serviceVars, fileVars, storeVars, slot, begun>>

\* The command returns; the desktop empties the slot, whoever it belongs to.
Finish(i) ==
  /\ cmd[i].pc \in Over
  /\ Become(i, Idle)
  /\ slot' = IF cmd[i].kind = "desktop" THEN Null ELSE slot
  /\ UNCHANGED <<serviceVars, fileVars, storeVars, begun>>

\* A process dies: a command of the CLI, or the desktop with all of its own.
DieWith(i) ==
  IF cmd[i].kind = "desktop" THEN {k \in Slots : cmd[k].kind = "desktop"} ELSE {i}
Die(i) ==
  /\ ~At(i, "idle")
  /\ cmd' = [k \in Slots |-> IF k \in DieWith(i) THEN Idle ELSE cmd[k]]
  /\ slot' = IF cmd[i].kind = "desktop" THEN Null ELSE slot
  /\ UNCHANGED <<serviceVars, fileVars, storeVars, begun>>

Step(i) ==
  \/ Attempt(i)
  \/ WriteReceipt(i) \/ EnsurePackage(i) \/ InstallArtifact(i)
  \/ WriteRecord(i) \/ WriteSummary(i) \/ Fallback(i)
  \/ Put(i) \/ AuditResult(i) \/ PutRetention(i) \/ AuditRetention(i)
  \/ ReadTask(i) \/ WriteAction(i)
  \/ CountEvents(i) \/ AppendEvent(i) \/ AppendTrace(i)
  \/ LocalError(i) \/ Finish(i)

Next ==
  \/ ApiCancelCurrent
  \/ \E p \in Plans : ServiceWorks(p)
  \/ \E i \in Slots : Step(i) \/ Die(i)
  \/ \E i \in Slots, kind \in Kinds, p \in Plans, option \in BOOLEAN : Begin(i, kind, p, option)

Spec == Init /\ [][Next]_vars

\* A command that runs goes on: every request has a timeout and every wait an end.
FairSpec == Spec /\ \A i \in Slots : WF_vars(Step(i))

-----------------------------------------------------------------------------
Records ==
  [state : {"result_installed", "cancelled"}, retention : Retentions,
   cost : 0 .. Budget, artifact : BOOLEAN]

TypeOK ==
  /\ svc \in [Plans -> [state : {"none", "ready", "running", "completed", "failed",
                                 "cancelled"}, cost : 0 .. CostBound]]
  /\ blob \in BOOLEAN /\ deleted \subseteq Plans
  /\ receiptFile \subseteq Plans /\ artifacts \subseteq Plans
  /\ package \in BOOLEAN
  /\ pageFile \in [Pages -> Plans \cup {"local", Null}]
  /\ summary \in [Pages -> Plans \cup {"local"}] \cup {Null}
  /\ task \in [Plans -> Records \cup {Null}]
  /\ \A l \in Plans \X Jobs : audit[l] \subseteq (Kinds \cup {"result", "retention", "network",
                                                              "fallback"}) \X Nat
  /\ \A i \in Slots : /\ cmd[i].pc \in Requests \cup LocalPlaces \cup Over \cup {"idle"}
                      /\ cmd[i].pc # "idle" => cmd[i].plan \in Plans
                      /\ cmd[i].attempt < MaxRetries /\ cmd[i].polls <= PollBound
                      /\ cmd[i].retention \in Retentions
  /\ slot \in Slots \cup {Null}

\* A task record that names a raw artifact finds it, whatever the commands
\* that ran, died or only updated the record since.
InstalledHasArtifact ==
  \A p \in Plans : task[p] # Null /\ task[p].artifact => p \in artifacts

\* The OCR summary describes the page records next to it, also when two
\* commands, or a command and its local fallback, wrote into one package.
SummaryMatchesPages == summary # Null => summary = pageFile

\* Pages of a result that went over its budget never enter the package.
OverBudgetResultNotInPackage ==
  \A g \in Pages, p \in Plans : pageFile[g] = p => svc[p].cost <= Budget

\* The record only says the content was deleted when the service deleted it.
AcknowledgedMeansDeleted ==
  \A p \in Plans : task[p] # Null /\ task[p].retention = "acknowledged" => p \in deleted

\* Every command comes to an end, whatever the service answers.
CommandsEnd == \A i \in Slots : ~At(i, "idle") ~> At(i, "idle")

\* A stored task only changes state along valid_transition ("invalid state
\* transitions fail closed").
ValidTransitions ==
  {<<"planned", "consented">>, <<"consented", "creating">>, <<"creating", "upload_pending">>,
   <<"creating", "ready">>, <<"upload_pending", "ready">>, <<"ready", "running">>,
   <<"running", "completed">>, <<"completed", "result_installed">>, <<"running", "cancelling">>,
   <<"cancelling", "cancelled">>, <<"paused_budget", "cancelling">>,
   <<"paused_service", "cancelling">>, <<"running", "paused_budget">>,
   <<"running", "paused_service">>, <<"paused_budget", "running">>,
   <<"paused_service", "running">>, <<"ready", "cancelling">>, <<"creating", "failed">>,
   <<"upload_pending", "failed">>, <<"running", "failed">>}
TransitionsAreValid ==
  [][\A p \in Plans : task[p] # Null /\ task'[p] # Null /\ task'[p].state # task[p].state =>
       <<task[p].state, task'[p].state>> \in ValidTransitions]_vars
=============================================================================
