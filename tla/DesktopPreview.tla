--------------------------- MODULE DesktopPreview ---------------------------
(***************************************************************************)
(* What the window shows before a conversion: the two previews of the page *)
(* and the estimate of the output's size (hooks/usePreview.ts,             *)
(* hooks/useEstimate.ts, app/reducer.ts), and the commands of the back end *)
(* that make them (commands/preview.rs, commands/estimate.rs, worker.rs).  *)
(*                                                                         *)
(* An effect asks for previews 200 ms after the page or the settings       *)
(* changed; answers arrive in any order.  The worker has one queue for     *)
(* everything, and any request may fail, also for want of a worker.        *)
(*                                                                         *)
(* Opening and converting are here as far as they replace the document,    *)
(* the session and the state of the window: DesktopApp has them in full.   *)
(* So a command's test and the message it sends are one step where nothing *)
(* in between would be told apart, a conversion is one step of the worker, *)
(* and a cancelled one ends as a completed one does.  A document is the    *)
(* number of its opening.                                                  *)
(***************************************************************************)
EXTENDS Integers, Sequences, FiniteSets

CONSTANTS
  Null,
  PageCount,      \* the pages of every document
  Settings,       \* what the settings panel can be set to
  Default,        \* defaultSettings()
  Openings,       \* bound: calls of open_document at a time
  Budgets         \* bound: how often things are asked for; any of these

ASSUME SettingsAssumption == Default \in Settings
Asked == {"change", "preview", "estimate", "open", "convert"}
ASSUME BoundsAssumption == PageCount \in Nat \ {0} /\ Openings \in Nat /\ Budgets \subseteq [Asked -> Nat]

VARIABLES
  left,        \* how often they may still be asked for
  win,         \* the state of the reducer
  rendered,    \* the dependencies usePreview's effect last ran with
  timer,       \* what its timer will ask previews of
  previewId,   \* usePreview's requestCounter
  estimateId,  \* useEstimate's requestCounter
  missing,     \* previews that failed, or were emptied without a reason to ask again
  renders,     \* render_preview calls under way
  estimates,   \* start_estimate calls under way
  flagged,     \* estimates whose cancellation flag is set
  openings,    \* open_document calls under way
  closing,     \* close_document calls that have not begun
  start,       \* the start_processing call under way
  started,     \* the conversions asked for
  ends,        \* jobs that have ended, and how: events on their way
  document,    \* AppState.document
  job,         \* AppState.job
  estimateJob, \* AppState.estimate_job
  queue,       \* messages to the worker
  running,     \* the estimate the worker is at
  session,     \* the document the worker has open
  opened       \* the openings asked for

frontVars == <<win, rendered, timer, previewId, estimateId, missing>>
callVars == <<renders, estimates, openings, closing, start, started, ends>>
backVars == <<flagged, document, job, estimateJob>>
workerVars == <<queue, running, session, opened>>
vars == <<left, frontVars, callVars, backVars, workerVars>>

Pages == 1 .. PageCount
Kinds == {"original", "processed"}
NoPane == [k \in Kinds |-> Null]
Requests == [doc : Nat, page : Pages, settings : Settings]

ASSUME NullAssumption == Null \notin Nat \cup Requests

State(kind, d, s) ==
  [kind |-> kind, doc |-> d, page |-> 1, settings |-> s, pane |-> NoPane,
   job |-> 0, loading |-> FALSE, error |-> FALSE, latest |-> 0,
   estimate |-> "idle", result |-> Null, latestEstimate |-> 0]
Wants(w) ==
  IF w.kind = "ready" THEN [doc |-> w.doc, page |-> w.page, settings |-> w.settings] ELSE Null

Init ==
  /\ left \in Budgets
  /\ win = State("idle", Null, Default)
  /\ rendered = Null /\ timer = Null
  /\ previewId = 0 /\ estimateId = 0 /\ missing = {}
  /\ renders = {} /\ estimates = {} /\ flagged = {}
  /\ openings = {} /\ closing = 0 /\ start = Null /\ started = 0 /\ ends = {}
  /\ document = Null /\ job = Null /\ estimateJob = Null
  /\ queue = <<>> /\ running = Null /\ session = Null /\ opened = 0

Send(kind, id) == queue' = Append(queue, [kind |-> kind, id |-> id])
\* React runs the effects of one rendering before the next.
Settled == rendered = Wants(win)
Shows(w) == win' = w /\ Settled
Ready == win.kind = "ready"
OnlyPreviews == UNCHANGED <<estimates, openings, closing, start, started, ends>>
OnlyEstimates == UNCHANGED <<renders, openings, closing, start, started, ends>>
Spend(what) == left[what] > 0 /\ left' = [left EXCEPT ![what] = @ - 1]

-----------------------------------------------------------------------------
(* The window: pages, settings and previews.                               *)

\* SELECT_PAGE empties the pane, also when the page stays the same.
SelectPage(p) ==
  /\ Ready /\ Spend("change")
  /\ Shows([win EXCEPT !.page = p, !.pane = NoPane, !.loading = FALSE, !.error = FALSE])
  /\ missing' = IF p = win.page THEN Kinds ELSE missing
  /\ UNCHANGED <<rendered, timer, previewId, estimateId, callVars, backVars, workerVars>>

\* SET_SETTINGS: an estimate that is there becomes stale, one under way stays.
SetSettings(s) ==
  /\ Ready /\ Spend("change")
  /\ Shows([win EXCEPT !.settings = s, !.pane["processed"] = Null,
                       !.estimate = IF @ = "ready" THEN "stale" ELSE @])
  /\ missing' = IF s = win.settings THEN missing \cup {"processed"} ELSE missing
  /\ UNCHANGED <<rendered, timer, previewId, estimateId, callVars, backVars, workerVars>>

\* The effect of usePreview, when its dependencies changed.
Effect ==
  /\ ~Settled
  /\ rendered' = Wants(win) /\ timer' = Wants(win)
  /\ UNCHANGED <<win, previewId, estimateId, missing, callVars, backVars, workerVars>>

\* PREVIEW_REQUEST_STARTED, and a call for either kind.
TimerFires ==
  /\ timer # Null /\ Spend("preview")
  /\ timer' = Null /\ previewId' = previewId + 1
  /\ win' = IF ~Ready THEN win
            ELSE [win EXCEPT !.latest = previewId', !.loading = TRUE, !.error = FALSE]
  /\ missing' = {}
  /\ renders' = renders \cup
       {[id |-> previewId', kind |-> k, of |-> timer, at |-> "asked", image |-> Null] :
          k \in Kinds}
  /\ OnlyPreviews /\ UNCHANGED <<rendered, estimateId, backVars, workerVars>>

\* As below, for any request.
AppliesFaulty(r) == Ready

\* PREVIEW_SUCCEEDED, PREVIEW_FAILED: of the newest request of the hook and of
\* the state, or dropped.
Applies(r) == r.id = previewId /\ Ready /\ r.id = win.latest
PreviewAnswered(r) ==
  /\ r \in renders /\ r.at = "answered"
  /\ renders' = renders \ {r}
  /\ IF ~Applies(r) THEN UNCHANGED <<win, missing>>
     ELSE IF r.image = Null
       THEN /\ win' = [win EXCEPT !.loading = FALSE, !.error = TRUE]
            /\ missing' = missing \cup {r.kind}
       ELSE /\ win' = [win EXCEPT !.loading = FALSE, !.error = FALSE, !.pane[r.kind] = r.image]
            /\ missing' = missing \ {r.kind}
  /\ OnlyPreviews /\ UNCHANGED <<rendered, timer, previewId, estimateId, backVars, workerVars>>

-----------------------------------------------------------------------------
(* render_preview.                                                         *)

\* The document is looked at and the message sent: an opening that gets in
\* between would be found in the queue before it as well.
RenderCheck(r) ==
  /\ r \in renders /\ r.at = "asked"
  /\ IF r.of.doc = document
     THEN /\ renders' = (renders \ {r}) \cup {[r EXCEPT !.at = "queued"]}
          /\ Send(r.kind, r.id)
     ELSE /\ renders' = (renders \ {r}) \cup {[r EXCEPT !.at = "answered"]}
          /\ UNCHANGED queue
  /\ OnlyPreviews /\ UNCHANGED <<frontVars, backVars, running, session, opened>>

\* The worker takes its messages in order, one at a time.
Takes(kinds) ==
  /\ running = Null /\ queue # <<>> /\ Head(queue).kind \in kinds
  /\ queue' = Tail(queue)

\* The page of the session there is, whoever asked for it.
WorkRender ==
  /\ Takes(Kinds)
  /\ \E r \in renders :
       /\ r.kind = Head(queue).kind /\ r.id = Head(queue).id
       /\ \E image \in {Null} \cup
             (IF session = Null THEN {} ELSE {[r.of EXCEPT !.doc = session]}) :
            renders' = (renders \ {r}) \cup {[r EXCEPT !.at = "answered", !.image = image]}
  /\ OnlyPreviews /\ UNCHANGED <<frontVars, backVars, running, session, opened>>

-----------------------------------------------------------------------------
(* start_estimate.                                                         *)

\* ESTIMATE_REQUEST_STARTED; the button is disabled while one is running.
ClickEstimate ==
  /\ Ready /\ win.estimate # "running" /\ Spend("estimate")
  /\ estimateId' = estimateId + 1
  /\ win' = [win EXCEPT !.latestEstimate = estimateId', !.estimate = "running",
                        !.result = Null]
  /\ estimates' = estimates \cup
       {[id |-> estimateId', of |-> Wants(win), at |-> "asked", ok |-> FALSE]}
  /\ OnlyEstimates /\ UNCHANGED <<rendered, timer, previewId, missing, backVars, workerVars>>

EstimateAt(e, place) == e \in estimates /\ e.at = place
Turns(e, f) == estimates' = (estimates \ {e}) \cup {f}

EstimateCheck(e) ==
  /\ EstimateAt(e, "asked")
  /\ Turns(e, [e EXCEPT !.at = IF e.of.doc = document /\ job = Null
                               THEN "checked" ELSE "answered"])
  /\ OnlyEstimates /\ UNCHANGED <<frontVars, backVars, workerVars>>

\* The flag of the one before is set, and this one's takes its place.
EstimateRegister(e) ==
  /\ EstimateAt(e, "checked")
  /\ Turns(e, [e EXCEPT !.at = "queued"])
  /\ flagged' = flagged \cup ({estimateJob} \ {Null})
  /\ estimateJob' = e.id
  /\ Send("estimate", e.id)
  /\ OnlyEstimates /\ UNCHANGED <<frontVars, document, job, running, session, opened>>

\* The flag is looked at before every page: once set it ends the estimate,
\* unless the last page was begun.
WorkEstimate ==
  /\ Takes({"estimate"})
  /\ \E e \in estimates :
       /\ e.id = Head(queue).id
       /\ \/ session # Null /\ e.id \notin flagged
             /\ running' = e.id /\ Turns(e, [e EXCEPT !.at = "running"])
          \/ UNCHANGED running /\ Turns(e, [e EXCEPT !.at = "replied"])
  /\ OnlyEstimates /\ UNCHANGED <<frontVars, backVars, session, opened>>
EndEstimate ==
  /\ running # Null /\ running' = Null
  /\ \E e \in estimates, ok \in BOOLEAN :
       e.id = running /\ Turns(e, [e EXCEPT !.at = "replied", !.ok = ok])
  /\ OnlyEstimates /\ UNCHANGED <<frontVars, backVars, queue, session, opened>>

\* As below, whoever's flag is there.
EstimateClearFaulty(e) ==
  /\ EstimateAt(e, "replied")
  /\ Turns(e, [e EXCEPT !.at = "answered"])
  /\ estimateJob' = Null
  /\ OnlyEstimates /\ UNCHANGED <<frontVars, flagged, document, job, workerVars>>

\* The slot is cleared of this one's flag only.
EstimateClear(e) ==
  /\ EstimateAt(e, "replied")
  /\ Turns(e, [e EXCEPT !.at = "answered"])
  /\ estimateJob' = IF estimateJob = e.id THEN Null ELSE estimateJob
  /\ OnlyEstimates /\ UNCHANGED <<frontVars, flagged, document, job, workerVars>>

\* As below, with the generation of the previews.
CountsFaulty(e) == e.id = estimateId /\ Ready /\ e.id = win.latest

\* ESTIMATE_SUCCEEDED, ESTIMATE_FAILED.
Counts(e) == e.id = estimateId /\ Ready /\ e.id = win.latestEstimate
EstimateAnswered(e) ==
  /\ EstimateAt(e, "answered")
  /\ estimates' = estimates \ {e}
  /\ win' = IF ~Counts(e) THEN win
            ELSE IF e.ok
              THEN [win EXCEPT !.estimate = "ready", !.result = e.of]
              ELSE [win EXCEPT !.estimate = "failed"]
  /\ OnlyEstimates
  /\ UNCHANGED <<rendered, timer, previewId, estimateId, missing, backVars, workerVars>>

-----------------------------------------------------------------------------
(* Opening and closing.                                                    *)

OnlyOpening == UNCHANGED <<renders, estimates, start, started, ends>>
Reopens(w) == Shows(w) /\ missing' = {} /\ UNCHANGED <<rendered, timer, previewId, estimateId>>

OpenAt(o, place) == o \in openings /\ o.at = place
OpenTurns(o, f) == openings' = (openings \ {o}) \cup {f}
CallOpen(password) ==
  /\ Cardinality(openings) < Openings /\ Spend("open")
  /\ opened' = opened + 1
  /\ openings' = openings \cup
       {[id |-> opened', at |-> "asked", password |-> password, answer |-> Null]}
  /\ OnlyOpening /\ UNCHANGED <<closing, backVars, queue, running, session>>

Open ==
  /\ win.kind \notin {"processing", "opening"}
  /\ CallOpen(FALSE)
  /\ Reopens(State("opening", Null, Default))

\* handlePasswordSubmit: the prompt stays until the answer is there.
SubmitPassword == win.kind = "passwordRequired" /\ CallOpen(TRUE) /\ UNCHANGED frontVars

OpenSend(o) ==
  /\ OpenAt(o, "asked")
  /\ IF job = Null
     THEN OpenTurns(o, [o EXCEPT !.at = "queued"]) /\ Send("open", o.id)
     ELSE OpenTurns(o, [o EXCEPT !.at = "answered", !.answer = "failed"]) /\ UNCHANGED queue
  /\ OnlyOpening /\ UNCHANGED <<frontVars, closing, backVars, running, session, opened>>
WorkOpen ==
  /\ Takes({"open"})
  /\ \E o \in openings :
       /\ o.id = Head(queue).id
       /\ \/ session' = o.id /\ OpenTurns(o, [o EXCEPT !.at = "opened"])
          \/ /\ UNCHANGED session
             /\ \E answer \in {"failed", "passwordRequired"} :
                  OpenTurns(o, [o EXCEPT !.at = "answered", !.answer = answer])
  /\ OnlyOpening /\ UNCHANGED <<frontVars, closing, backVars, running, opened>>
OpenStore(o) ==
  /\ OpenAt(o, "opened")
  /\ document' = o.id
  /\ OpenTurns(o, [o EXCEPT !.at = "answered", !.answer = "ready"])
  /\ OnlyOpening /\ UNCHANGED <<frontVars, closing, flagged, job, estimateJob, workerVars>>

\* Whatever fails after a password leaves the prompt as it is.
OpenAnswered(o) ==
  /\ OpenAt(o, "answered")
  /\ openings' = openings \ {o}
  /\ IF o.answer = "ready"
     THEN Reopens(State("ready", o.id, IF Ready THEN win.settings ELSE Default))
     ELSE IF o.password THEN UNCHANGED frontVars ELSE Reopens(State(o.answer, Null, Default))
  /\ OnlyOpening /\ UNCHANGED <<closing, backVars, workerVars>>

\* handleCloseAndDismiss: the document of a failed conversion is shown again,
\* and closed.
Dismiss ==
  /\ win.kind = "failed"
  /\ Reopens(State(IF win.doc = Null THEN "idle" ELSE "ready", win.doc, Default))
  /\ closing' = closing + 1
  /\ OnlyOpening /\ UNCHANGED <<openings, backVars, workerVars>>
Close ==
  /\ closing > 0 /\ closing' = closing - 1
  /\ IF job = Null THEN Send("close", 0) /\ document' = Null ELSE UNCHANGED <<queue, document>>
  /\ OnlyOpening /\ UNCHANGED <<frontVars, openings, flagged, job, estimateJob>>
  /\ UNCHANGED <<running, session, opened>>
WorkClose ==
  /\ Takes({"close"})
  /\ session' = Null
  /\ OnlyOpening /\ UNCHANGED <<frontVars, openings, closing, backVars, running, opened>>

-----------------------------------------------------------------------------
(* Converting.                                                             *)

OnlyConverting == UNCHANGED <<renders, estimates, openings, closing>>

Convert ==
  /\ Ready /\ start = Null /\ Spend("convert")
  /\ started' = started + 1
  /\ start' = [at |-> "asked", doc |-> win.doc]
  /\ OnlyConverting /\ UNCHANGED <<frontVars, ends, backVars, workerVars>>
StartClaim ==
  /\ start # Null /\ start.at = "asked"
  /\ IF start.doc = document /\ job = Null
     THEN start' = [start EXCEPT !.at = "claimed"] /\ job' = started
     ELSE start' = [start EXCEPT !.at = "refused"] /\ UNCHANGED job
  /\ OnlyConverting
  /\ UNCHANGED <<frontVars, started, ends, flagged, document, estimateJob, workerVars>>

\* A conversion wins over an estimate.
StartTakes ==
  /\ start # Null /\ start.at = "claimed"
  /\ start' = [start EXCEPT !.at = "taken"]
  /\ flagged' = flagged \cup ({estimateJob} \ {Null}) /\ estimateJob' = Null
  /\ OnlyConverting /\ UNCHANGED <<frontVars, started, ends, document, job, workerVars>>
StartSend ==
  /\ start # Null /\ start.at = "taken"
  /\ start' = [start EXCEPT !.at = "accepted"] /\ Send("process", job)
  /\ OnlyConverting
  /\ UNCHANGED <<frontVars, started, ends, backVars, running, session, opened>>

\* The job is over: its slot is free and its event on the way.
WorkProcess ==
  /\ Takes({"process"})
  /\ job' = Null
  /\ \E end \in {"completed", "failed"} :
       /\ session = Null => end = "failed"
       /\ ends' = ends \cup {<<Head(queue).id, end>>}
  /\ OnlyConverting /\ UNCHANGED <<frontVars, start, started>>
  /\ UNCHANGED <<flagged, document, estimateJob, running, session, opened>>

\* PROCESSING_STARTED counts in "ready" only; a refusal is an OPEN_FAILED.
StartAnswered ==
  /\ start # Null /\ start.at \in {"accepted", "refused"}
  /\ start' = Null
  /\ \/ start.at = "refused" /\ Reopens(State("failed", Null, Default))
     \/ start.at = "accepted" /\ Ready
        /\ Reopens([State("processing", win.doc, win.settings) EXCEPT !.job = started])
     \/ start.at = "accepted" /\ ~Ready /\ UNCHANGED frontVars
  /\ OnlyConverting /\ UNCHANGED <<started, ends, backVars, workerVars>>
HearEnd(e) ==
  /\ e \in ends /\ ends' = ends \ {e}
  /\ IF win.kind = "processing" /\ win.job = e[1]
     THEN Reopens(State(e[2], win.doc, IF e[2] = "failed" THEN Default ELSE win.settings))
     ELSE UNCHANGED frontVars
  /\ OnlyConverting /\ UNCHANGED <<start, started, backVars, workerVars>>

StartOver ==
  /\ win.kind = "completed"
  /\ Reopens(State("ready", win.doc, win.settings))
  /\ UNCHANGED <<callVars, backVars, workerVars>>

-----------------------------------------------------------------------------
Asks ==
  \/ \E p \in Pages : SelectPage(p)
  \/ \E s \in Settings : SetSettings(s)
  \/ TimerFires \/ ClickEstimate \/ Open \/ SubmitPassword \/ Convert
Front ==
  \/ Effect \/ Dismiss \/ StartOver
  \/ \E r \in renders : PreviewAnswered(r)
  \/ \E e \in estimates : EstimateAnswered(e)
  \/ (\E o \in openings : OpenAnswered(o)) \/ StartAnswered \/ \E e \in ends : HearEnd(e)
Commands ==
  \/ \E r \in renders : RenderCheck(r)
  \/ \E e \in estimates : EstimateCheck(e) \/ EstimateRegister(e) \/ EstimateClear(e)
  \/ \E o \in openings : OpenSend(o) \/ OpenStore(o)
  \/ Close
  \/ StartClaim \/ StartTakes \/ StartSend
Worker == WorkRender \/ WorkEstimate \/ EndEstimate \/ WorkOpen \/ WorkClose \/ WorkProcess

Next ==
  \/ Asks
  \/ (Front \/ Commands \/ Worker) /\ UNCHANGED left
Spec == Init /\ [][Next]_vars

-----------------------------------------------------------------------------
Windows ==
  [kind : {"idle", "opening", "passwordRequired", "ready", "processing", "completed", "failed"},
   doc : Nat \cup {Null}, page : Pages, settings : Settings,
   pane : [Kinds -> Requests \cup {Null}], job : Nat, loading : BOOLEAN, error : BOOLEAN,
   latest : Nat, estimate : {"idle", "running", "ready", "stale", "failed"},
   result : Requests \cup {Null}, latestEstimate : Nat]

RenderCalls ==
  [id : Nat, kind : Kinds, of : Requests, at : {"asked", "queued", "answered"},
   image : Requests \cup {Null}]
EstimateCalls ==
  [id : Nat, of : Requests, ok : BOOLEAN,
   at : {"asked", "checked", "queued", "running", "replied", "answered"}]
Answers == {"ready", "failed", "passwordRequired"}
OpenCalls ==
  {o \in [id : Nat, at : {"asked", "queued", "opened", "answered"}, password : BOOLEAN,
          answer : Answers \cup {Null}] :
     o.at = "answered" => o.answer \in Answers}
StartCalls == [at : {"asked", "claimed", "taken", "accepted", "refused"}, doc : Nat]
Messages ==
  [kind : Kinds \cup {"estimate", "open", "close", "process"}, id : Nat \cup {Null}]

TypeOK ==
  /\ left \in [Asked -> Nat]
  /\ win \in Windows /\ {rendered, timer} \subseteq Requests \cup {Null}
  /\ previewId \in Nat /\ estimateId \in Nat /\ missing \subseteq Kinds
  /\ renders \subseteq RenderCalls
  /\ estimates \subseteq EstimateCalls
  /\ openings \subseteq OpenCalls
  /\ closing \in Nat /\ started \in Nat
  /\ start \in {Null} \cup StartCalls
  /\ ends \subseteq (Nat \cup {Null}) \X {"completed", "failed"}
  /\ {document, job, estimateJob, running, session} \subseteq Nat \cup {Null}
  /\ flagged \subseteq Nat /\ opened \in Nat
  /\ queue \in Seq(Messages)

\* Nothing the previews wait for is under way.
Quiet == Settled /\ timer = Null /\ renders = {}

\* Whatever order answers came in, and whatever session the worker had when
\* it rendered: the images are of the document the window shows, and once all
\* is quiet of its page and its settings, except for those that failed or
\* that a click on the page or the settings that were there has emptied.  With
\* two documents opened at a time (Openings = 2) TLC refutes it: the worker may
\* have one open and the back end have noted the other.
PaneComesRight ==
  Ready =>
    /\ \A k \in Kinds : win.pane[k] # Null => win.pane[k].doc = win.doc
    /\ Quiet => \A k \in Kinds \ missing : win.pane[k] = Wants(win)

\* What is shown as under way is: nobody waits for a preview or an estimate
\* whose answer was dropped.
NobodyWaitsInVain ==
  Ready =>
    /\ win.loading => \A k \in Kinds : \E r \in renders : r.kind = k /\ r.id = win.latest
    /\ win.estimate = "running" =>
         \E e \in estimates : e.id = win.latestEstimate /\ e.id = estimateId

\* An estimate on its way to the worker, or at it, can be stopped or is: a
\* conversion, and the next estimate, take it out of the way.
EstimatesCanBeStopped ==
  \A e \in estimates :
    e.at \in {"queued", "running"} => e.id \in flagged \/ estimateJob = e.id

-----------------------------------------------------------------------------
(***************************************************************************)
(* What the documents say and the code does not do: TLC refutes these.     *)
(***************************************************************************)
\* An emptied pane is filled again.
PaneIsFilled == Ready /\ Quiet /\ win.pane["original"] = Null => win.error

\* "A page change must invalidate both" previews (usePreview.ts).
PaneIsOfPage == Ready /\ win.pane["original"] # Null => win.pane["original"].page = win.page

\* An estimate is of the settings shown, or called outdated.
EstimateIsCurrent == Ready /\ win.estimate = "ready" => win.result.settings = win.settings

\* "A `Convert` click is never stuck behind an estimate" (docs/desktop.md).
ConvertIsNotBehindEstimates ==
  \A i, j \in 1 .. Len(queue) :
    i < j /\ queue[i].kind = "estimate" /\ queue[j].kind = "process" => queue[i].id \in flagged
=============================================================================
