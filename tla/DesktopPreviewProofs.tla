------------------------ MODULE DesktopPreviewProofs ------------------------
(***************************************************************************)
(* Proofs about DesktopPreview: the types of its state, and its three      *)
(* invariants for any number of pages, settings and requests.              *)
(*                                                                         *)
(* EstimatesCanBeStopped and NobodyWaitsInVain need little more than that  *)
(* ids are counted up.  PaneComesRight holds of the runs in which no two   *)
(* documents are being opened at one time: the session and the document of *)
(* the back end are then those the window shows, or gone (OneDocument); an *)
(* answer the window accepts was rendered from them (ImagesFit); and the   *)
(* newest requests ask for what the effect last ran with (RequestsFit).    *)
(***************************************************************************)
EXTENDS DesktopPreview, FiniteSetTheorems, TLAPS

-----------------------------------------------------------------------------
(* Types.                                                                  *)

Shown == {"ready", "processing", "completed"}
WindowKinds == Shown \cup {"idle", "opening", "passwordRequired", "failed"}

\* A window that shows a document has one.
ShownHasDocument == win.kind \in Shown => win.doc # Null
Typed == TypeOK /\ ShownHasDocument

\* The reducer's fresh states are windows.
LEMMA FreshWindow ==
  ASSUME NEW kind \in WindowKinds, NEW d \in Nat \cup {Null}, NEW s \in Settings
  PROVE  State(kind, d, s) \in Windows
BY BoundsAssumption DEF State, Windows, WindowKinds, Shown, Pages, NoPane

\* What the previews of a window are asked for is a request, if there is one.
LEMMA WantsRequest ==
  ASSUME NEW w \in Windows, w.kind = "ready" => w.doc # Null
  PROVE  /\ Wants(w) \in Requests \cup {Null}
         /\ Wants(w) # Null <=> w.kind = "ready"
BY NullAssumption DEF Wants, Windows, Requests

\* What the reducer changes of a window leaves a window.
LEMMA EmptiedWindow ==
  ASSUME NEW w \in Windows, NEW p \in Pages
  PROVE  [w EXCEPT !.page = p, !.pane = NoPane, !.loading = FALSE, !.error = FALSE] \in Windows
<1>1. NoPane \in [Kinds -> Requests \cup {Null}]
  BY DEF NoPane
<1> QED
  BY <1>1 DEF Windows

LEMMA AskingWindow ==
  ASSUME NEW w \in Windows, NEW n \in Nat
  PROVE  [w EXCEPT !.latest = n, !.loading = TRUE, !.error = FALSE] \in Windows
BY DEF Windows

LEMMA FilledWindow ==
  ASSUME NEW w \in Windows, NEW k \in Kinds, NEW image \in Requests \cup {Null}
  PROVE  [w EXCEPT !.loading = FALSE, !.error = FALSE, !.pane[k] = image] \in Windows
<1>1. w.pane \in [Kinds -> Requests \cup {Null}]
  BY DEF Windows
<1>2. [w.pane EXCEPT ![k] = image] \in [Kinds -> Requests \cup {Null}]
  BY <1>1
<1>3. \A pane \in [Kinds -> Requests \cup {Null}] :
        [w EXCEPT !.loading = FALSE, !.error = FALSE, !.pane = pane] \in Windows
  BY DEF Windows
<1>4. [w EXCEPT !.loading = FALSE, !.error = FALSE, !.pane[k] = image]
      = [w EXCEPT !.loading = FALSE, !.error = FALSE, !.pane = [w.pane EXCEPT ![k] = image]]
  BY DEF Windows
<1> QED
  BY <1>2, <1>3, <1>4

LEMMA FailedWindow ==
  ASSUME NEW w \in Windows
  PROVE  [w EXCEPT !.loading = FALSE, !.error = TRUE] \in Windows
BY DEF Windows

LEMMA SetWindow ==
  ASSUME NEW w \in Windows, NEW s \in Settings,
         NEW estimate \in {"idle", "running", "ready", "stale", "failed"}
  PROVE  [w EXCEPT !.settings = s, !.pane["processed"] = Null, !.estimate = estimate] \in Windows
<1>1. w.pane \in [Kinds -> Requests \cup {Null}]
  BY DEF Windows
<1>2. [w.pane EXCEPT !["processed"] = Null] \in [Kinds -> Requests \cup {Null}]
  BY <1>1
<1>3. \A pane \in [Kinds -> Requests \cup {Null}] :
        [w EXCEPT !.settings = s, !.pane = pane, !.estimate = estimate] \in Windows
  BY DEF Windows
<1>4. [w EXCEPT !.settings = s, !.pane["processed"] = Null, !.estimate = estimate]
      = [w EXCEPT !.settings = s, !.pane = [w.pane EXCEPT !["processed"] = Null],
                  !.estimate = estimate]
  BY DEF Windows
<1> QED
  BY <1>2, <1>3, <1>4

LEMMA EstimatingWindow ==
  ASSUME NEW w \in Windows, NEW n \in Nat, NEW result \in Requests,
         NEW estimate \in {"idle", "running", "ready", "stale", "failed"}
  PROVE  /\ [w EXCEPT !.latestEstimate = n, !.estimate = "running", !.result = Null] \in Windows
         /\ [w EXCEPT !.estimate = "ready", !.result = result] \in Windows
         /\ [w EXCEPT !.estimate = "failed"] \in Windows
BY DEF Windows

LEMMA InitTyped == Init => Typed
<1> SUFFICES ASSUME Init PROVE Typed
    OBVIOUS
<1>1. win \in Windows /\ win.kind = "idle"
  BY FreshWindow, SettingsAssumption DEF Init, State, WindowKinds
<1> QED
  BY <1>1, BoundsAssumption DEF Init, Typed, TypeOK, ShownHasDocument, Shown

\* What a step does not touch keeps its type.
LEMMA StutterTyped == ASSUME Typed, UNCHANGED vars PROVE Typed'
BY DEF Typed, TypeOK, ShownHasDocument, vars, frontVars, callVars, backVars, workerVars

LEMMA TypedAsksKeepsLeft ==
  ASSUME TypeOK, NEW what \in Asked, Spend(what) PROVE left' \in [Asked -> Nat]
BY DEF TypeOK, Spend

LEMMA SelectPageTyped ==
  ASSUME Typed, NEW p \in Pages, SelectPage(p) PROVE Typed'
<1>1. left' \in [Asked -> Nat]
  BY TypedAsksKeepsLeft DEF Typed, SelectPage, Asked
<1>2. win' = [win EXCEPT !.page = p, !.pane = NoPane, !.loading = FALSE, !.error = FALSE]
  BY DEF SelectPage, Shows
<1>3. win' \in Windows
  BY <1>2, EmptiedWindow DEF Typed, TypeOK
<1>4. win'.doc = win.doc /\ win'.kind = win.kind
  BY <1>2 DEF Typed, TypeOK, Windows
<1>5. missing' \subseteq Kinds
  BY DEF Typed, TypeOK, SelectPage
<1> QED
  BY <1>1, <1>3, <1>4, <1>5 DEF Typed, TypeOK, ShownHasDocument, SelectPage,
     callVars, backVars, workerVars

LEMMA SetSettingsTyped ==
  ASSUME Typed, NEW s \in Settings, SetSettings(s) PROVE Typed'
<1>1. left' \in [Asked -> Nat]
  BY TypedAsksKeepsLeft DEF Typed, SetSettings, Asked
<1> DEFINE estimate == IF win.estimate = "ready" THEN "stale" ELSE win.estimate
<1>2. win' = [win EXCEPT !.settings = s, !.pane["processed"] = Null, !.estimate = estimate]
  BY DEF SetSettings, Shows, Typed, TypeOK, Windows
<1>3. win' \in Windows
  <2>1. estimate \in {"idle", "running", "ready", "stale", "failed"} /\ "processed" \in Kinds
    BY DEF Typed, TypeOK, Windows, Kinds
  <2> HIDE DEF estimate
  <2> QED
    BY <1>2, <2>1, SetWindow DEF Typed, TypeOK
<1>4. win'.doc = win.doc /\ win'.kind = win.kind
  BY <1>2 DEF Typed, TypeOK, Windows
<1>5. missing' \subseteq Kinds
  BY DEF Typed, TypeOK, SetSettings, Kinds
<1> QED
  BY <1>1, <1>3, <1>4, <1>5 DEF Typed, TypeOK, ShownHasDocument, SetSettings,
     callVars, backVars, workerVars

LEMMA EffectTyped == ASSUME Typed, Effect, UNCHANGED left PROVE Typed'
<1>1. Wants(win) \in Requests \cup {Null}
  BY WantsRequest DEF Typed, TypeOK, ShownHasDocument, Shown
<1> QED
  BY <1>1 DEF Typed, TypeOK, ShownHasDocument, Effect, callVars, backVars, workerVars

LEMMA TimerFiresTyped == ASSUME Typed, TimerFires PROVE Typed'
<1>1. left' \in [Asked -> Nat]
  BY TypedAsksKeepsLeft DEF Typed, TimerFires, Asked
<1>2. previewId' \in Nat
  BY DEF Typed, TypeOK, TimerFires
<1>3. \/ win' = win
      \/ win' = [win EXCEPT !.latest = previewId', !.loading = TRUE, !.error = FALSE]
  BY DEF TimerFires
<1>4. win' \in Windows
  BY <1>2, <1>3, AskingWindow DEF Typed, TypeOK
<1>5. win'.doc = win.doc /\ win'.kind = win.kind
  BY <1>3 DEF Typed, TypeOK, Windows
<1>6. renders' \subseteq RenderCalls
  BY <1>2 DEF Typed, TypeOK, TimerFires, RenderCalls
<1> QED
  BY <1>1, <1>2, <1>4, <1>5, <1>6 DEF Typed, TypeOK, ShownHasDocument, TimerFires,
     OnlyPreviews, backVars, workerVars

LEMMA PreviewAnsweredTyped ==
  ASSUME Typed, NEW r \in renders, PreviewAnswered(r), UNCHANGED left PROVE Typed'
<1>1. r.kind \in Kinds /\ r.image \in Requests \cup {Null}
  BY DEF Typed, TypeOK, RenderCalls
<1>2. \/ win' = win
      \/ win' = [win EXCEPT !.loading = FALSE, !.error = TRUE]
      \/ win' = [win EXCEPT !.loading = FALSE, !.error = FALSE, !.pane[r.kind] = r.image]
  BY DEF PreviewAnswered
<1>3. win' \in Windows
  <2>1. win \in Windows
    BY DEF Typed, TypeOK
  <2>2. CASE win' = win
    BY <2>1, <2>2
  <2>3. CASE win' = [win EXCEPT !.loading = FALSE, !.error = TRUE]
    BY <2>1, <2>3, FailedWindow
  <2>4. CASE win' = [win EXCEPT !.loading = FALSE, !.error = FALSE, !.pane[r.kind] = r.image]
    BY <1>1, <2>1, <2>4, FilledWindow
  <2> QED
    BY <1>2, <2>2, <2>3, <2>4
<1>4. win'.doc = win.doc /\ win'.kind = win.kind
  BY <1>2 DEF Typed, TypeOK, Windows
<1>5. missing' \subseteq Kinds
  BY <1>1 DEF Typed, TypeOK, PreviewAnswered
<1> QED
  BY <1>3, <1>4, <1>5 DEF Typed, TypeOK, ShownHasDocument, PreviewAnswered, OnlyPreviews,
     backVars, workerVars

LEMMA SendTyped ==
  ASSUME queue \in Seq(Messages), NEW kind \in Kinds \cup {"estimate", "open", "close", "process"},
         NEW id \in Nat \cup {Null}, Send(kind, id)
  PROVE  queue' \in Seq(Messages)
BY DEF Send, Messages

LEMMA TakesTyped ==
  ASSUME queue \in Seq(Messages), NEW kinds, Takes(kinds)
  PROVE  queue' \in Seq(Messages) /\ Head(queue) \in Messages
BY DEF Takes

LEMMA RenderCheckTyped ==
  ASSUME Typed, NEW r \in renders, RenderCheck(r), UNCHANGED left PROVE Typed'
<1>1. r \in RenderCalls
  BY DEF Typed, TypeOK
<1>2. queue' \in Seq(Messages)
  BY <1>1, SendTyped DEF Typed, TypeOK, RenderCheck, RenderCalls
<1>3. \/ renders' = (renders \ {r}) \cup {[r EXCEPT !.at = "queued"]}
      \/ renders' = (renders \ {r}) \cup {[r EXCEPT !.at = "answered"]}
  BY DEF RenderCheck
<1>4. [r EXCEPT !.at = "queued"] \in RenderCalls /\ [r EXCEPT !.at = "answered"] \in RenderCalls
  BY <1>1 DEF RenderCalls
<1>5. renders' \subseteq RenderCalls
  BY <1>3, <1>4 DEF Typed, TypeOK
<1> QED
  BY <1>2, <1>5 DEF Typed, TypeOK, ShownHasDocument, RenderCheck, OnlyPreviews,
     backVars, frontVars

LEMMA WorkRenderTyped == ASSUME Typed, WorkRender, UNCHANGED left PROVE Typed'
<1>1. queue' \in Seq(Messages)
  BY TakesTyped DEF Typed, TypeOK, WorkRender
<1>2. renders' \subseteq RenderCalls
  <2>1. PICK r \in renders : \E image \in {Null} \cup
               (IF session = Null THEN {} ELSE {[r.of EXCEPT !.doc = session]}) :
          renders' = (renders \ {r}) \cup {[r EXCEPT !.at = "answered", !.image = image]}
    BY DEF WorkRender
  <2> PICK image \in {Null} \cup
               (IF session = Null THEN {} ELSE {[r.of EXCEPT !.doc = session]}) :
          renders' = (renders \ {r}) \cup {[r EXCEPT !.at = "answered", !.image = image]}
    BY <2>1
  <2>2. image \in Requests \cup {Null}
    BY DEF Typed, TypeOK, Requests, RenderCalls
  <2>3. [r EXCEPT !.at = "answered", !.image = image] \in RenderCalls
    BY <2>2 DEF Typed, TypeOK, RenderCalls
  <2> QED
    BY <2>3 DEF Typed, TypeOK
<1> QED
  BY <1>1, <1>2 DEF Typed, TypeOK, ShownHasDocument, WorkRender, OnlyPreviews,
     backVars, frontVars

\* The window and its hooks, for the actions that show a fresh state or none.
FrontTyped ==
  /\ win \in Windows /\ {rendered, timer} \subseteq Requests \cup {Null}
  /\ previewId \in Nat /\ estimateId \in Nat /\ missing \subseteq Kinds /\ ShownHasDocument

LEMMA ReopensTyped ==
  ASSUME Typed, NEW kind \in WindowKinds, NEW d \in Nat \cup {Null}, NEW s \in Settings,
         kind \in Shown => d # Null, Reopens(State(kind, d, s))
  PROVE  FrontTyped'
<1>1. win' = State(kind, d, s)
  BY DEF Reopens, Shows
<1>2. win' \in Windows
  BY <1>1, FreshWindow
<1>3. ShownHasDocument'
  BY <1>1 DEF ShownHasDocument, State
<1> QED
  BY <1>2, <1>3 DEF FrontTyped, Typed, TypeOK, Reopens

LEMMA FrontStutters == ASSUME Typed, UNCHANGED frontVars PROVE FrontTyped'
BY DEF FrontTyped, Typed, TypeOK, ShownHasDocument, frontVars

LEMMA ClickEstimateTyped == ASSUME Typed, ClickEstimate PROVE Typed'
<1>1. left' \in [Asked -> Nat]
  BY TypedAsksKeepsLeft DEF Typed, ClickEstimate, Asked
<1>2. estimateId' \in Nat
  BY DEF Typed, TypeOK, ClickEstimate
<1>3. win' = [win EXCEPT !.latestEstimate = estimateId', !.estimate = "running", !.result = Null]
  BY DEF ClickEstimate
<1>4. Wants(win) \in Requests
  BY WantsRequest DEF Typed, TypeOK, ShownHasDocument, Shown, ClickEstimate, Ready
<1>5. win' \in Windows
  BY <1>2, <1>3, <1>4, EstimatingWindow DEF Typed, TypeOK
<1>6. win'.doc = win.doc /\ win'.kind = win.kind
  BY <1>3 DEF Typed, TypeOK, Windows
<1>7. estimates' \subseteq EstimateCalls
  <2>1. [id |-> estimateId', of |-> Wants(win), at |-> "asked", ok |-> FALSE] \in EstimateCalls
    BY <1>2, <1>4 DEF EstimateCalls
  <2> QED
    BY <2>1 DEF Typed, TypeOK, ClickEstimate
<1> QED
  BY <1>1, <1>2, <1>5, <1>6, <1>7 DEF Typed, TypeOK, ShownHasDocument, ClickEstimate,
     OnlyEstimates, backVars, workerVars

\* An estimate moves on, and stays what it was asked for.
LEMMA EstimateMoves ==
  ASSUME Typed, NEW e \in estimates, NEW ok \in BOOLEAN,
         NEW place \in {"asked", "checked", "queued", "running", "replied", "answered"}
  PROVE  /\ [e EXCEPT !.at = place] \in EstimateCalls
         /\ [e EXCEPT !.at = place, !.ok = ok] \in EstimateCalls
BY DEF Typed, TypeOK, EstimateCalls

LEMMA EstimateCheckTyped ==
  ASSUME Typed, NEW e \in estimates, EstimateCheck(e), UNCHANGED left PROVE Typed'
<1>1. estimates' \subseteq EstimateCalls
  BY EstimateMoves DEF Typed, TypeOK, EstimateCheck, Turns
<1> QED
  BY <1>1 DEF Typed, TypeOK, ShownHasDocument, EstimateCheck, OnlyEstimates,
     frontVars, backVars, workerVars

LEMMA EstimateRegisterTyped ==
  ASSUME Typed, NEW e \in estimates, EstimateRegister(e), UNCHANGED left PROVE Typed'
<1>1. estimates' \subseteq EstimateCalls
  BY EstimateMoves DEF Typed, TypeOK, EstimateRegister, Turns
<1>2. e.id \in Nat
  BY DEF Typed, TypeOK, EstimateCalls
<1>3. queue' \in Seq(Messages)
  BY <1>2, SendTyped DEF Typed, TypeOK, EstimateRegister
<1> QED
  BY <1>1, <1>2, <1>3 DEF Typed, TypeOK, ShownHasDocument, EstimateRegister, OnlyEstimates,
     frontVars

LEMMA WorkEstimateTyped == ASSUME Typed, WorkEstimate, UNCHANGED left PROVE Typed'
<1>1. queue' \in Seq(Messages)
  BY TakesTyped DEF Typed, TypeOK, WorkEstimate
<1>2. PICK e \in estimates :
        \/ running' = e.id /\ Turns(e, [e EXCEPT !.at = "running"])
        \/ UNCHANGED running /\ Turns(e, [e EXCEPT !.at = "replied"])
  BY DEF WorkEstimate
<1>3. estimates' \subseteq EstimateCalls
  <2>1. [e EXCEPT !.at = "running"] \in EstimateCalls /\ [e EXCEPT !.at = "replied"] \in EstimateCalls
    BY EstimateMoves
  <2> QED
    BY <1>2, <2>1 DEF Typed, TypeOK, Turns
<1>4. running' \in Nat \cup {Null}
  BY <1>2 DEF Typed, TypeOK, EstimateCalls
<1> QED
  BY <1>1, <1>3, <1>4 DEF Typed, TypeOK, ShownHasDocument, WorkEstimate, OnlyEstimates,
     frontVars, backVars

LEMMA EndEstimateTyped == ASSUME Typed, EndEstimate, UNCHANGED left PROVE Typed'
<1>1. PICK e \in estimates : \E ok \in BOOLEAN : Turns(e, [e EXCEPT !.at = "replied", !.ok = ok])
  BY DEF EndEstimate
<1>2. estimates' \subseteq EstimateCalls
  BY <1>1, EstimateMoves DEF Typed, TypeOK, Turns
<1> QED
  BY <1>2 DEF Typed, TypeOK, ShownHasDocument, EndEstimate, OnlyEstimates,
     frontVars, backVars

LEMMA EstimateClearTyped ==
  ASSUME Typed, NEW e \in estimates, EstimateClear(e), UNCHANGED left PROVE Typed'
<1>1. estimates' \subseteq EstimateCalls
  BY EstimateMoves DEF Typed, TypeOK, EstimateClear, Turns
<1> QED
  BY <1>1 DEF Typed, TypeOK, ShownHasDocument, EstimateClear, OnlyEstimates,
     frontVars, workerVars

LEMMA EstimateAnsweredTyped ==
  ASSUME Typed, NEW e \in estimates, EstimateAnswered(e), UNCHANGED left PROVE Typed'
<1>1. e.of \in Requests
  BY DEF Typed, TypeOK, EstimateCalls
<1>2. \/ win' = win
      \/ win' = [win EXCEPT !.estimate = "ready", !.result = e.of]
      \/ win' = [win EXCEPT !.estimate = "failed"]
  BY DEF EstimateAnswered
<1>3. win' \in Windows
  BY <1>1, <1>2, EstimatingWindow DEF Typed, TypeOK
<1>4. win'.doc = win.doc /\ win'.kind = win.kind
  BY <1>2 DEF Typed, TypeOK, Windows
<1> QED
  BY <1>3, <1>4 DEF Typed, TypeOK, ShownHasDocument, EstimateAnswered, OnlyEstimates,
     backVars, workerVars

-----------------------------------------------------------------------------
LEMMA CallOpenTyped ==
  ASSUME Typed, NEW password \in BOOLEAN, CallOpen(password)
  PROVE  left' \in [Asked -> Nat] /\ opened' \in Nat /\ openings' \subseteq OpenCalls
<1>1. left' \in [Asked -> Nat]
  BY TypedAsksKeepsLeft DEF Typed, CallOpen, Asked
<1> QED
  BY <1>1 DEF Typed, TypeOK, CallOpen, OpenCalls, Answers

LEMMA OpenTyped == ASSUME Typed, Open PROVE Typed'
<1>1. left' \in [Asked -> Nat] /\ opened' \in Nat /\ openings' \subseteq OpenCalls
  BY CallOpenTyped DEF Open
<1>2. FrontTyped'
  BY ReopensTyped, SettingsAssumption DEF Open, WindowKinds, Shown
<1> QED
  BY <1>1, <1>2 DEF Typed, TypeOK, FrontTyped, Open, CallOpen, OnlyOpening, backVars

LEMMA SubmitPasswordTyped == ASSUME Typed, SubmitPassword PROVE Typed'
<1>1. left' \in [Asked -> Nat] /\ opened' \in Nat /\ openings' \subseteq OpenCalls
  BY CallOpenTyped DEF SubmitPassword
<1>2. FrontTyped'
  BY FrontStutters DEF SubmitPassword
<1> QED
  BY <1>1, <1>2 DEF Typed, TypeOK, FrontTyped, SubmitPassword, CallOpen, OnlyOpening, backVars

\* An opening moves on.
LEMMA OpeningId == ASSUME Typed, NEW o \in openings PROVE o.id \in Nat
BY DEF Typed, TypeOK, OpenCalls

LEMMA OpeningMoves ==
  ASSUME Typed, NEW o \in openings, NEW answer \in Answers
  PROVE  /\ [o EXCEPT !.at = "queued"] \in OpenCalls /\ [o EXCEPT !.at = "opened"] \in OpenCalls
         /\ [o EXCEPT !.at = "answered", !.answer = answer] \in OpenCalls
BY DEF Typed, TypeOK, OpenCalls, Answers

LEMMA OpenSendTyped ==
  ASSUME Typed, NEW o \in openings, OpenSend(o), UNCHANGED left PROVE Typed'
<1>1. openings' \subseteq OpenCalls
  BY OpeningMoves DEF Typed, TypeOK, Answers, OpenSend, OpenTurns
<1>2. queue' \in Seq(Messages)
  BY OpeningId, SendTyped DEF Typed, TypeOK, OpenSend
<1> QED
  BY <1>1, <1>2 DEF Typed, TypeOK, ShownHasDocument, OpenSend, OnlyOpening,
     frontVars, backVars

LEMMA WorkOpenTyped == ASSUME Typed, WorkOpen, UNCHANGED left PROVE Typed'
<1>1. queue' \in Seq(Messages)
  BY TakesTyped DEF Typed, TypeOK, WorkOpen
<1>2. PICK o \in openings :
        \/ session' = o.id /\ OpenTurns(o, [o EXCEPT !.at = "opened"])
        \/ /\ UNCHANGED session
           /\ \E answer \in {"failed", "passwordRequired"} :
                OpenTurns(o, [o EXCEPT !.at = "answered", !.answer = answer])
  BY DEF WorkOpen
<1>3. openings' \subseteq OpenCalls
  <2>1. /\ [o EXCEPT !.at = "opened"] \in OpenCalls
        /\ \A answer \in Answers : [o EXCEPT !.at = "answered", !.answer = answer] \in OpenCalls
    BY OpeningMoves DEF Answers
  <2> QED
    BY <1>2, <2>1 DEF Typed, TypeOK, OpenTurns, Answers
<1>4. session' \in Nat \cup {Null}
  BY <1>2, OpeningId DEF Typed, TypeOK
<1> QED
  BY <1>1, <1>3, <1>4 DEF Typed, TypeOK, ShownHasDocument, WorkOpen, OnlyOpening,
     frontVars, backVars

LEMMA OpenStoreTyped ==
  ASSUME Typed, NEW o \in openings, OpenStore(o), UNCHANGED left PROVE Typed'
<1>1. openings' \subseteq OpenCalls
  BY OpeningMoves DEF Typed, TypeOK, Answers, OpenStore, OpenTurns
<1> QED
  BY <1>1, OpeningId DEF Typed, TypeOK, ShownHasDocument, OpenStore, OnlyOpening,
     frontVars, workerVars

LEMMA OpenAnsweredTyped ==
  ASSUME Typed, NEW o \in openings, OpenAnswered(o), UNCHANGED left PROVE Typed'
<1>1. openings' \subseteq OpenCalls
  BY DEF Typed, TypeOK, OpenAnswered
<1>2. FrontTyped'
  <2>1. CASE o.answer = "ready"
    <3> DEFINE s == IF Ready THEN win.settings ELSE Default
    <3>1. o.id \in Nat \cup {Null} /\ o.id # Null /\ s \in Settings
      BY OpeningId, SettingsAssumption, NullAssumption DEF Typed, TypeOK, Windows
    <3>2. Reopens(State("ready", o.id, s))
      BY <2>1 DEF OpenAnswered
    <3> HIDE DEF s
    <3> QED
      BY <3>1, <3>2, ReopensTyped DEF WindowKinds, Shown
  <2>2. CASE o.answer # "ready" /\ o.password
    BY <2>2, FrontStutters DEF OpenAnswered
  <2>3. CASE o.answer # "ready" /\ ~o.password
    <3>1. Reopens(State(o.answer, Null, Default))
      BY <2>3 DEF OpenAnswered
    <3>2. o.answer \in {"failed", "passwordRequired"}
      BY <2>3 DEF Typed, TypeOK, OpenCalls, Answers, OpenAnswered, OpenAt
    <3> QED
      BY <3>1, <3>2, ReopensTyped, SettingsAssumption DEF WindowKinds, Shown
  <2> QED
    BY <2>1, <2>2, <2>3
<1> QED
  BY <1>1, <1>2 DEF Typed, TypeOK, FrontTyped, OpenAnswered, OnlyOpening,
     backVars, workerVars

LEMMA DismissTyped == ASSUME Typed, Dismiss, UNCHANGED left PROVE Typed'
<1>1. FrontTyped'
  <2>1. win.doc \in Nat \cup {Null} /\ Default \in Settings
    BY SettingsAssumption DEF Typed, TypeOK, Windows
  <2>2. CASE win.doc = Null
    BY <2>1, <2>2, ReopensTyped DEF Dismiss, WindowKinds, Shown
  <2>3. CASE win.doc # Null
    BY <2>1, <2>3, ReopensTyped DEF Dismiss, WindowKinds, Shown
  <2> QED
    BY <2>2, <2>3
<1> QED
  BY <1>1 DEF Typed, TypeOK, FrontTyped, Dismiss, OnlyOpening, backVars, workerVars

LEMMA CloseTyped == ASSUME Typed, Close, UNCHANGED left PROVE Typed'
<1>1. queue' \in Seq(Messages)
  BY SendTyped DEF Typed, TypeOK, Close
<1> QED
  BY <1>1 DEF Typed, TypeOK, ShownHasDocument, Close, OnlyOpening, frontVars

LEMMA WorkCloseTyped == ASSUME Typed, WorkClose, UNCHANGED left PROVE Typed'
<1>1. queue' \in Seq(Messages)
  BY TakesTyped DEF Typed, TypeOK, WorkClose
<1> QED
  BY <1>1 DEF Typed, TypeOK, ShownHasDocument, WorkClose, OnlyOpening, frontVars, backVars

-----------------------------------------------------------------------------
LEMMA ConvertTyped == ASSUME Typed, Convert PROVE Typed'
<1>1. left' \in [Asked -> Nat]
  BY TypedAsksKeepsLeft DEF Typed, Convert, Asked
<1>2. win.doc \in Nat
  BY DEF Typed, TypeOK, ShownHasDocument, Windows, Convert, Ready, Shown
<1>3. start' \in StartCalls
  BY <1>2 DEF Convert, StartCalls
<1> QED
  BY <1>1, <1>3 DEF Typed, TypeOK, ShownHasDocument, Convert, OnlyConverting,
     frontVars, backVars, workerVars

\* A start moves on.
LEMMA StartMoves ==
  ASSUME Typed, start # Null,
         NEW place \in {"asked", "claimed", "taken", "accepted", "refused"}
  PROVE  [start EXCEPT !.at = place] \in StartCalls
BY DEF Typed, TypeOK, StartCalls

LEMMA StartClaimTyped == ASSUME Typed, StartClaim, UNCHANGED left PROVE Typed'
<1>1. start' \in StartCalls
  BY StartMoves DEF StartClaim
<1> QED
  BY <1>1 DEF Typed, TypeOK, ShownHasDocument, StartClaim, OnlyConverting,
     frontVars, workerVars

LEMMA StartTakesTyped == ASSUME Typed, StartTakes, UNCHANGED left PROVE Typed'
<1>1. start' \in StartCalls
  BY StartMoves DEF StartTakes
<1> QED
  BY <1>1 DEF Typed, TypeOK, ShownHasDocument, StartTakes, OnlyConverting,
     frontVars, workerVars

LEMMA StartSendTyped == ASSUME Typed, StartSend, UNCHANGED left PROVE Typed'
<1>1. start' \in StartCalls
  BY StartMoves DEF StartSend
<1>2. queue' \in Seq(Messages)
  BY SendTyped DEF Typed, TypeOK, StartSend
<1> QED
  BY <1>1, <1>2 DEF Typed, TypeOK, ShownHasDocument, StartSend, OnlyConverting,
     frontVars, backVars

LEMMA WorkProcessTyped == ASSUME Typed, WorkProcess, UNCHANGED left PROVE Typed'
<1>1. queue' \in Seq(Messages) /\ Head(queue) \in Messages
  BY TakesTyped DEF Typed, TypeOK, WorkProcess
<1>2. ends' \subseteq (Nat \cup {Null}) \X {"completed", "failed"}
  BY <1>1 DEF Typed, TypeOK, WorkProcess, Messages
<1> QED
  BY <1>1, <1>2 DEF Typed, TypeOK, ShownHasDocument, WorkProcess, OnlyConverting, frontVars

LEMMA StartAnsweredTyped == ASSUME Typed, StartAnswered, UNCHANGED left PROVE Typed'
<1>1. FrontTyped'
  <2>1. CASE Reopens(State("failed", Null, Default))
    BY <2>1, ReopensTyped, SettingsAssumption DEF WindowKinds, Shown
  <2>2. CASE Ready /\ Reopens([State("processing", win.doc, win.settings) EXCEPT !.job = started])
    <3>1. win.doc \in Nat \cup {Null} /\ win.doc # Null /\ win.settings \in Settings
      BY <2>2 DEF Typed, TypeOK, ShownHasDocument, Windows, Ready, Shown
    <3>2. State("processing", win.doc, win.settings) \in Windows
      BY <3>1, FreshWindow DEF WindowKinds, Shown
    <3>3. win' \in Windows /\ win'.doc = win.doc
      BY <2>2, <3>2 DEF Typed, TypeOK, Windows, Reopens, Shows, State
    <3> QED
      BY <2>2, <3>1, <3>3 DEF FrontTyped, Typed, TypeOK, ShownHasDocument, Reopens
  <2>3. CASE UNCHANGED frontVars
    BY <2>3, FrontStutters
  <2> QED
    BY <2>1, <2>2, <2>3 DEF StartAnswered
<1> QED
  BY <1>1 DEF Typed, TypeOK, FrontTyped, StartAnswered, OnlyConverting, backVars, workerVars

LEMMA HearEndTyped ==
  ASSUME Typed, NEW e \in ends, HearEnd(e), UNCHANGED left PROVE Typed'
<1>1. ends' \subseteq (Nat \cup {Null}) \X {"completed", "failed"}
  BY DEF Typed, TypeOK, HearEnd
<1>2. FrontTyped'
  <2>1. CASE win.kind = "processing" /\ win.job = e[1]
    <3> DEFINE s == IF e[2] = "failed" THEN Default ELSE win.settings
    <3>1. Reopens(State(e[2], win.doc, s))
      BY <2>1 DEF HearEnd
    <3>2. /\ e[2] \in {"completed", "failed"} /\ s \in Settings
          /\ win.doc \in Nat \cup {Null} /\ win.doc # Null
      BY <2>1, SettingsAssumption DEF Typed, TypeOK, ShownHasDocument, Windows, Shown
    <3> HIDE DEF s
    <3> QED
      BY <3>1, <3>2, ReopensTyped DEF WindowKinds, Shown
  <2>2. CASE ~(win.kind = "processing" /\ win.job = e[1])
    BY <2>2, FrontStutters DEF HearEnd
  <2> QED
    BY <2>1, <2>2
<1> QED
  BY <1>1, <1>2 DEF Typed, TypeOK, FrontTyped, HearEnd, OnlyConverting, backVars, workerVars

LEMMA StartOverTyped == ASSUME Typed, StartOver, UNCHANGED left PROVE Typed'
<1>1. win.doc \in Nat \cup {Null} /\ win.doc # Null /\ win.settings \in Settings
  BY DEF Typed, TypeOK, ShownHasDocument, Windows, Shown, StartOver
<1>2. FrontTyped'
  BY <1>1, ReopensTyped DEF StartOver, WindowKinds, Shown
<1> QED
  BY <1>2 DEF Typed, TypeOK, FrontTyped, StartOver, callVars, backVars, workerVars

-----------------------------------------------------------------------------
LEMMA TypedIsInductive == ASSUME Typed, [Next]_vars PROVE Typed'
<1>1. CASE Asks
  BY <1>1, SelectPageTyped, SetSettingsTyped, TimerFiresTyped, ClickEstimateTyped, OpenTyped,
     SubmitPasswordTyped, ConvertTyped DEF Asks
<1>2. CASE Front /\ UNCHANGED left
  BY <1>2, EffectTyped, DismissTyped, StartOverTyped, PreviewAnsweredTyped,
     EstimateAnsweredTyped, OpenAnsweredTyped, StartAnsweredTyped, HearEndTyped DEF Front
<1>3. CASE Commands /\ UNCHANGED left
  BY <1>3, RenderCheckTyped, EstimateCheckTyped, EstimateRegisterTyped, EstimateClearTyped,
     OpenSendTyped, OpenStoreTyped, CloseTyped, StartClaimTyped, StartTakesTyped,
     StartSendTyped DEF Commands
<1>4. CASE Worker /\ UNCHANGED left
  BY <1>4, WorkRenderTyped, WorkEstimateTyped, EndEstimateTyped, WorkOpenTyped,
     WorkCloseTyped, WorkProcessTyped DEF Worker
<1>5. CASE UNCHANGED vars
  BY <1>5, StutterTyped
<1> QED
  BY <1>1, <1>2, <1>3, <1>4, <1>5 DEF Next

LEMMA TypedAlways == Spec => []Typed
BY InitTyped, TypedIsInductive, PTL DEF Spec

\* The state keeps its types: with them, a window that shows a document, and a
\* conversion begun in it, has one, and no answer of open_document is empty.
THEOREM PreviewTypeCorrect == Spec => []TypeOK
<1>1. Typed => TypeOK
  BY DEF Typed
<1> QED
  BY <1>1, TypedAlways, PTL

-----------------------------------------------------------------------------
(* Estimates can be stopped.                                               *)

\* Estimates have different ids, none above the counter; the messages and the
\* worker are at what is waiting for them.
EstimateIds ==
  /\ \A e \in estimates : e.id <= estimateId
  /\ \A e, f \in estimates : e.id = f.id => e = f
Queued(q) ==
  \A i \in 1 .. Len(q) :
    q[i].kind = "estimate" =>
      /\ \E e \in estimates : e.id = q[i].id /\ e.at = "queued"
      /\ \A j \in 1 .. Len(q) : q[i].id = q[j].id /\ q[j].kind = "estimate" => i = j
Running == running # Null => \E e \in estimates : e.id = running /\ e.at = "running"
StopInv == EstimateIds /\ Queued(queue) /\ Running /\ EstimatesCanBeStopped

\* An estimate that moves on keeps its id, and nothing else changes.
LEMMA TurnsKeep ==
  ASSUME Typed, EstimateIds, UNCHANGED estimateId, NEW e \in estimates, NEW f,
         f.id = e.id, Turns(e, f)
  PROVE  /\ EstimateIds'
         /\ f \in estimates'
         /\ \A g \in estimates' : g = f \/ (g \in estimates /\ g.id # e.id)
         /\ \A g \in estimates : g.id # e.id => g \in estimates'
BY DEF Typed, TypeOK, EstimateIds, Turns

LEMMA StopStutters ==
  ASSUME StopInv, UNCHANGED <<estimates, estimateId, flagged, estimateJob, queue, running>>
  PROVE  StopInv'
BY DEF StopInv, EstimateIds, Queued, Running, EstimatesCanBeStopped

\* Other messages come and go.
LEMMA OtherMessage ==
  ASSUME Typed, Queued(queue), UNCHANGED estimates, NEW kind, NEW id,
         kind # "estimate", Send(kind, id)
  PROVE  Queued(queue)'
BY DEF Typed, TypeOK, Queued, Send

LEMMA TakenMessage ==
  ASSUME Typed, Queued(queue), UNCHANGED estimates, NEW kinds, Takes(kinds)
  PROVE  Queued(queue)'
BY DEF Typed, TypeOK, Queued, Takes

\* The message of one estimate is taken, and the estimate moves on.
LEMMA TakenEstimate ==
  ASSUME Typed, EstimateIds, Queued(queue), UNCHANGED estimateId, Takes({"estimate"}),
         NEW e \in estimates, e.id = Head(queue).id, NEW f, f.id = e.id, Turns(e, f)
  PROVE  e.at = "queued" /\ Queued(queue)'
<1>1. /\ queue \in Seq(Messages) /\ queue # <<>> /\ queue' = Tail(queue)
      /\ Head(queue) = queue[1] /\ queue[1].kind = "estimate" /\ 1 \in 1 .. Len(queue)
  BY DEF Typed, TypeOK, Takes
<1>2. e.at = "queued"
  BY <1>1 DEF Queued, EstimateIds
<1>3. \A i \in 1 .. Len(queue') :
        queue'[i] = queue[i + 1] /\ i + 1 \in 1 .. Len(queue) /\ i + 1 # 1
  BY <1>1
<1>4. \A g \in estimates : g.id # e.id => g \in estimates'
  BY TurnsKeep
<1>5. ASSUME NEW i \in 1 .. Len(queue'), queue'[i].kind = "estimate"
      PROVE  /\ \E g \in estimates' : g.id = queue'[i].id /\ g.at = "queued"
             /\ \A j \in 1 .. Len(queue') :
                  queue'[i].id = queue'[j].id /\ queue'[j].kind = "estimate" => i = j
  <2>1. queue[i + 1].kind = "estimate" /\ i + 1 \in 1 .. Len(queue) /\ queue'[i] = queue[i + 1]
    BY <1>3, <1>5
  <2>2. queue[i + 1].id # e.id
    BY <1>1, <1>3, <2>1 DEF Queued
  <2>3. \E g \in estimates' : g.id = queue'[i].id /\ g.at = "queued"
    BY <1>4, <2>1, <2>2 DEF Queued
  <2>4. ASSUME NEW j \in 1 .. Len(queue'), queue'[i].id = queue'[j].id,
               queue'[j].kind = "estimate"
        PROVE  i = j
    <3>1. i + 1 = j + 1
      BY <1>3, <2>1, <2>4 DEF Queued
    <3>2. i \in Int /\ j \in Int
      OBVIOUS
    <3> QED
      BY <3>1, <3>2
  <2> QED
    BY <2>3, <2>4
<1>6. Queued(queue)'
  BY <1>5 DEF Queued
<1> QED
  BY <1>2, <1>6

\* An estimate that is not waiting for the worker moves on.
LEMMA UnqueuedMoves ==
  ASSUME Typed, EstimateIds, Queued(queue), Running, UNCHANGED <<estimateId, queue>>,
         NEW e \in estimates, e.at # "queued", NEW f, f.id = e.id, Turns(e, f)
  PROVE  /\ Queued(queue)'
         /\ e.at # "running" /\ UNCHANGED running => Running'
<1>1. \A g \in estimates : g.at = "queued" => g \in estimates'
  BY DEF Turns
<1>2. \A g \in estimates : g.at # e.at => g \in estimates'
  BY DEF Turns
<1>3. Queued(queue)'
  BY <1>1 DEF Queued
<1>4. e.at # "running" /\ UNCHANGED running => Running'
  BY <1>2 DEF Running
<1> QED
  BY <1>3, <1>4

LEMMA ClickEstimateStop == ASSUME Typed, StopInv, ClickEstimate PROVE StopInv'
<1> DEFINE new == [id |-> estimateId', of |-> Wants(win), at |-> "asked", ok |-> FALSE]
<1>1. \A e \in estimates : e.id \in Nat /\ e.id <= estimateId /\ estimateId \in Nat
  BY DEF Typed, TypeOK, EstimateCalls, StopInv, EstimateIds
<1>2. /\ estimates' = estimates \cup {new} /\ estimateId' = estimateId + 1
      /\ estimateId' \in Nat
      /\ UNCHANGED <<flagged, estimateJob, queue, running>>
  BY DEF Typed, TypeOK, ClickEstimate, backVars, workerVars
<1>3. new.id = estimateId' /\ new.at = "asked"
  OBVIOUS
<1> HIDE DEF new
<1>4. EstimateIds'
  BY <1>1, <1>2, <1>3 DEF StopInv, EstimateIds
<1>5. Queued(queue)' /\ Running'
  BY <1>2 DEF StopInv, Queued, Running
<1>6. EstimatesCanBeStopped'
  BY <1>2, <1>3 DEF StopInv, EstimatesCanBeStopped
<1> QED
  BY <1>4, <1>5, <1>6 DEF StopInv

LEMMA EstimateCheckStop ==
  ASSUME Typed, StopInv, NEW e \in estimates, EstimateCheck(e) PROVE StopInv'
<1>1. PICK place \in {"checked", "answered"} : Turns(e, [e EXCEPT !.at = place])
  BY DEF EstimateCheck
<1>2. [e EXCEPT !.at = place].id = e.id /\ [e EXCEPT !.at = place].at = place
      /\ e.at = "asked"
  BY DEF Typed, TypeOK, EstimateCalls, EstimateCheck, EstimateAt
<1>3. UNCHANGED <<estimateId, flagged, estimateJob, queue, running>>
  BY DEF EstimateCheck, frontVars, backVars, workerVars
<1>4. EstimateIds' /\ EstimatesCanBeStopped'
  BY <1>1, <1>2, <1>3, TurnsKeep DEF StopInv, EstimatesCanBeStopped
<1>5. Queued(queue)' /\ Running'
  BY <1>1, <1>2, <1>3, UnqueuedMoves DEF StopInv
<1> QED
  BY <1>4, <1>5 DEF StopInv

\* Whatever flag was there is set before this one's takes its place.
LEMMA EstimateRegisterStop ==
  ASSUME Typed, StopInv, NEW e \in estimates, EstimateRegister(e) PROVE StopInv'
<1> DEFINE f == [e EXCEPT !.at = "queued"]
<1>1. /\ Turns(e, f) /\ estimateJob' = e.id /\ e.at = "checked"
      /\ flagged' = flagged \cup ({estimateJob} \ {Null}) /\ UNCHANGED <<estimateId, running>>
      /\ queue' = Append(queue, [kind |-> "estimate", id |-> e.id])
  BY DEF EstimateRegister, EstimateAt, frontVars, Send
<1>2. f.id = e.id /\ f.at = "queued"
  BY DEF Typed, TypeOK, EstimateCalls
<1>3. \A g \in estimates : g.id # Null
  BY NullAssumption DEF Typed, TypeOK, EstimateCalls
<1> HIDE DEF f
<1>4. EstimateIds' /\ EstimatesCanBeStopped'
  BY <1>1, <1>2, <1>3, TurnsKeep DEF StopInv, EstimatesCanBeStopped
<1>5. Running'
  BY <1>1, <1>2 DEF StopInv, Running, Turns
<1>6. f \in estimates' /\ \A g \in estimates : g.at = "queued" => g \in estimates'
  BY <1>1 DEF Turns
<1>7. \A i \in 1 .. Len(queue) : queue[i].kind = "estimate" => queue[i].id # e.id
  BY <1>1 DEF StopInv, Queued, EstimateIds
<1>8. /\ queue \in Seq(Messages) /\ Len(queue') = Len(queue) + 1 /\ Len(queue) \in Nat
      /\ \A i \in 1 .. Len(queue) : queue'[i] = queue[i]
      /\ queue'[Len(queue) + 1] = [kind |-> "estimate", id |-> e.id]
  BY <1>1 DEF Typed, TypeOK
<1>9. ASSUME NEW i \in 1 .. Len(queue'), queue'[i].kind = "estimate"
      PROVE  /\ \E g \in estimates' : g.id = queue'[i].id /\ g.at = "queued"
             /\ \A j \in 1 .. Len(queue') :
                  queue'[i].id = queue'[j].id /\ queue'[j].kind = "estimate" => i = j
  <2>1. CASE i = Len(queue) + 1
    <3>1. queue'[i].id = e.id
      BY <1>8, <2>1
    <3>2. \A j \in 1 .. Len(queue') :
            queue'[i].id = queue'[j].id /\ queue'[j].kind = "estimate" => i = j
      BY <1>7, <1>8, <2>1, <3>1
    <3> QED
      BY <1>2, <1>6, <3>1, <3>2
  <2>2. CASE i \in 1 .. Len(queue)
    <3>1. queue'[i] = queue[i] /\ queue[i].kind = "estimate" /\ queue[i].id # e.id
      BY <1>7, <1>8, <1>9, <2>2
    <3>2. \E g \in estimates' : g.id = queue'[i].id /\ g.at = "queued"
      BY <1>6, <2>2, <3>1 DEF StopInv, Queued
    <3>3. \A j \in 1 .. Len(queue') :
            queue'[i].id = queue'[j].id /\ queue'[j].kind = "estimate" => i = j
      BY <1>8, <2>2, <3>1 DEF StopInv, Queued
    <3> QED
      BY <3>2, <3>3
  <2> QED
    BY <1>8, <2>1, <2>2
<1>10. Queued(queue)'
  BY <1>9 DEF Queued
<1> QED
  BY <1>4, <1>5, <1>10 DEF StopInv

LEMMA WorkEstimateStop == ASSUME Typed, StopInv, WorkEstimate PROVE StopInv'
<1>1. PICK e \in estimates :
        /\ e.id = Head(queue).id
        /\ \/ running' = e.id /\ Turns(e, [e EXCEPT !.at = "running"])
           \/ UNCHANGED running /\ Turns(e, [e EXCEPT !.at = "replied"])
  BY DEF WorkEstimate
<1>2. PICK place \in {"running", "replied"} :
        /\ Turns(e, [e EXCEPT !.at = place])
        /\ running' = IF place = "running" THEN e.id ELSE running
  BY <1>1
<1> DEFINE f == [e EXCEPT !.at = place]
<1>3. f.id = e.id /\ f.at = place
  BY DEF Typed, TypeOK, EstimateCalls
<1>4. UNCHANGED <<estimateId, flagged, estimateJob>> /\ Takes({"estimate"}) /\ running = Null
  BY DEF WorkEstimate, Takes, frontVars, backVars
<1> HIDE DEF f
<1>5. e.at = "queued" /\ Queued(queue)'
  BY <1>1, <1>2, <1>3, <1>4, TakenEstimate DEF StopInv, f
<1>6. EstimateIds' /\ f \in estimates'
      /\ \A g \in estimates' : g = f \/ (g \in estimates /\ g.id # e.id)
  BY <1>2, <1>3, <1>4, TurnsKeep DEF StopInv, f
<1>7. Running'
  BY <1>2, <1>3, <1>4, <1>6 DEF Running
<1>8. EstimatesCanBeStopped'
  BY <1>3, <1>4, <1>5, <1>6 DEF StopInv, EstimatesCanBeStopped
<1> QED
  BY <1>5, <1>6, <1>7, <1>8 DEF StopInv

LEMMA EndEstimateStop == ASSUME Typed, StopInv, EndEstimate PROVE StopInv'
<1>1. PICK e \in estimates : e.id = running
        /\ \E ok \in BOOLEAN : Turns(e, [e EXCEPT !.at = "replied", !.ok = ok])
  BY DEF EndEstimate
<1>2. PICK ok \in BOOLEAN : Turns(e, [e EXCEPT !.at = "replied", !.ok = ok])
  BY <1>1
<1> DEFINE f == [e EXCEPT !.at = "replied", !.ok = ok]
<1>3. f.id = e.id /\ f.at = "replied"
  BY DEF Typed, TypeOK, EstimateCalls
<1>4. UNCHANGED <<estimateId, flagged, estimateJob, queue>> /\ running # Null /\ running' = Null
  BY DEF EndEstimate, frontVars, backVars
<1>5. e.at = "running"
  BY <1>1, <1>4 DEF StopInv, Running, EstimateIds
<1> HIDE DEF f
<1>6. EstimateIds' /\ \A g \in estimates' : g = f \/ (g \in estimates /\ g.id # e.id)
  BY <1>2, <1>3, <1>4, TurnsKeep DEF StopInv, f
<1>7. Queued(queue)'
  BY <1>2, <1>3, <1>4, <1>5, UnqueuedMoves DEF StopInv, f
<1>8. Running' /\ EstimatesCanBeStopped'
  BY <1>3, <1>4, <1>6 DEF Running, StopInv, EstimatesCanBeStopped
<1> QED
  BY <1>6, <1>7, <1>8 DEF StopInv

\* Only its own flag leaves the slot with an estimate.
LEMMA EstimateClearStop ==
  ASSUME Typed, StopInv, NEW e \in estimates, EstimateClear(e) PROVE StopInv'
<1> DEFINE f == [e EXCEPT !.at = "answered"]
<1>1. /\ Turns(e, f) /\ e.at = "replied"
      /\ estimateJob' = IF estimateJob = e.id THEN Null ELSE estimateJob
      /\ UNCHANGED <<estimateId, flagged, queue, running>>
  BY DEF EstimateClear, EstimateAt, frontVars, workerVars
<1>2. f.id = e.id /\ f.at = "answered"
  BY DEF Typed, TypeOK, EstimateCalls
<1> HIDE DEF f
<1>3. EstimateIds' /\ EstimatesCanBeStopped'
  BY <1>1, <1>2, TurnsKeep DEF StopInv, EstimatesCanBeStopped
<1>4. Queued(queue)' /\ Running'
  BY <1>1, <1>2, UnqueuedMoves DEF StopInv
<1> QED
  BY <1>3, <1>4 DEF StopInv

LEMMA EstimateAnsweredStop ==
  ASSUME Typed, StopInv, NEW e \in estimates, EstimateAnswered(e) PROVE StopInv'
<1>1. /\ estimates' = estimates \ {e} /\ e.at = "answered"
      /\ UNCHANGED <<estimateId, flagged, estimateJob, queue, running>>
  BY DEF EstimateAnswered, EstimateAt, backVars, workerVars
<1> QED
  BY <1>1 DEF StopInv, EstimateIds, Queued, Running, EstimatesCanBeStopped

\* A conversion sets the flag it takes out of the slot.
LEMMA StartTakesStop == ASSUME Typed, StopInv, StartTakes PROVE StopInv'
<1>1. /\ flagged' = flagged \cup ({estimateJob} \ {Null})
      /\ UNCHANGED <<estimates, estimateId, queue, running>>
  BY DEF StartTakes, OnlyConverting, frontVars, workerVars
<1>2. \A g \in estimates : g.id # Null
  BY NullAssumption DEF Typed, TypeOK, EstimateCalls
<1> QED
  BY <1>1, <1>2 DEF StopInv, EstimateIds, Queued, Running, EstimatesCanBeStopped

\* The steps that only pass a message of another kind.
LEMMA MessagesStop ==
  ASSUME Typed, StopInv, UNCHANGED <<estimates, estimateId, flagged, estimateJob, running>>,
         \/ \E kinds : Takes(kinds)
         \/ \E kind, id : kind # "estimate" /\ Send(kind, id)
         \/ UNCHANGED queue
  PROVE  StopInv'
<1>1. Queued(queue)'
  <2>1. CASE \E kinds : Takes(kinds)
    BY <2>1, TakenMessage DEF StopInv
  <2>2. CASE \E kind, id : kind # "estimate" /\ Send(kind, id)
    BY <2>2, OtherMessage DEF StopInv
  <2>3. CASE UNCHANGED queue
    BY <2>3 DEF StopInv, Queued
  <2> QED
    BY <2>1, <2>2, <2>3
<1> QED
  BY <1>1 DEF StopInv, EstimateIds, Running, EstimatesCanBeStopped

LEMMA StopIsInductive == ASSUME Typed, StopInv, [Next]_vars PROVE StopInv'
<1> USE DEF OnlyPreviews, OnlyOpening, OnlyConverting, frontVars, callVars, backVars, workerVars
<1>1. CASE Asks
  <2>1. CASE \/ \E p \in Pages : SelectPage(p)
             \/ \E s \in Settings : SetSettings(s)
             \/ TimerFires \/ Convert
    BY <2>1, StopStutters DEF SelectPage, SetSettings, TimerFires, Convert
  <2>2. CASE Open \/ SubmitPassword
    BY <2>2, StopStutters DEF Open, SubmitPassword, CallOpen, Reopens
  <2> QED
    BY <1>1, <2>1, <2>2, ClickEstimateStop DEF Asks
<1>2. CASE Front
  <2>1. CASE Effect \/ \E r \in renders : PreviewAnswered(r)
    BY <2>1, StopStutters DEF Effect, PreviewAnswered
  <2>2. CASE \E o \in openings : OpenAnswered(o)
    BY <2>2, StopStutters DEF OpenAnswered, Reopens
  <2>3. CASE \/ Dismiss \/ StartOver \/ StartAnswered \/ \E e \in ends : HearEnd(e)
    BY <2>3, StopStutters DEF Dismiss, StartOver, StartAnswered, HearEnd, Reopens
  <2> QED
    BY <1>2, <2>1, <2>2, <2>3, EstimateAnsweredStop DEF Front
<1>3. CASE Commands
  <2>1. CASE \E r \in renders : RenderCheck(r)
    <3>1. PICK r \in renders : RenderCheck(r)
      BY <2>1
    <3>2. r.kind # "estimate"
      BY DEF Typed, TypeOK, RenderCalls, Kinds
    <3> QED
      BY <3>1, <3>2, MessagesStop DEF RenderCheck
  <2>2. CASE \E o \in openings : OpenSend(o)
    BY <2>2, MessagesStop DEF OpenSend
  <2>3. CASE Close
    BY <2>3, MessagesStop DEF Close
  <2>4. CASE StartSend
    BY <2>4, MessagesStop DEF StartSend
  <2>5. CASE StartClaim \/ \E o \in openings : OpenStore(o)
    BY <2>5, StopStutters DEF StartClaim, OpenStore
  <2> QED
    BY <1>3, <2>1, <2>2, <2>3, <2>4, <2>5, EstimateCheckStop, EstimateRegisterStop,
       EstimateClearStop, StartTakesStop DEF Commands
<1>4. CASE Worker
  <2>1. CASE WorkRender
    BY <2>1, MessagesStop DEF WorkRender
  <2>2. CASE WorkOpen
    BY <2>2, MessagesStop DEF WorkOpen
  <2>3. CASE WorkClose
    BY <2>3, MessagesStop DEF WorkClose
  <2>4. CASE WorkProcess
    BY <2>4, MessagesStop DEF WorkProcess
  <2> QED
    BY <1>4, <2>1, <2>2, <2>3, <2>4, WorkEstimateStop, EndEstimateStop DEF Worker
<1>5. CASE UNCHANGED vars
  BY <1>5, StopStutters DEF vars
<1> QED
  BY <1>1, <1>2, <1>3, <1>4, <1>5 DEF Next

\* An estimate that is in the worker's queue, or that the worker is at, is
\* the one whose flag a conversion or the next estimate will set, or its flag
\* is set already: however the commands, the worker and the answers interleave,
\* no flag is lost (commands/estimate.rs, commands/processing.rs).
THEOREM EstimatesCanBeStoppedCorrect == Spec => []EstimatesCanBeStopped
<1>1. Init => StopInv
  BY DEF Init, StopInv, EstimateIds, Queued, Running, EstimatesCanBeStopped
<1>2. Typed /\ StopInv /\ [Next]_vars => StopInv'
  BY StopIsInductive
<1>3. StopInv => EstimatesCanBeStopped
  BY DEF StopInv
<1> QED
  BY <1>1, <1>2, <1>3, TypedAlways, PTL DEF Spec

-----------------------------------------------------------------------------
(* Nobody waits in vain.                                                   *)

\* What the window waits for is what was asked for last.
PreviewsCome ==
  Ready /\ win.loading =>
    /\ win.latest = previewId
    /\ \A k \in Kinds : \E r \in renders : r.kind = k /\ r.id = win.latest
EstimateComes ==
  Ready /\ win.estimate = "running" =>
    /\ win.latestEstimate = estimateId
    /\ \E e \in estimates : e.id = estimateId

LEMMA PreviewsComeIsInductive ==
  ASSUME Typed, PreviewsCome, [Next]_vars PROVE PreviewsCome'
<1> USE DEF OnlyPreviews, OnlyEstimates, OnlyOpening, OnlyConverting, frontVars, callVars,
            backVars, workerVars, PreviewsCome, Ready
<1>1. CASE Asks
  <2>1. CASE \E p \in Pages : SelectPage(p)
    BY <1>1, <2>1 DEF SelectPage, Shows, Typed, TypeOK, Windows
  <2>2. CASE \E s \in Settings : SetSettings(s)
    BY <2>2 DEF SetSettings, Shows, Typed, TypeOK, Windows
  <2>3. CASE TimerFires
    <3>1. CASE win.kind = "ready"
      <4>1. win'.latest = previewId' /\ win'.kind = win.kind
        BY <2>3, <3>1 DEF TimerFires, Typed, TypeOK, Windows
      <4>2. ASSUME NEW k \in Kinds PROVE \E r \in renders' : r.kind = k /\ r.id = previewId'
        <5> DEFINE new == [id |-> previewId', kind |-> k, of |-> timer, at |-> "asked",
                           image |-> Null]
        <5>1. new \in renders' /\ new.kind = k /\ new.id = previewId'
          BY <2>3 DEF TimerFires
        <5> QED
          BY <5>1
      <4> QED
        BY <4>1, <4>2
    <3>2. CASE win.kind # "ready"
      BY <2>3, <3>2 DEF TimerFires
    <3> QED
      BY <3>1, <3>2
  <2>4. CASE ClickEstimate
    BY <2>4 DEF ClickEstimate, Typed, TypeOK, Windows
  <2>5. CASE Open
    BY <2>5 DEF Open, Reopens, Shows, State
  <2>6. CASE SubmitPassword \/ Convert
    BY <2>6 DEF SubmitPassword, CallOpen, Convert
  <2> QED
    BY <1>1, <2>1, <2>2, <2>3, <2>4, <2>5, <2>6 DEF Asks
<1>2. CASE Front
  <2>1. CASE Effect
    BY <2>1 DEF Effect
  <2>2. ASSUME NEW r \in renders, PreviewAnswered(r) PROVE PreviewsCome'
    <3>1. CASE Applies(r)
      <4>1. win'.loading = FALSE
        BY <2>2, <3>1 DEF PreviewAnswered, Typed, TypeOK, Windows
      <4> QED
        BY <4>1
    <3>2. CASE ~Applies(r)
      BY <2>2, <3>2 DEF PreviewAnswered, Applies
    <3> QED
      BY <3>1, <3>2
  <2>3. ASSUME NEW e \in estimates, EstimateAnswered(e) PROVE PreviewsCome'
    BY <2>3 DEF EstimateAnswered, Typed, TypeOK, Windows
  <2>4. CASE StartOver \/ Dismiss
    BY <2>4 DEF StartOver, Dismiss, Reopens, Shows, State
  <2>5. ASSUME NEW o \in openings, OpenAnswered(o) PROVE PreviewsCome'
    BY <2>5 DEF OpenAnswered, Reopens, Shows, State
  <2>6. CASE StartAnswered
    BY <2>6 DEF StartAnswered, Reopens, Shows, State
  <2>7. ASSUME NEW e \in ends, HearEnd(e) PROVE PreviewsCome'
    BY <2>7 DEF HearEnd, Reopens, Shows, State
  <2> QED
    BY <1>2, <2>1, <2>2, <2>3, <2>4, <2>5, <2>6, <2>7 DEF Front
<1>3. CASE Commands
  <2>1. ASSUME NEW r \in renders, RenderCheck(r) PROVE PreviewsCome'
    <3>1. \E f : f.id = r.id /\ f.kind = r.kind /\ renders' = (renders \ {r}) \cup {f}
      BY <2>1 DEF RenderCheck, Typed, TypeOK, RenderCalls
    <3>2. UNCHANGED <<win, previewId>>
      BY <2>1 DEF RenderCheck
    <3> QED
      BY <3>1, <3>2
  <2>2. ASSUME NEW e \in estimates, EstimateCheck(e) \/ EstimateRegister(e) \/ EstimateClear(e)
        PROVE  PreviewsCome'
    BY <2>2 DEF EstimateCheck, EstimateRegister, EstimateClear
  <2>3. ASSUME NEW o \in openings, OpenSend(o) \/ OpenStore(o) PROVE PreviewsCome'
    BY <2>3 DEF OpenSend, OpenStore
  <2>4. CASE Close \/ StartClaim \/ StartTakes \/ StartSend
    BY <2>4 DEF Close, StartClaim, StartTakes, StartSend
  <2> QED
    BY <1>3, <2>1, <2>2, <2>3, <2>4 DEF Commands
<1>4. CASE Worker
  <2>1. CASE WorkRender
    <3>1. PICK r \in renders : \E f : f.id = r.id /\ f.kind = r.kind
                                      /\ renders' = (renders \ {r}) \cup {f}
      BY <2>1 DEF WorkRender, Typed, TypeOK, RenderCalls
    <3>2. UNCHANGED <<win, previewId>>
      BY <2>1 DEF WorkRender
    <3> QED
      BY <3>1, <3>2
  <2>2. CASE WorkEstimate \/ EndEstimate \/ WorkOpen \/ WorkClose \/ WorkProcess
    BY <2>2 DEF WorkEstimate, EndEstimate, WorkOpen, WorkClose, WorkProcess
  <2> QED
    BY <1>4, <2>1, <2>2 DEF Worker
<1>5. CASE UNCHANGED vars
  BY <1>5 DEF vars
<1> QED
  BY <1>1, <1>2, <1>3, <1>4, <1>5 DEF Next

LEMMA EstimateComesIsInductive ==
  ASSUME Typed, EstimateComes, [Next]_vars PROVE EstimateComes'
<1> USE DEF OnlyPreviews, OnlyEstimates, OnlyOpening, OnlyConverting, frontVars, callVars,
            backVars, workerVars, EstimateComes, Ready
<1>1. CASE Asks
  <2>1. CASE \E p \in Pages : SelectPage(p)
    BY <1>1, <2>1 DEF SelectPage, Shows, Typed, TypeOK, Windows
  <2>2. CASE \E s \in Settings : SetSettings(s)
    BY <2>2 DEF SetSettings, Shows, Typed, TypeOK, Windows
  <2>3. CASE TimerFires
    BY <2>3 DEF TimerFires, Typed, TypeOK, Windows
  <2>4. CASE ClickEstimate
    <3>1. win'.latestEstimate = estimateId'
      BY <2>4 DEF ClickEstimate, Typed, TypeOK, Windows
    <3>2. \E e \in estimates' : e.id = estimateId'
      <4> DEFINE new == [id |-> estimateId', of |-> Wants(win), at |-> "asked", ok |-> FALSE]
      <4>1. new \in estimates' /\ new.id = estimateId'
        BY <2>4 DEF ClickEstimate
      <4> QED
        BY <4>1
    <3> QED
      BY <3>1, <3>2
  <2>5. CASE Open
    BY <2>5 DEF Open, Reopens, Shows, State
  <2>6. CASE SubmitPassword \/ Convert
    BY <2>6 DEF SubmitPassword, CallOpen, Convert
  <2> QED
    BY <1>1, <2>1, <2>2, <2>3, <2>4, <2>5, <2>6 DEF Asks
<1>2. CASE Front
  <2>1. CASE Effect
    BY <2>1 DEF Effect
  <2>2. ASSUME NEW r \in renders, PreviewAnswered(r) PROVE EstimateComes'
    BY <2>2 DEF PreviewAnswered, Typed, TypeOK, Windows
  <2>3. ASSUME NEW e \in estimates, EstimateAnswered(e) PROVE EstimateComes'
    <3>1. CASE Counts(e)
      <4>1. win'.estimate # "running"
        BY <2>3, <3>1 DEF EstimateAnswered, Typed, TypeOK, Windows
      <4> QED
        BY <4>1
    <3>2. CASE ~Counts(e)
      BY <2>3, <3>2 DEF EstimateAnswered, Counts
    <3> QED
      BY <3>1, <3>2
  <2>4. CASE StartOver \/ Dismiss
    BY <2>4 DEF StartOver, Dismiss, Reopens, Shows, State
  <2>5. ASSUME NEW o \in openings, OpenAnswered(o) PROVE EstimateComes'
    BY <2>5 DEF OpenAnswered, Reopens, Shows, State
  <2>6. CASE StartAnswered
    BY <2>6 DEF StartAnswered, Reopens, Shows, State
  <2>7. ASSUME NEW e \in ends, HearEnd(e) PROVE EstimateComes'
    BY <2>7 DEF HearEnd, Reopens, Shows, State
  <2> QED
    BY <1>2, <2>1, <2>2, <2>3, <2>4, <2>5, <2>6, <2>7 DEF Front
<1>3. ASSUME NEW e \in estimates, NEW f, f.id = e.id, Turns(e, f),
             UNCHANGED <<win, estimateId>>
      PROVE  EstimateComes'
  BY <1>3 DEF Turns
<1>4. CASE Commands
  <2>1. ASSUME NEW r \in renders, RenderCheck(r) PROVE EstimateComes'
    BY <2>1 DEF RenderCheck
  <2>2. ASSUME NEW e \in estimates, EstimateCheck(e) \/ EstimateRegister(e) \/ EstimateClear(e)
        PROVE  EstimateComes'
    <3>1. \E f : f.id = e.id /\ Turns(e, f)
      BY <2>2 DEF EstimateCheck, EstimateRegister, EstimateClear, Typed, TypeOK, EstimateCalls
    <3>2. UNCHANGED <<win, estimateId>>
      BY <2>2 DEF EstimateCheck, EstimateRegister, EstimateClear
    <3> QED
      BY <1>3, <3>1, <3>2
  <2>3. ASSUME NEW o \in openings, OpenSend(o) \/ OpenStore(o) PROVE EstimateComes'
    BY <2>3 DEF OpenSend, OpenStore
  <2>4. CASE Close \/ StartClaim \/ StartTakes \/ StartSend
    BY <2>4 DEF Close, StartClaim, StartTakes, StartSend
  <2> QED
    BY <1>4, <2>1, <2>2, <2>3, <2>4 DEF Commands
<1>5. CASE Worker
  <2>1. CASE WorkEstimate \/ EndEstimate
    <3>1. \E e \in estimates : \E f : f.id = e.id /\ Turns(e, f)
      BY <2>1 DEF WorkEstimate, EndEstimate, Typed, TypeOK, EstimateCalls
    <3>2. UNCHANGED <<win, estimateId>>
      BY <2>1 DEF WorkEstimate, EndEstimate
    <3> QED
      BY <1>3, <3>1, <3>2
  <2>2. CASE WorkRender \/ WorkOpen \/ WorkClose \/ WorkProcess
    BY <2>2 DEF WorkRender, WorkOpen, WorkClose, WorkProcess
  <2> QED
    BY <1>5, <2>1, <2>2 DEF Worker
<1>6. CASE UNCHANGED vars
  BY <1>6 DEF vars
<1> QED
  BY <1>1, <1>2, <1>4, <1>5, <1>6 DEF Next

\* A preview or an estimate that the window shows as under way is under way,
\* and its answer will be taken: no newer request, page, document or setting
\* leaves the window waiting for an answer it would drop (hooks/usePreview.ts,
\* hooks/useEstimate.ts, app/reducer.ts).
THEOREM NobodyWaitsInVainCorrect == Spec => []NobodyWaitsInVain
<1> DEFINE Inv == PreviewsCome /\ EstimateComes
<1>1. Init => Inv
  BY DEF Init, State, PreviewsCome, EstimateComes, Ready
<1>2. Typed /\ Inv /\ [Next]_vars => Inv'
  BY PreviewsComeIsInductive, EstimateComesIsInductive
<1>3. Inv => NobodyWaitsInVain
  BY DEF PreviewsCome, EstimateComes, NobodyWaitsInVain
<1> QED
  BY <1>1, <1>2, <1>3, TypedAlways, PTL DEF Spec

-----------------------------------------------------------------------------
(* The panes come right while no two documents are being opened.           *)

\* At most one call of open_document is under way.
OneOpening == openings = {} \/ \E o : openings = {o}

\* The worker's session is the window's document, or the one that is being
\* opened while the window has none.
OneDocument ==
  /\ OneOpening
  /\ win.kind \in {"idle", "opening", "passwordRequired"} => win.doc = Null
  /\ win.doc # Null => openings = {} /\ session \in {Null, win.doc}
  /\ \A o \in openings :
       o.at = "opened" \/ (o.at = "answered" /\ o.answer = "ready") => session \in {Null, o.id}

LEMMA SameDocument ==
  ASSUME OneDocument, win'.kind = win.kind, win'.doc = win.doc, UNCHANGED openings,
         session' \in {session, Null}
  PROVE  OneDocument'
BY DEF OneDocument, OneOpening

LEMMA NewOpening ==
  ASSUME OneOpening', NEW password, CallOpen(password)
  PROVE  \E o : openings' = {o} /\ o.at = "asked"
<1> DEFINE new == [id |-> opened', at |-> "asked", password |-> password, answer |-> Null]
<1>1. new \in openings'
  BY DEF CallOpen
<1>2. openings' = {new} /\ new.at = "asked"
  BY <1>1 DEF OneOpening
<1> QED
  BY <1>2

\* One opening moves on.
LEMMA OneOpeningMoves ==
  ASSUME OneDocument, NEW o \in openings, NEW f, OpenTurns(o, f)
  PROVE  openings' = {f} /\ win.doc = Null
BY DEF OneDocument, OneOpening, OpenTurns

LEMMA OneDocumentIsInductive ==
  ASSUME OneOpening', Typed, OneDocument, [Next]_vars PROVE OneDocument'
<1> USE DEF OnlyPreviews, OnlyEstimates, OnlyOpening, OnlyConverting, frontVars, callVars,
            backVars, workerVars
<1>1. CASE Asks
  <2>1. CASE \E p \in Pages : SelectPage(p)
    BY <2>1, SameDocument DEF SelectPage, Shows, Typed, TypeOK, Windows
  <2>2. CASE \E s \in Settings : SetSettings(s)
    BY <2>2, SameDocument DEF SetSettings, Shows, Typed, TypeOK, Windows
  <2>3. CASE TimerFires
    BY <2>3, SameDocument DEF TimerFires, Typed, TypeOK, Windows
  <2>4. CASE ClickEstimate
    BY <2>4, SameDocument DEF ClickEstimate, Typed, TypeOK, Windows
  <2>5. CASE Open
    <3>1. \E o : openings' = {o} /\ o.at = "asked"
      BY <2>5, NewOpening DEF Open
    <3>2. win'.doc = Null
      BY <2>5 DEF Open, Reopens, Shows, State
    <3> QED
      BY <3>1, <3>2 DEF OneDocument, OneOpening
  <2>6. CASE SubmitPassword
    <3>1. \E o : openings' = {o} /\ o.at = "asked"
      BY <2>6, NewOpening DEF SubmitPassword
    <3>2. win'.doc = Null
      BY <2>6 DEF SubmitPassword, OneDocument
    <3> QED
      BY <3>1, <3>2 DEF OneDocument, OneOpening
  <2>7. CASE Convert
    BY <2>7, SameDocument DEF Convert
  <2> QED
    BY <1>1, <2>1, <2>2, <2>3, <2>4, <2>5, <2>6, <2>7 DEF Asks
<1>2. CASE Front
  <2>1. CASE Effect
    BY <2>1, SameDocument DEF Effect
  <2>2. ASSUME NEW r \in renders, PreviewAnswered(r) PROVE OneDocument'
    BY <2>2, SameDocument DEF PreviewAnswered, Typed, TypeOK, Windows
  <2>3. ASSUME NEW e \in estimates, EstimateAnswered(e) PROVE OneDocument'
    BY <2>3, SameDocument DEF EstimateAnswered, Typed, TypeOK, Windows
  <2>4. CASE StartOver \/ Dismiss
    <3>1. /\ win' = State("ready", win.doc, win.settings)
             \/ win' = State(IF win.doc = Null THEN "idle" ELSE "ready", win.doc, Default)
          /\ UNCHANGED <<openings, session>>
      BY <2>4 DEF StartOver, Dismiss, Reopens, Shows
    <3>2. win'.doc = win.doc /\ (win'.kind = "ready" \/ (win'.kind = "idle" /\ win.doc = Null))
      BY <3>1 DEF State
    <3> QED
      BY <3>1, <3>2 DEF OneDocument, OneOpening
  <2>5. ASSUME NEW o \in openings, OpenAnswered(o) PROVE OneDocument'
    <3>1. openings' = {} /\ UNCHANGED session /\ o.at = "answered"
      BY <2>5 DEF OpenAnswered, OneDocument, OneOpening, OpenAt
    <3>2. CASE o.answer = "ready"
      <4>1. win'.kind = "ready" /\ win'.doc = o.id
        BY <2>5, <3>2 DEF OpenAnswered, Reopens, Shows, State
      <4> QED
        BY <3>1, <3>2, <4>1 DEF OneDocument, OneOpening
    <3>3. CASE o.answer # "ready"
      <4>1. win' = win \/ win'.doc = Null
        BY <2>5, <3>3 DEF OpenAnswered, Reopens, Shows, State
      <4> QED
        BY <3>1, <4>1 DEF OneDocument, OneOpening
    <3> QED
      BY <3>2, <3>3
  <2>6. CASE StartAnswered
    <3>1. /\ \/ win' = win
             \/ win' = State("failed", Null, Default)
             \/ win' = [State("processing", win.doc, win.settings) EXCEPT !.job = started]
          /\ UNCHANGED <<openings, session>>
      BY <2>6 DEF StartAnswered, Reopens, Shows
    <3>2. win' = win \/ (win'.kind \in {"failed", "processing"} /\ win'.doc \in {Null, win.doc})
      BY <3>1 DEF State
    <3> QED
      BY <3>1, <3>2 DEF OneDocument, OneOpening
  <2>7. ASSUME NEW e \in ends, HearEnd(e) PROVE OneDocument'
    <3>1. e[2] \in {"completed", "failed"}
      BY DEF Typed, TypeOK
    <3> QED
      BY <2>7, <3>1 DEF HearEnd, Reopens, Shows, State, OneDocument, OneOpening
  <2> QED
    BY <1>2, <2>1, <2>2, <2>3, <2>4, <2>5, <2>6, <2>7 DEF Front
<1>3. CASE Commands
  <2>1. ASSUME NEW r \in renders, RenderCheck(r) PROVE OneDocument'
    BY <2>1, SameDocument DEF RenderCheck
  <2>2. ASSUME NEW e \in estimates, EstimateCheck(e) \/ EstimateRegister(e) \/ EstimateClear(e)
        PROVE  OneDocument'
    BY <2>2, SameDocument DEF EstimateCheck, EstimateRegister, EstimateClear
  <2>3. ASSUME NEW o \in openings, OpenSend(o) PROVE OneDocument'
    <3>1. \/ OpenTurns(o, [o EXCEPT !.at = "queued"])
          \/ OpenTurns(o, [o EXCEPT !.at = "answered", !.answer = "failed"])
      BY <2>3 DEF OpenSend
    <3>2. /\ [o EXCEPT !.at = "queued"].at = "queued"
          /\ [o EXCEPT !.at = "answered", !.answer = "failed"].at = "answered"
          /\ [o EXCEPT !.at = "answered", !.answer = "failed"].answer = "failed"
      BY DEF Typed, TypeOK, OpenCalls
    <3>3. win' = win /\ UNCHANGED session
      BY <2>3 DEF OpenSend
    <3> QED
      BY <3>1, <3>2, <3>3, OneOpeningMoves DEF OneDocument, OneOpening
  <2>4. ASSUME NEW o \in openings, OpenStore(o) PROVE OneDocument'
    <3>1. OpenTurns(o, [o EXCEPT !.at = "answered", !.answer = "ready"]) /\ o.at = "opened"
      BY <2>4 DEF OpenStore, OpenAt
    <3>2. [o EXCEPT !.at = "answered", !.answer = "ready"].id = o.id
      BY DEF Typed, TypeOK, OpenCalls
    <3>3. win' = win /\ UNCHANGED session
      BY <2>4 DEF OpenStore
    <3> QED
      BY <3>1, <3>2, <3>3, OneOpeningMoves DEF OneDocument, OneOpening
  <2>5. CASE Close \/ StartClaim \/ StartTakes \/ StartSend
    BY <2>5, SameDocument DEF Close, StartClaim, StartTakes, StartSend
  <2> QED
    BY <1>3, <2>1, <2>2, <2>3, <2>4, <2>5 DEF Commands
<1>4. CASE Worker
  <2>1. CASE WorkOpen
    <3>1. PICK o \in openings :
            \/ session' = o.id /\ OpenTurns(o, [o EXCEPT !.at = "opened"])
            \/ /\ UNCHANGED session
               /\ \E answer \in {"failed", "passwordRequired"} :
                    OpenTurns(o, [o EXCEPT !.at = "answered", !.answer = answer])
      BY <2>1 DEF WorkOpen
    <3>2. /\ [o EXCEPT !.at = "opened"].id = o.id
          /\ \A answer \in {"failed", "passwordRequired"} :
               /\ [o EXCEPT !.at = "answered", !.answer = answer].at = "answered"
               /\ [o EXCEPT !.at = "answered", !.answer = answer].answer # "ready"
      BY DEF Typed, TypeOK, OpenCalls
    <3>3. win' = win
      BY <2>1 DEF WorkOpen
    <3>4. CASE session' = o.id /\ OpenTurns(o, [o EXCEPT !.at = "opened"])
      <4>1. openings' = {[o EXCEPT !.at = "opened"]} /\ win.doc = Null
        BY <3>4, OneOpeningMoves
      <4> QED
        BY <3>2, <3>3, <3>4, <4>1 DEF OneDocument, OneOpening
    <3>5. ASSUME UNCHANGED session, NEW answer \in {"failed", "passwordRequired"},
                 OpenTurns(o, [o EXCEPT !.at = "answered", !.answer = answer])
          PROVE  OneDocument'
      <4>1. openings' = {[o EXCEPT !.at = "answered", !.answer = answer]} /\ win.doc = Null
        BY <3>5, OneOpeningMoves
      <4> QED
        BY <3>2, <3>3, <3>5, <4>1 DEF OneDocument, OneOpening
    <3> QED
      BY <3>1, <3>4, <3>5
  <2>2. CASE WorkClose
    BY <2>2, SameDocument DEF WorkClose
  <2>3. CASE WorkRender \/ WorkEstimate \/ EndEstimate \/ WorkProcess
    BY <2>3, SameDocument DEF WorkRender, WorkEstimate, EndEstimate, WorkProcess
  <2> QED
    BY <1>4, <2>1, <2>2, <2>3 DEF Worker
<1>5. CASE UNCHANGED vars
  BY <1>5, SameDocument DEF vars
<1> QED
  BY <1>1, <1>2, <1>3, <1>4, <1>5 DEF Next

-----------------------------------------------------------------------------
\* The images in the panes, and those whose answers the window will take, are
\* of the document it shows, and otherwise of what they were asked for.
ImageFits(r) ==
  r.image # Null =>
    /\ r.image = [r.of EXCEPT !.doc = r.image.doc]
    /\ r.id = win.latest => r.image.doc = win.doc
ImagesFit ==
  /\ ~Ready => win.latest = 0
  /\ win.latest <= previewId
  /\ \A r \in renders : 1 <= r.id /\ r.id <= previewId /\ ImageFits(r)
  /\ \A k \in Kinds : win.pane[k] # Null => win.pane[k].doc = win.doc

\* A fresh state has no images, and takes no answers.
LEMMA FreshImages ==
  ASSUME Typed, ImagesFit, UNCHANGED <<previewId, renders>>,
         win'.latest = 0, win'.pane = NoPane
  PROVE  ImagesFit'
<1>1. \A r \in renders : r.id # 0
  BY DEF ImagesFit, Typed, TypeOK, RenderCalls
<1>2. \A k \in Kinds : win'.pane[k] = Null
  BY DEF NoPane
<1>3. previewId \in Nat
  BY DEF Typed, TypeOK
<1> QED
  BY <1>1, <1>2, <1>3 DEF ImagesFit, ImageFits

LEMMA ReopenedImages ==
  ASSUME Typed, ImagesFit, UNCHANGED renders, NEW kind, NEW d, NEW s, NEW n,
         Reopens(State(kind, d, s)) \/ Reopens([State(kind, d, s) EXCEPT !.job = n])
  PROVE  ImagesFit'
BY FreshImages DEF Reopens, Shows, State

\* No other image, and no newer request.
LEMMA SameImages ==
  ASSUME ImagesFit, UNCHANGED <<previewId, renders>>,
         win'.kind = win.kind, win'.doc = win.doc, win'.latest = win.latest,
         \A k \in Kinds : win'.pane[k] \in {win.pane[k], Null}
  PROVE  ImagesFit'
BY DEF ImagesFit, ImageFits, Ready

LEMMA ImagesFitIsInductive ==
  ASSUME Typed, OneDocument, ImagesFit, [Next]_vars PROVE ImagesFit'
<1> USE DEF OnlyPreviews, OnlyEstimates, OnlyOpening, OnlyConverting, frontVars, callVars,
            backVars, workerVars
<1>1. CASE Asks
  <2>1. CASE \E p \in Pages : SelectPage(p)
    <3>1. /\ win'.kind = win.kind /\ win'.doc = win.doc /\ win'.latest = win.latest
          /\ win'.pane = NoPane /\ UNCHANGED <<previewId, renders>>
      BY <2>1 DEF SelectPage, Shows, Typed, TypeOK, Windows
    <3> QED
      BY <3>1, SameImages DEF NoPane
  <2>2. CASE \E s \in Settings : SetSettings(s)
    <3>1. /\ win'.kind = win.kind /\ win'.doc = win.doc /\ win'.latest = win.latest
          /\ win'.pane = [win.pane EXCEPT !["processed"] = Null]
          /\ UNCHANGED <<previewId, renders>>
      BY <2>2 DEF SetSettings, Shows, Typed, TypeOK, Windows
    <3>2. \A k \in Kinds : win'.pane[k] \in {win.pane[k], Null}
      BY <3>1 DEF Typed, TypeOK, Windows
    <3> QED
      BY <3>1, <3>2, SameImages
  <2>3. CASE TimerFires
    <3>1. /\ previewId' = previewId + 1 /\ previewId \in Nat
          /\ win'.kind = win.kind /\ win'.doc = win.doc /\ win'.pane = win.pane
          /\ win'.latest = IF Ready THEN previewId' ELSE win.latest
          /\ win.latest \in Nat
      BY <2>3 DEF TimerFires, Typed, TypeOK, Windows
    <3>2. \A r \in renders' : r \in renders \/ (r.id = previewId' /\ r.image = Null)
      BY <2>3 DEF TimerFires
    <3>3. \A r \in renders : r.id \in Nat
      BY DEF Typed, TypeOK, RenderCalls
    <3>4. \A r \in renders' : 1 <= r.id /\ r.id <= previewId' /\ ImageFits(r)'
      <4> SUFFICES ASSUME NEW r \in renders'
                   PROVE  1 <= r.id /\ r.id <= previewId' /\ ImageFits(r)'
        OBVIOUS
      <4>1. CASE r.id = previewId' /\ r.image = Null
        BY <3>1, <4>1 DEF ImageFits
      <4>2. CASE r \in renders
        <5>1. r.id \in Nat /\ 1 <= r.id /\ r.id <= previewId /\ ImageFits(r)
          BY <3>3, <4>2 DEF ImagesFit
        <5>2. r.id # previewId' /\ r.id <= previewId'
          BY <3>1, <5>1
        <5>3. r.id = win'.latest => r.id = win.latest
          BY <3>1, <5>2
        <5> QED
          BY <3>1, <5>1, <5>2, <5>3 DEF ImageFits
      <4> QED
        BY <3>2, <4>1, <4>2
    <3> QED
      BY <3>1, <3>4 DEF ImagesFit, Ready
  <2>4. CASE ClickEstimate
    <3>1. /\ win'.kind = win.kind /\ win'.doc = win.doc /\ win'.latest = win.latest
          /\ win'.pane = win.pane /\ UNCHANGED <<previewId, renders>>
      BY <2>4 DEF ClickEstimate, Typed, TypeOK, Windows
    <3> QED
      BY <3>1, SameImages
  <2>5. CASE Open
    BY <2>5, ReopenedImages DEF Open, CallOpen
  <2>6. CASE SubmitPassword \/ Convert
    BY <2>6, SameImages DEF SubmitPassword, CallOpen, Convert
  <2> QED
    BY <1>1, <2>1, <2>2, <2>3, <2>4, <2>5, <2>6 DEF Asks
<1>2. CASE Front
  <2>1. CASE Effect
    BY <2>1, SameImages DEF Effect
  <2>2. ASSUME NEW r \in renders, PreviewAnswered(r) PROVE ImagesFit'
    <3>1. /\ win'.kind = win.kind /\ win'.doc = win.doc /\ win'.latest = win.latest
          /\ UNCHANGED previewId /\ renders' \subseteq renders
      BY <2>2 DEF PreviewAnswered, Typed, TypeOK, Windows
    <3>2. \/ win'.pane = win.pane
          \/ Applies(r) /\ r.image # Null /\ win'.pane = [win.pane EXCEPT ![r.kind] = r.image]
      BY <2>2 DEF PreviewAnswered, Typed, TypeOK, Windows
    <3>3. Applies(r) /\ r.image # Null => r.image.doc = win.doc
      BY DEF Applies, ImagesFit, ImageFits
    <3>4. \A k \in Kinds : win'.pane[k] # Null => win'.pane[k].doc = win.doc
      BY <3>2, <3>3 DEF ImagesFit, Typed, TypeOK, Windows
    <3> QED
      BY <3>1, <3>4 DEF ImagesFit, ImageFits, Ready
  <2>3. ASSUME NEW e \in estimates, EstimateAnswered(e) PROVE ImagesFit'
    BY <2>3, SameImages DEF EstimateAnswered, Typed, TypeOK, Windows
  <2>4. CASE StartOver \/ Dismiss
    BY <2>4, ReopenedImages DEF StartOver, Dismiss
  <2>5. ASSUME NEW o \in openings, OpenAnswered(o) PROVE ImagesFit'
    <3>1. CASE UNCHANGED frontVars
      BY <2>5, <3>1, SameImages DEF OpenAnswered
    <3>2. CASE ~UNCHANGED frontVars
      BY <2>5, <3>2, ReopenedImages DEF OpenAnswered
    <3> QED
      BY <3>1, <3>2
  <2>6. CASE StartAnswered
    <3>1. CASE UNCHANGED frontVars
      BY <2>6, <3>1, SameImages DEF StartAnswered
    <3>2. CASE ~UNCHANGED frontVars
      BY <2>6, <3>2, ReopenedImages DEF StartAnswered
    <3> QED
      BY <3>1, <3>2
  <2>7. ASSUME NEW e \in ends, HearEnd(e) PROVE ImagesFit'
    <3>1. CASE UNCHANGED frontVars
      BY <2>7, <3>1, SameImages DEF HearEnd
    <3>2. CASE ~UNCHANGED frontVars
      BY <2>7, <3>2, ReopenedImages DEF HearEnd
    <3> QED
      BY <3>1, <3>2
  <2> QED
    BY <1>2, <2>1, <2>2, <2>3, <2>4, <2>5, <2>6, <2>7 DEF Front
<1>3. CASE Commands
  <2>1. ASSUME NEW r \in renders, RenderCheck(r) PROVE ImagesFit'
    <3>1. PICK place \in {"queued", "answered"} :
            renders' = (renders \ {r}) \cup {[r EXCEPT !.at = place]}
      BY <2>1 DEF RenderCheck
    <3> DEFINE f == [r EXCEPT !.at = place]
    <3>2. f.id = r.id /\ f.image = r.image /\ f.of = r.of
      BY DEF Typed, TypeOK, RenderCalls
    <3>3. UNCHANGED <<win, previewId>>
      BY <2>1 DEF RenderCheck
    <3> HIDE DEF f
    <3> QED
      <4>1. ASSUME NEW q \in renders'
            PROVE  1 <= q.id /\ q.id <= previewId' /\ ImageFits(q)'
        <5>1. CASE q \in renders
          BY <3>3, <5>1 DEF ImagesFit, ImageFits
        <5>2. CASE q = f
          BY <3>2, <3>3, <5>2 DEF ImagesFit, ImageFits
        <5> QED
          BY <3>1, <5>1, <5>2 DEF f
      <4> QED
        BY <3>3, <4>1 DEF ImagesFit, Ready
  <2>2. ASSUME NEW e \in estimates, EstimateCheck(e) \/ EstimateRegister(e) \/ EstimateClear(e)
        PROVE  ImagesFit'
    BY <2>2, SameImages DEF EstimateCheck, EstimateRegister, EstimateClear
  <2>3. ASSUME NEW o \in openings, OpenSend(o) \/ OpenStore(o) PROVE ImagesFit'
    BY <2>3, SameImages DEF OpenSend, OpenStore
  <2>4. CASE Close \/ StartClaim \/ StartTakes \/ StartSend
    BY <2>4, SameImages DEF Close, StartClaim, StartTakes, StartSend
  <2> QED
    BY <1>3, <2>1, <2>2, <2>3, <2>4 DEF Commands
<1>4. CASE Worker
  <2>1. CASE WorkRender
    <3>1. PICK r \in renders : \E image \in {Null} \cup
               (IF session = Null THEN {} ELSE {[r.of EXCEPT !.doc = session]}) :
            renders' = (renders \ {r}) \cup {[r EXCEPT !.at = "answered", !.image = image]}
      BY <2>1 DEF WorkRender
    <3>2. PICK image \in {Null} \cup
               (IF session = Null THEN {} ELSE {[r.of EXCEPT !.doc = session]}) :
            renders' = (renders \ {r}) \cup {[r EXCEPT !.at = "answered", !.image = image]}
      BY <3>1
    <3> DEFINE f == [r EXCEPT !.at = "answered", !.image = image]
    <3>3. f.id = r.id /\ f.image = image /\ f.of = r.of
      BY DEF Typed, TypeOK, RenderCalls
    <3>4. r.of \in Requests
      BY DEF Typed, TypeOK, RenderCalls
    <3>5. image # Null =>
            /\ session # Null /\ image.doc = session
            /\ image = [r.of EXCEPT !.doc = image.doc]
      BY <3>4 DEF Requests
    <3>6. r.id = win.latest => Ready
      BY DEF ImagesFit, Typed, TypeOK, RenderCalls
    <3>7. image # Null /\ r.id = win.latest => image.doc = win.doc
      BY <3>5, <3>6 DEF OneDocument, Typed, ShownHasDocument, Ready, Shown
    <3>8. UNCHANGED <<win, previewId>>
      BY <2>1 DEF WorkRender
    <3> HIDE DEF f
    <3>9. ImageFits(f)'
      BY <3>3, <3>5, <3>7, <3>8 DEF ImageFits
    <3> QED
      BY <3>2, <3>3, <3>8, <3>9 DEF ImagesFit, ImageFits, Ready, f
  <2>2. CASE WorkEstimate \/ EndEstimate \/ WorkOpen \/ WorkClose \/ WorkProcess
    BY <2>2, SameImages DEF WorkEstimate, EndEstimate, WorkOpen, WorkClose, WorkProcess
  <2> QED
    BY <1>4, <2>1, <2>2 DEF Worker
<1>5. CASE UNCHANGED vars
  BY <1>5, SameImages DEF vars
<1> QED
  BY <1>1, <1>2, <1>3, <1>4, <1>5 DEF Next

-----------------------------------------------------------------------------
\* The timer and the newest requests are for what the effect last ran with, and
\* what the pane lacks once the timer has fired is on its way.
OnItsWay(k) == \E r \in renders : r.kind = k /\ r.id = previewId /\ r.id = win.latest
RequestsFit ==
  /\ timer # Null => timer = rendered
  /\ timer = Null /\ rendered # Null => \A r \in renders : r.id = previewId => r.of = rendered
  /\ Ready /\ Settled /\ timer = Null =>
       \A k \in Kinds \ missing : win.pane[k] = rendered \/ OnItsWay(k)

\* A state that is shown afresh has the effect run again.
LEMMA ReopenedRequests ==
  ASSUME Typed, RequestsFit, Typed', UNCHANGED renders, NEW w, Reopens(w),
         w.kind = "ready" => ~Ready
  PROVE  RequestsFit'
<1>1. win' = w /\ Settled /\ UNCHANGED <<rendered, timer, previewId>>
  BY DEF Reopens, Shows
<1>2. ~(Ready' /\ Settled')
  <2>1. CASE ~Ready'
    BY <2>1
  <2>2. CASE Ready'
    <3>1. ~Ready
      BY <1>1, <2>2 DEF Ready
    <3>2. rendered = Null
      BY <1>1, <3>1 DEF Settled, Wants, Ready
    <3>3. Wants(win)' # Null
      BY <2>2, WantsRequest DEF Typed, TypeOK, ShownHasDocument, Shown, Ready
    <3> QED
      BY <1>1, <3>2, <3>3 DEF Settled
  <2> QED
    BY <2>1, <2>2
<1> QED
  BY <1>1, <1>2 DEF RequestsFit

LEMMA SameRequests ==
  ASSUME RequestsFit, UNCHANGED <<rendered, timer, previewId, missing, renders>>,
         win'.kind = win.kind, win'.doc = win.doc, win'.page = win.page,
         win'.settings = win.settings, win'.latest = win.latest, win'.pane = win.pane
  PROVE  RequestsFit'
BY DEF RequestsFit, Ready, Settled, Wants, OnItsWay

LEMMA RequestsFitIsInductive ==
  ASSUME Typed, OneDocument, ImagesFit, RequestsFit, [Next]_vars, Typed' PROVE RequestsFit'
<1> USE DEF OnlyPreviews, OnlyEstimates, OnlyOpening, OnlyConverting, frontVars, callVars,
            backVars, workerVars
<1>1. CASE Asks
  <2>1. ASSUME NEW p \in Pages, SelectPage(p) PROVE RequestsFit'
    <3>1. /\ Ready /\ Settled /\ win'.kind = win.kind /\ win'.page = p
          /\ missing' = IF p = win.page THEN Kinds ELSE missing
          /\ UNCHANGED <<rendered, timer, previewId, renders>>
      BY <2>1 DEF SelectPage, Shows, Typed, TypeOK, Windows
    <3>2. CASE p = win.page
      BY <3>1, <3>2 DEF RequestsFit
    <3>3. CASE p # win.page
      <4>1. Wants(win)' # Wants(win)
        BY <3>1, <3>3 DEF Wants, Ready
      <4> QED
        BY <3>1, <4>1 DEF RequestsFit, Settled
    <3> QED
      BY <3>2, <3>3
  <2>2. ASSUME NEW s \in Settings, SetSettings(s) PROVE RequestsFit'
    <3>1. /\ Ready /\ Settled /\ win'.kind = win.kind /\ win'.doc = win.doc
          /\ win'.page = win.page /\ win'.settings = s /\ win'.latest = win.latest
          /\ win'.pane = [win.pane EXCEPT !["processed"] = Null]
          /\ missing' = IF s = win.settings THEN missing \cup {"processed"} ELSE missing
          /\ UNCHANGED <<rendered, timer, previewId, renders>>
      BY <2>2 DEF SetSettings, Shows, Typed, TypeOK, Windows
    <3>2. CASE s = win.settings
      <4>1. \A k \in Kinds \ missing' : k \in Kinds \ missing /\ win'.pane[k] = win.pane[k]
        BY <3>1, <3>2 DEF Typed, TypeOK, Windows
      <4>2. \A k \in Kinds : OnItsWay(k) => OnItsWay(k)'
        BY <3>1 DEF OnItsWay
      <4> QED
        BY <3>1, <4>1, <4>2 DEF RequestsFit
    <3>3. CASE s # win.settings
      <4>1. Wants(win)' # Wants(win)
        BY <3>1, <3>3 DEF Wants, Ready
      <4> QED
        BY <3>1, <4>1 DEF RequestsFit, Settled
    <3> QED
      BY <3>2, <3>3
  <2>3. CASE TimerFires
    <3>1. /\ timer' = Null /\ timer = rendered /\ previewId' = previewId + 1 /\ previewId \in Nat
          /\ UNCHANGED rendered
      BY <2>3 DEF TimerFires, RequestsFit, Typed, TypeOK
    <3>2. \A r \in renders' : r \in renders \/ r.of = timer
      BY <2>3 DEF TimerFires
    <3>3. \A r \in renders : r.id # previewId'
      BY <3>1 DEF ImagesFit, Typed, TypeOK, RenderCalls
    <3>4. ASSUME Ready', NEW k \in Kinds PROVE OnItsWay(k)'
      <4> DEFINE new == [id |-> previewId', kind |-> k, of |-> timer, at |-> "asked",
                         image |-> Null]
      <4>1. new \in renders' /\ new.kind = k /\ new.id = previewId'
        BY <2>3 DEF TimerFires
      <4>2. win'.latest = previewId'
        BY <2>3, <3>4 DEF TimerFires, Ready, Typed, TypeOK, Windows
      <4> HIDE DEF new
      <4> QED
        BY <4>1, <4>2 DEF OnItsWay
    <3> QED
      BY <3>1, <3>2, <3>3, <3>4 DEF RequestsFit
  <2>4. CASE ClickEstimate
    <3>1. /\ win'.kind = win.kind /\ win'.doc = win.doc /\ win'.page = win.page
          /\ win'.settings = win.settings /\ win'.latest = win.latest /\ win'.pane = win.pane
          /\ UNCHANGED <<rendered, timer, previewId, missing, renders>>
      BY <2>4 DEF ClickEstimate, Typed, TypeOK, Windows
    <3> QED
      BY <3>1, SameRequests
  <2>5. CASE Open
    <3>1. Reopens(State("opening", Null, Default)) /\ UNCHANGED renders
      BY <2>5 DEF Open, CallOpen
    <3>2. State("opening", Null, Default).kind # "ready"
      BY DEF State
    <3> QED
      BY <3>1, <3>2, ReopenedRequests
  <2>6. CASE SubmitPassword \/ Convert
    BY <2>6, SameRequests DEF SubmitPassword, CallOpen, Convert
  <2> QED
    BY <1>1, <2>1, <2>2, <2>3, <2>4, <2>5, <2>6 DEF Asks
<1>2. CASE Front
  <2>1. CASE Effect
    <3>1. timer' = Wants(win) /\ rendered' = Wants(win) /\ UNCHANGED <<win, renders, previewId>>
      BY <2>1 DEF Effect
    <3>2. Ready => Wants(win) # Null
      BY WantsRequest DEF Typed, TypeOK, ShownHasDocument, Shown, Ready
    <3> QED
      BY <3>1, <3>2 DEF RequestsFit, Ready
  <2>2. ASSUME NEW r \in renders, PreviewAnswered(r) PROVE RequestsFit'
    <3>1. /\ renders' = renders \ {r} /\ UNCHANGED <<rendered, timer, previewId>>
          /\ win'.kind = win.kind /\ win'.doc = win.doc /\ win'.page = win.page
          /\ win'.settings = win.settings /\ win'.latest = win.latest
      BY <2>2 DEF PreviewAnswered, Typed, TypeOK, Windows
    <3>2. Wants(win)' = Wants(win) /\ Ready' = Ready
      BY <3>1 DEF Wants, Ready
    <3>3. ASSUME Ready, Settled, timer = Null, NEW k \in Kinds \ missing'
          PROVE  win'.pane[k] = rendered \/ OnItsWay(k)'
      <4>1. CASE ~Applies(r)
        <5>1. missing' = missing /\ win' = win
          BY <2>2, <4>1 DEF PreviewAnswered
        <5>2. OnItsWay(k) => OnItsWay(k)'
          BY <3>1, <3>3, <4>1, <5>1 DEF OnItsWay, Applies
        <5> QED
          BY <3>3, <5>1, <5>2 DEF RequestsFit
      <4>2. CASE Applies(r) /\ r.image = Null
        <5>1. missing' = missing \cup {r.kind} /\ win'.pane = win.pane
          BY <2>2, <4>2 DEF PreviewAnswered, Typed, TypeOK, Windows
        <5>2. k # r.kind /\ k \in Kinds \ missing
          BY <3>3, <5>1
        <5>3. OnItsWay(k) => OnItsWay(k)'
          BY <3>1, <5>2 DEF OnItsWay
        <5> QED
          BY <3>3, <5>1, <5>2, <5>3 DEF RequestsFit
      <4>3. CASE Applies(r) /\ r.image # Null
        <5>1. /\ missing' = missing \ {r.kind}
              /\ win'.pane = [win.pane EXCEPT ![r.kind] = r.image]
          BY <2>2, <4>3 DEF PreviewAnswered, Typed, TypeOK, Windows
        <5>2. CASE k = r.kind
          <6>1. r.of = rendered /\ rendered = Wants(win) /\ r.of \in Requests
            <7>1. rendered # Null
              BY <3>3, WantsRequest DEF Settled, Typed, TypeOK, ShownHasDocument, Shown, Ready
            <7> QED
              BY <3>3, <4>3, <7>1 DEF RequestsFit, Applies, Settled, Typed, TypeOK, RenderCalls
          <6>2. r.of.doc = win.doc
            BY <3>3, <6>1 DEF Wants, Ready
          <6>3. r.image = [r.of EXCEPT !.doc = win.doc]
            BY <4>3 DEF ImagesFit, ImageFits, Applies
          <6>4. r.image = r.of
            BY <6>1, <6>2, <6>3 DEF Requests
          <6>5. win'.pane[k] = r.image
            BY <5>1, <5>2 DEF Typed, TypeOK, Windows
          <6> QED
            BY <6>1, <6>4, <6>5
        <5>3. CASE k # r.kind
          <6>1. k \in Kinds \ missing /\ win'.pane[k] = win.pane[k]
            BY <3>3, <5>1, <5>3 DEF Typed, TypeOK, Windows
          <6>2. OnItsWay(k) => OnItsWay(k)'
            BY <3>1, <5>3 DEF OnItsWay
          <6> QED
            BY <3>3, <6>1, <6>2 DEF RequestsFit
        <5> QED
          BY <5>2, <5>3
      <4> QED
        BY <4>1, <4>2, <4>3
    <3> QED
      BY <3>1, <3>2, <3>3 DEF RequestsFit, Settled
  <2>3. ASSUME NEW e \in estimates, EstimateAnswered(e) PROVE RequestsFit'
    <3>1. /\ win'.kind = win.kind /\ win'.doc = win.doc /\ win'.page = win.page
          /\ win'.settings = win.settings /\ win'.latest = win.latest /\ win'.pane = win.pane
          /\ UNCHANGED <<rendered, timer, previewId, missing, renders>>
      BY <2>3 DEF EstimateAnswered, Typed, TypeOK, Windows
    <3> QED
      BY <3>1, SameRequests
  <2>4. CASE StartOver \/ Dismiss
    <3>1. ~Ready /\ UNCHANGED renders /\ \E w : Reopens(w)
      BY <2>4 DEF StartOver, Dismiss, Ready
    <3> QED
      BY <3>1, ReopenedRequests
  <2>5. ASSUME NEW o \in openings, OpenAnswered(o) PROVE RequestsFit'
    <3>1. ~Ready
      BY NullAssumption DEF OneDocument, Typed, ShownHasDocument, Shown, Ready
    <3>2. UNCHANGED renders /\ (UNCHANGED frontVars \/ \E w : Reopens(w))
      BY <2>5 DEF OpenAnswered
    <3> QED
      BY <3>1, <3>2, ReopenedRequests, SameRequests
  <2>6. CASE StartAnswered
    <3>1. UNCHANGED renders
          /\ (UNCHANGED frontVars \/ \E w : Reopens(w) /\ w.kind \in {"failed", "processing"})
      BY <2>6 DEF StartAnswered, State
    <3> QED
      BY <3>1, ReopenedRequests, SameRequests
  <2>7. ASSUME NEW e \in ends, HearEnd(e) PROVE RequestsFit'
    <3>1. UNCHANGED renders /\ (UNCHANGED frontVars \/ (~Ready /\ \E w : Reopens(w)))
      BY <2>7 DEF HearEnd, Ready
    <3> QED
      BY <3>1, ReopenedRequests, SameRequests
  <2> QED
    BY <1>2, <2>1, <2>2, <2>3, <2>4, <2>5, <2>6, <2>7 DEF Front
<1>3. ASSUME NEW r \in renders, NEW f, f.id = r.id, f.kind = r.kind, f.of = r.of,
             renders' = (renders \ {r}) \cup {f},
             UNCHANGED <<win, rendered, timer, previewId, missing>>
      PROVE  RequestsFit'
  <2>1. \A k \in Kinds : OnItsWay(k) => OnItsWay(k)'
    BY <1>3 DEF OnItsWay
  <2>2. timer = Null /\ rendered # Null => \A q \in renders' : q.id = previewId => q.of = rendered
    BY <1>3 DEF RequestsFit
  <2> QED
    BY <1>3, <2>1, <2>2 DEF RequestsFit, Ready, Settled
<1>4. CASE Commands
  <2>1. ASSUME NEW r \in renders, RenderCheck(r) PROVE RequestsFit'
    <3>1. \E f : /\ f.id = r.id /\ f.kind = r.kind /\ f.of = r.of
                 /\ renders' = (renders \ {r}) \cup {f}
      BY <2>1 DEF RenderCheck, Typed, TypeOK, RenderCalls
    <3>2. UNCHANGED <<win, rendered, timer, previewId, missing>>
      BY <2>1 DEF RenderCheck
    <3> QED
      BY <1>3, <3>1, <3>2
  <2>2. ASSUME NEW e \in estimates, EstimateCheck(e) \/ EstimateRegister(e) \/ EstimateClear(e)
        PROVE  RequestsFit'
    BY <2>2, SameRequests DEF EstimateCheck, EstimateRegister, EstimateClear
  <2>3. ASSUME NEW o \in openings, OpenSend(o) \/ OpenStore(o) PROVE RequestsFit'
    BY <2>3, SameRequests DEF OpenSend, OpenStore
  <2>4. CASE Close \/ StartClaim \/ StartTakes \/ StartSend
    BY <2>4, SameRequests DEF Close, StartClaim, StartTakes, StartSend
  <2> QED
    BY <1>4, <2>1, <2>2, <2>3, <2>4 DEF Commands
<1>5. CASE Worker
  <2>1. CASE WorkRender
    <3>1. PICK r \in renders :
            \E f : /\ f.id = r.id /\ f.kind = r.kind /\ f.of = r.of
                   /\ renders' = (renders \ {r}) \cup {f}
      BY <2>1 DEF WorkRender, Typed, TypeOK, RenderCalls
    <3>2. UNCHANGED <<win, rendered, timer, previewId, missing>>
      BY <2>1 DEF WorkRender
    <3> QED
      BY <1>3, <3>1, <3>2
  <2>2. CASE WorkEstimate \/ EndEstimate \/ WorkOpen \/ WorkClose \/ WorkProcess
    BY <2>2, SameRequests DEF WorkEstimate, EndEstimate, WorkOpen, WorkClose, WorkProcess
  <2> QED
    BY <1>5, <2>1, <2>2 DEF Worker
<1>6. CASE UNCHANGED vars
  BY <1>6, SameRequests DEF vars
<1> QED
  BY <1>1, <1>2, <1>4, <1>5, <1>6 DEF Next

\* Unless two calls of open_document are under way at one time, whatever order
\* answers come in and whatever is opened, closed or converted in between: the
\* images are of the document the window shows, and once all is quiet of its
\* page and settings, except for those that failed or that a click has emptied
\* for good (hooks/usePreview.ts, app/reducer.ts, worker.rs).
THEOREM PaneComesRightCorrect == Spec /\ []OneOpening => []PaneComesRight
<1> DEFINE Inv == OneDocument /\ ImagesFit /\ RequestsFit
<1>1. Init => Inv
  <2> SUFFICES ASSUME Init PROVE Inv
    OBVIOUS
  <2>1. \A k \in Kinds : win.pane[k] = Null
    BY DEF Init, State, NoPane
  <2>2. win.kind = "idle" /\ win.doc = Null /\ win.latest = 0
    BY DEF Init, State
  <2>3. renders = {} /\ openings = {} /\ timer = Null /\ rendered = Null /\ previewId = 0
    BY DEF Init
  <2> QED
    BY <2>1, <2>2, <2>3 DEF OneDocument, OneOpening, ImagesFit, RequestsFit, Ready
<1>2. Typed /\ Inv /\ OneOpening' /\ [Next]_vars => Inv'
  BY TypedIsInductive, OneDocumentIsInductive, ImagesFitIsInductive, RequestsFitIsInductive
<1>3. Typed /\ Inv => PaneComesRight
  <2> SUFFICES ASSUME Typed, Inv, Ready PROVE PaneComesRight
    BY DEF PaneComesRight
  <2>1. \A k \in Kinds : win.pane[k] # Null => win.pane[k].doc = win.doc
    BY DEF ImagesFit
  <2>2. Quiet => \A k \in Kinds \ missing : win.pane[k] = Wants(win)
    BY DEF Quiet, RequestsFit, Settled, OnItsWay
  <2> QED
    BY <2>1, <2>2 DEF PaneComesRight
<1> QED
  BY <1>1, <1>2, <1>3, TypedAlways, PTL DEF Spec
=============================================================================
