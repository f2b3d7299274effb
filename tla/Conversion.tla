----------------------------- MODULE Conversion -----------------------------
(***************************************************************************)
(* The conversion pipeline (mpdf-core/src/pipeline.rs, validation.rs and   *)
(* the builder of pdf_writer.rs): runs that convert, analyse or estimate a *)
(* document page by page, each with a cancellation flag it looks at        *)
(* between the stages, and the one destination path they share.            *)
(*                                                                         *)
(* A page that cannot be rendered back from the written file is in "bad".  *)
(* The destination is nobody's (there is no file), the user's, or what a   *)
(* run wrote.  What a run keeps ends with it; one that is killed leaves    *)
(* its temporary file.                                                     *)
(***************************************************************************)
EXTENDS Integers, Sequences, FiniteSets, SequencesExt

CONSTANTS Runs, PageCount

ASSUME PageCountAssumption == PageCount \in Nat \ {0}
ASSUME RunsAssumption == Runs \cap {"nobody", "user"} = {}

VARIABLES
  build,     \* the platform and OutputWriteStrategy the program was built for
  cfg,       \* cfg[r]: what run r was asked for
  stage,     \* stage[r]: what it does next, or how it ended
  cancelled, \* cancelled[r]: ProgressReporter::is_cancelled
  todo,      \* todo[r]: the pages still to be done, in order
  pages,     \* pages[r]: the pages the builder has
  bad,       \* bad[r]: those the written bytes do not render, or analysis could not read
  temps,     \* the runs whose temporary file exists
  dest       \* the destination path

vars == <<build, cfg, stage, cancelled, todo, pages, bad, temps, dest>>

Builds == [os : {"unix", "windows"}, strategy : {"rename"}] \cup [os : {"unix"}, strategy : {"direct"}]
AllPages == [k \in 1 .. PageCount |-> k]
Ends == {"finished", "cancelled", "failed", "refused", "dead"}
Nothing == [kind |-> "none", overwrite |-> FALSE, renderAll |-> FALSE, alias |-> FALSE]
File(owner) == [by |-> owner, pages |-> <<>>, bad |-> {}, rendered |-> {}, whole |-> TRUE]
Free == dest.by = "nobody"

\* A run looks at its flag before each of these.
Checked == {"open", "start", "render", "binarize", "encode", "add", "measure", "write", "validate"}

Init ==
  /\ build \in Builds
  /\ cfg = [r \in Runs |-> Nothing]
  /\ stage = [r \in Runs |-> "idle"]
  /\ cancelled = [r \in Runs |-> FALSE]
  /\ todo = [r \in Runs |-> <<>>] /\ pages = [r \in Runs |-> <<>>]
  /\ bad = [r \in Runs |-> {}]
  /\ temps = {}
  /\ dest \in {File("nobody"), File("user")}

At(r, s) == stage[r] = s
To(r, s) == stage' = [stage EXCEPT ![r] = s]

Forget(r) ==
  /\ cfg' = [cfg EXCEPT ![r] = Nothing]
  /\ cancelled' = [cancelled EXCEPT ![r] = FALSE]
  /\ todo' = [todo EXCEPT ![r] = <<>>] /\ pages' = [pages EXCEPT ![r] = <<>>]
  /\ bad' = [bad EXCEPT ![r] = {}]
  /\ UNCHANGED build

\* A run that returns drops its NamedTempFile.
EndFaulty(r, how) ==
  /\ To(r, how)
  /\ temps' = IF how = "finished" THEN temps \ {r} ELSE temps
  /\ Forget(r)
End(r, how) ==
  /\ To(r, how)
  /\ temps' = temps \ {r}
  /\ Forget(r)

\* process_pdf, process_with_open_session, analyze_pdf, estimate_output_size:
\* the settings are valid; check_destination looks at the path once, here.  The
\* desktop hands in a session that is open.
\* The sandboxed build is the desktop's, which converts one document at a time.
Refuses(c) == c.kind = "convert" /\ (c.alias \/ (~Free /\ ~c.overwrite))
Begin(r, c) ==
  /\ At(r, "idle")
  /\ build.strategy = "direct" /\ c.kind = "convert" => \A q \in Runs : cfg[q].kind # "convert"
  /\ \/ Refuses(c) /\ To(r, "refused") /\ UNCHANGED cfg
     \/ /\ ~Refuses(c)
        /\ \E s \in (IF c.kind = "convert" THEN {"open", "start"} ELSE {"begin"}) : To(r, s)
        /\ cfg' = [cfg EXCEPT ![r] = c]
  /\ UNCHANGED <<build, cancelled, todo, pages, bad, temps, dest>>

Cancel(r) ==
  /\ stage[r] \notin Ends \cup {"idle"} /\ ~cancelled[r]
  /\ cancelled' = [cancelled EXCEPT ![r] = TRUE]
  /\ UNCHANGED <<build, cfg, stage, todo, pages, bad, temps, dest>>

\* progress.is_cancelled(): the run reports Cancelled and returns.
StopsAtFaulty(r) == stage[r] \in Checked \ {"validate"}
StopsAt(r) == stage[r] \in Checked
Heed(r) ==
  /\ StopsAt(r) /\ cancelled[r]
  /\ End(r, "cancelled") /\ UNCHANGED dest

Goes(r, s) == At(r, s) /\ ~(StopsAt(r) /\ cancelled[r])

\* PdfDocumentSession::open, which reads the source once, for all pages.
Open(r) ==
  /\ Goes(r, "open") /\ To(r, "start")
  /\ UNCHANGED <<build, cfg, cancelled, todo, pages, bad, temps, dest>>

\* process_with_session begins.
Start(r) ==
  /\ Goes(r, "start") /\ To(r, "render")
  /\ todo' = [todo EXCEPT ![r] = AllPages]
  /\ UNCHANGED <<build, cfg, cancelled, pages, bad, temps, dest>>

\* Render, binarize and encode the page at hand.
NextStage == [render |-> "binarize", binarize |-> "encode", encode |-> "add"]
Advance(r) ==
  /\ \E s \in DOMAIN NextStage : Goes(r, s) /\ To(r, NextStage[s])
  /\ UNCHANGED <<build, cfg, cancelled, todo, pages, bad, temps, dest>>

\* builder.add_page; after the last page builder.finish, whose bytes may hold
\* pages that do not render.
AddPage(r) ==
  /\ Goes(r, "add")
  /\ pages' = [pages EXCEPT ![r] = Append(@, Head(todo[r]))]
  /\ todo' = [todo EXCEPT ![r] = Tail(@)]
  /\ \/ Len(todo[r]) > 1 /\ To(r, "render") /\ UNCHANGED bad
     \/ /\ Len(todo[r]) = 1 /\ To(r, "write")
        /\ \E p \in 0 .. PageCount : bad' = [bad EXCEPT ![r] = {p} \ {0}]
  /\ UNCHANGED <<build, cfg, cancelled, temps, dest>>

\* assert_bilevel_ccitt_structure, write_temporary.
WriteTemporary(r) ==
  /\ Goes(r, "write") /\ To(r, "validate")
  /\ temps' = temps \cup {r}
  /\ UNCHANGED <<build, cfg, cancelled, todo, pages, bad, dest>>

\* validate_output reopens the temporary file: the pages it renders, and
\* whether it accepts the file.
Rendered(r) == IF cfg[r].renderAll THEN 1 .. PageCount ELSE {1, PageCount}
AcceptsFaulty(r) == Len(pages[r]) = PageCount
Accepts(r) == Len(pages[r]) = PageCount /\ bad[r] \cap Rendered(r) = {}
Validate(r) ==
  /\ Goes(r, "validate") /\ Accepts(r)
  /\ To(r, "persist")
  /\ UNCHANGED <<build, cfg, cancelled, todo, pages, bad, temps, dest>>

-----------------------------------------------------------------------------
Output(r, whole) ==
  [by |-> r, pages |-> pages[r], bad |-> bad[r], rendered |-> Rendered(r), whole |-> whole]

\* persist on Windows: the old file is unlinked before the rename, and is lost
\* if that fails or never happens.
RemoveOld(r) ==
  /\ At(r, "persist") /\ build.os = "windows" /\ cfg[r].overwrite /\ ~Free
  /\ To(r, "rename") /\ dest' = File("nobody")
  /\ UNCHANGED <<build, cfg, cancelled, todo, pages, bad, temps>>

\* temp.persist(output), which replaces whatever is there by now.
Rename(r) ==
  /\ build.strategy = "rename"
  /\ At(r, "rename") \/ (At(r, "persist") /\ (build.os = "unix" \/ ~cfg[r].overwrite \/ Free))
  /\ dest' = Output(r, TRUE)
  /\ End(r, "finished")

\* write_direct: create truncates, then the bytes are written and synced.
Truncate(r) ==
  /\ At(r, "persist") /\ build.strategy = "direct"
  /\ dest' = Output(r, FALSE) /\ To(r, "fill")
  /\ UNCHANGED <<build, cfg, cancelled, todo, pages, bad, temps>>
Fill(r) ==
  /\ At(r, "fill")
  /\ dest' = Output(r, TRUE)
  /\ End(r, "finished")

-----------------------------------------------------------------------------
\* analyze_with_session and estimate_with_session: a selection of the pages;
\* the first check comes with the first page.
BeginMeasuring(r) ==
  /\ At(r, "begin")
  /\ \E S \in (SUBSET (1 .. PageCount)) \ {{}} :
       todo' = [todo EXCEPT ![r] = SetToSortSeq(S, LAMBDA p, q : p < q)]
  /\ To(r, "measure")
  /\ UNCHANGED <<build, cfg, cancelled, pages, bad, temps, dest>>

\* analyze_one_page: analysis counts a page that fails and goes on.
Measure(r) ==
  /\ Goes(r, "measure") /\ todo[r] # <<>>
  /\ todo' = [todo EXCEPT ![r] = Tail(@)]
  /\ \/ pages' = [pages EXCEPT ![r] = Append(@, Head(todo[r]))] /\ UNCHANGED bad
     \/ cfg[r].kind = "analyze" /\ bad' = [bad EXCEPT ![r] = @ \cup {Head(todo[r])}] /\ UNCHANGED pages
  /\ IF Len(todo[r]) = 1 THEN To(r, "report") ELSE UNCHANGED stage
  /\ UNCHANGED <<build, cfg, cancelled, temps, dest>>
Report(r) == At(r, "report") /\ End(r, "finished") /\ UNCHANGED dest

\* An error of the stage at hand; a step of the analysis of one page has none.
Fallible(r) ==
  \/ stage[r] \in {"open", "render", "binarize", "encode", "add", "write", "validate"}
       /\ ~cancelled[r]
  \/ stage[r] \in {"persist", "rename", "fill"}
  \/ At(r, "measure") /\ cfg[r].kind = "estimate" /\ ~cancelled[r]
Fail(r) == Fallible(r) /\ End(r, "failed") /\ UNCHANGED dest

\* The process is killed.
Die(r) ==
  /\ stage[r] \notin Ends \cup {"idle"}
  /\ To(r, "dead") /\ Forget(r)
  /\ UNCHANGED <<temps, dest>>

Requests ==
  [kind : {"convert"}, overwrite : BOOLEAN, renderAll : BOOLEAN, alias : BOOLEAN]
    \cup [kind : {"analyze", "estimate"}, overwrite : {FALSE}, renderAll : {FALSE}, alias : {FALSE}]

Work(r) ==
  \/ Heed(r) \/ Open(r) \/ Start(r) \/ Advance(r) \/ AddPage(r) \/ WriteTemporary(r) \/ Validate(r)
  \/ RemoveOld(r) \/ Rename(r) \/ Truncate(r) \/ Fill(r)
  \/ BeginMeasuring(r) \/ Measure(r) \/ Report(r) \/ Fail(r)

Next ==
  \E r \in Runs :
    \/ \E c \in Requests : Begin(r, c)
    \/ Work(r)
    \/ Cancel(r)
    \/ Die(r)

Spec == Init /\ [][Next]_vars

-----------------------------------------------------------------------------
TypeOK ==
  /\ build \in Builds
  /\ \A r \in Runs :
       /\ cfg[r] \in Requests \cup {Nothing}
       /\ stage[r] \in Ends \cup Checked
            \cup {"idle", "begin", "report", "persist", "rename", "fill"}
       /\ cancelled[r] \in BOOLEAN
       /\ todo[r] \in Seq(1 .. PageCount) /\ pages[r] \in Seq(1 .. PageCount)
       /\ bad[r] \subseteq 1 .. PageCount
  /\ temps \subseteq Runs
  /\ dest.by \in Runs \cup {"nobody", "user"} /\ dest.whole \in BOOLEAN

Written == dest.by \in Runs

\* Whatever is at the destination is a whole document: every page of its
\* source once and in order, and every page readable that validation was asked
\* to render.  Only the direct write of a sandboxed build shows less, until it
\* is through or for good if it fails or is killed (docs/pdf-output.md).
DestinationIsWhole ==
  Written =>
    /\ dest.pages = AllPages /\ dest.bad \cap dest.rendered = {}
    /\ \/ dest.whole
       \/ build.strategy = "direct" /\ stage[dest.by] \in {"fill", "failed", "dead"}

\* A run that is cancelled or fails leaves no file of its own: no temporary
\* file, and nothing at the destination unless the very write to it failed.
RunsTidyUp ==
  \A r \in Runs :
    /\ stage[r] \in Ends \ {"dead"} => r \notin temps
    /\ Written /\ dest.by = r /\ dest.whole => stage[r] = "finished"
    /\ stage[r] = "cancelled" => ~(Written /\ dest.by = r)

\* Once a run is cancelled it starts nothing else: not another page, not
\* another stage.  The last look at the flag is after the temporary file is
\* written, so that from then on the file appears although it was cancelled.
Stops(r) ==
  cancelled[r] /\ stage[r] \in Checked => stage'[r] \in {stage[r], "cancelled", "dead"}
EveryRunStops == \A r \in Runs : Stops(r)
CancelledRunsStop == [][EveryRunStops]_vars

\* "Whether an existing destination may be replaced. Off by default"
\* (pipeline.rs:61): without it no file is ever taken away.  (TLC refutes it:
\* the destination is looked at once, before the work.)
ReplacesOnlyWhatItMay ==
  [][\A r \in Runs :
       ~Free /\ dest.by # r /\ dest'.by = r => cfg[r].overwrite]_vars
=============================================================================
