# TLA+ verification of mpdf (museion-binarize)

Models, model-checking runs and machine-checked proofs about the program in this
repository: the durable job store and the OCR runs on top of it, the remote OCR
commands, the desktop application, the conversion pipeline, the files beside a
document package, and the pure algorithms from page selection to bookmarks.

`PROJECT.json` lists the components, the runs, the lines each definition was
translated from, the mutants, the hazards and the theorems. Paths in this file are
relative to the repository.

## The system

| Component | State | Operations | What is hard |
| --- | --- | --- | --- |
| Job store (`crates/mpdf-core/src/jobs.rs`) | SQLite tables `jobs`, `pages`, `provider_runs` | create/ensure, claim, heartbeat, checkpoint, fail, record provider run, cancel, recover | several processes, leases on wall-clock time, every status kept in two places |
| OCR run (`ocr.rs`, `run_session_durable`) | the store, plus `ocr/raw`, `ocr/pages`, `ocr/summary.json` | one loop over the pages | database and files change in separate steps; the process dies anywhere and is run again |
| Remote OCR (`remote_api.rs`, `mpdf-cli/src/commands/api.rs`, desktop `commands/api.rs`) | `api_tasks`, `api_audit`, receipts, artifacts, the package, the service | consent, create, upload, start, poll, install, cancel, delete, local fallback | read-modify-write of the task record, lost answers, retries, deaths between two files |
| API client (`mpdf-api-client`) | one request under way | retry with backoff, idempotency keys, cancellation | a retry of what was already done |
| Desktop back end (`apps/desktop/src-tauri`) | `AppState` (document, job slot, ids), worker thread with its queue and session, one relay task per job | open, close, start, cancel, preview, estimate, API task | commands hold no lock while they await the worker; the worker dies |
| Desktop front end (`apps/desktop/src`) | reducer state, pending path, hooks | open, unlock, convert, cancel, dismiss, previews, estimates | late answers and events, handlers with an old state, debounce |
| Conversion (`pipeline.rs`, `validation.rs`, `pdf_writer.rs`) | temporary file, destination | check, render, binarize, encode, write, validate, persist | races for the destination, cancellation between stages, partial output |
| Derived revisions, exports, bookmarks, searchable PDF (`derived/`, `bookmarks/`, `searchable_pdf.rs`) | JSON logs and snapshots, export directory, PDF | add, review, generate, export, build | lost updates, stale snapshots, a replacement that fails half-way |
| Document package (`document_package.rs`) | a directory | create, validate, write, read | parts that refer to each other |
| Pages, images, benchmark (`page_selection.rs`, `estimation.rs`, `binarization/`, `cleanup/`, `bilevel.rs`, `ccitt.rs`, `benchmark/`) | none | functions | borders, zero, rounding, packing |
| Sidecar transcripts (second half of `jobs.rs`), command-line surface, distribution scripts | | | not modelled, see the end |

Interaction: command-line processes and the desktop meet in SQLite, in the package
directory and at destination paths; a remote command and its service meet in HTTP
requests that may be lost or repeated. Inside the desktop, commands and the worker
thread meet in mutexes and channels, and the window learns of both by answers and
events in any order.

## Modules

### JobStore, JobLedger: the job store and what it promises

One job, its pages and its provider runs. Each public method of `JobStore` runs
in one transaction, so each is one action with the method's name in CamelCase; a
call that returns an error changes nothing. Only `claim_page` takes the write lock at
once (an immediate transaction); the others are deferred (`unchecked_transaction`) and
take it at their first write, which SQLite refuses when another writer has
overtaken what the transaction read. `record_provider_*` and
`checkpoint_page`/`fail_page` share operators (`Commit`, `GiveBack`) where the code
repeats itself, and differ where it differs: `fail_page` leaves the status of a
job under cancellation alone, `record_provider_failure` makes it cancelled.

`now` is the machine's clock. The time an operation works with was read before
the call, which may then wait for the lock for up to five seconds: `Times` holds
the times up to `ClockLag` old. So a lease can be granted next to another's, and a run can
set the job's lease back below another page's: `OnlyLeaseholdersOverlap` and
`JobLeaseCoversPages` say what is left of exclusion then.

JobLedger is the abstract specification: every page gets at most one outcome and
keeps its artifact; the last delivery decides the job; it is cancelled only after a
request. No leases, clocks, attempts or queue. `ImplementsLedger` states the
refinement. A failed job counts as open, as the code may reopen it.

### JobIdentity: `ensure_job`

The one operation of the store that is not a transaction: callers of one job id,
with their page count and fingerprint, statement by statement, with deaths
in between, and `mpdf job create`, which makes a row without a fingerprint.

### DurableOcr, OcrRecords: the OCR run and its records

`run_session_durable`, composed of the job store (`Store == INSTANCE JobStore`) and the
package directory. A process has a place `pc` in the page loop, the page, the
evidence it holds and `run.pages`. Every read or write of a file and every call of
the store is a step; the three reads at the head of the loop are one step, because
the claim that follows is refused whenever a row changed in between in a way that
matters. `Die` is a kill and every I/O or database error: the code cleans up after
none of them. Initially the package may hold page records of an earlier job, which
the code adopts. Evidence is abstract: the native text of a page, or any of the answers a
provider may give, with or without a raw artifact.

`ImplementsStore == Store!Spec` states that a run only does to the store what its
specification allows the one lease owner all runs share. `recover_expired` and
`heartbeat` have no callers outside tests, so they are not steps here.

OcrRecords has the data: how a page is routed to its native text or to a provider,
which evidence is accepted, and how records are written, found and read back.

### DesktopBackend, DesktopApp: documents and conversions

`call[c]` is one invocation of a Tauri command: which command, where in its body it
is, its arguments and result. A command is cut into steps wherever the code lets go
of a lock or awaits: `open_document` is `OpenCheck`, `OpenSend`, the worker's
`WorkOpen`, `OpenStore`; `start_processing` is `StartCheck`, `StartClaim`, then
`StartInvalid` or `StartSend`, which leaves the relay task behind (`RelayRelease`
frees the slot, `RelayTell` emits the event); `cancel_processing` is one step, as it
holds the lock throughout. An answer is collected some time after it was given.

The worker takes one message at a time. A conversion is `Convert` (everything up to
the last test of the cancellation flag) and `Persist`; it may fail in either.
`WorkerPanics` ends the thread in the middle of a message: from then on every message
is dropped, and whoever waits for a reply gets an error. `BackendSpec` puts an
arbitrary front end on top.

DesktopApp is the window: the reducer's states (`kind`, `shownDoc`, `shownJob`,
`cancelling`) and the handlers of `App.tsx`. A handler's guard is the state it was
created with: the exception that matters is the file dialog, whose answer is
handled by the handler of the click (`Choose` has no guard). `asked` and `written`
are history: the document a job was claimed for, and the one whose conversion is at
the destination.

### DesktopPreview: previews and estimates

The two previews of a page and the estimate of the output's size: `usePreview` with
its debounce timer and request counter, `useEstimate`, the reducer's tests of
request ids, and `render_preview` and `start_estimate` with the one estimate slot, its
cancellation flags and the worker's queue. Documents and conversions are there as
far as they replace the session and the window's state. `missing` remembers the
previews for whose absence there is a reason (a failure, or an action that empties
the pane without a change the effect would see).

### RemoteTask, RemotePlan: remote OCR

The commands `api run`, `import`, `cancel` and `delete-content` and the desktop's API
task with its local fallback. Each HTTP attempt is a step: the request may be lost,
carried out with the answer lost, refused, or answered. So is each write of a file
and each transaction of the task store; a read that a later write depends on is a
step of its own, since the update of a task record is a read and a write. Commands die
anywhere. The service is external: it keeps its promises (a task per idempotency key,
terminal states stay) and costs what it says.

RemotePlan has the data: what a plan, a receipt and a result must be, the consent
digest, the idempotency keys, and what the client refuses of each answer.

### Conversion, PageMath, ImageStages, Benchmark, Algorithms

Conversion is `process_pdf`, `analyze_pdf` and `estimate_pdf` stage by stage for several
runs with one destination path: `check_destination`, the page loop, the write into a
temporary file, validation, and `persist` on both platforms and in both write
strategies. The direct write of a sandboxed build has a step in which the file is
there and incomplete (`fill`).

PageMath has pages as numbers: selections, samples, pixel sizes, quartiles,
durations, estimates, outliers. ImageStages has the stages on images of integers:
grays, contrast, Otsu, Sauvola, despeckling, packed bits. Both are written so that they
can be reasoned about: loops are recursive functions, and the value at a place of a sorted
sequence is the one with fewer than that many values below it and at least that many up to
it. Two results hang on how floating point rounds, and are any that rounding can leave: an
estimate cut to whole bytes (`Truncations`; 4/49 bytes per pixel of 49 pixels are 3 bytes)
and which of two thresholds with one variance Otsu's comparison calls the greater
(`Roundings`). Benchmark has the loading of datasets and profiles, scores, regions and their sums.

Algorithms states what RemotePlan, PageMath and ImageStages promise. Its behaviours are
one step from the start to one input of one algorithm (`ProbeSpec`), so that a property is
an invariant; the inputs are constants with assumptions that say which ones the code can
be given (`PlansAssumption`, `PagesAssumption`, `ThresholdsAssumption`,
`MasksAssumption`). MCAlgorithms gives them small values.

### DocumentPackage, DerivedDocument, Bookmarks, BookmarkReviews, SearchablePdf, PdfOutline, Workspace

DocumentPackage, DerivedDocument, Bookmarks and SearchablePdf are operators, each extending
the one before: how a package is made from a PDF and which directories are read back; words,
lines and chunks, the overlay of revisions, exports and bundles; the generation of bookmark
candidates; page boxes with inheritance and hidden text. Bookmarks also extends
BookmarkReviews, which has the order and the parents of candidates, the log of reviews, the
view it gives, and what of it is put into a PDF; SearchablePdf extends PdfOutline, the links of the outline
written into a PDF, and what is asked of them. Digests and identifiers are the tuple of what is hashed.

Workspace is the processes that read and replace the files beside a package:
`revision add`, the bookmark commands and the review workbench, the build of a
searchable PDF, and exports. Commands take no lock; `save_revisions` writes through
one temporary name, so files are inodes; the replacement of an export directory is a
backup, a rename and, when that fails, a restore. A process may be killed at any step
and a rename of a directory may fail (`MaxFaults`).

## Runs

Deadlock is not checked: every instance stops when its bounds are used up or its jobs
have ended.

| Run | Properties | What it shows |
| --- | --- | --- |
| `job_store` | TypeOK, CounterMatchesPages, CompletedMeansAllPages, CancellationWins, RunsBelongToAttempts, JobLeaseCoversPages, ImplementsLedger, OnlyLeaseholdersOverlap | two workers with clocks up to a tick behind compete for two pages and may stop anywhere, with cancellation and recovery at any time: rows, counters and provider runs agree, a worker comes to hold a lease next to another's only if it held one when it read its clock, a cancellation is never overtaken, and nothing clients were told is taken back |
| `job_identity` | AcceptedCallersAgree, OneStamp | callers that were handed one job agree on its pages and configuration |
| `ocr_two_runs` | CommittedPageOnDisk, SummaryIsComplete, EvidenceIsFinal | two runs race for one package, dying anywhere: what is committed is on disk and stays, and a summary of a completed job lists every page |
| `ocr_resume` | RecordedPagesAreNotRedone | one run at a time, started again after every end: a recorded page is adopted, never recognised again |
| `desktop` | JobSlotIsTheJob, ShownEndIsTrue | two calls at a time, answers and events in any order, the worker dying: the slot is that of the job under way, and the end shown is its end |
| `desktop_ends` | JobsEnd | the slot of every job is freed, also when the worker died with the job in its queue |
| `desktop_preview` | PaneComesRight, NobodyWaitsInVain, EstimatesCanBeStopped | pages, settings and documents change while previews and an estimate are under way: once all is quiet the panes show the window's page and settings, nobody waits for an answer that was dropped, and every estimate can be stopped |
| `remote_tasks` | InstalledHasArtifact, SummaryMatchesPages, OverBudgetResultNotInPackage, AcknowledgedMeansDeleted | two commands on one plan or two, with lost, repeated and refused requests: package, task store and service agree on what was installed, paid for and deleted |
| `conversion` | DestinationIsWhole, RunsTidyUp, CancelledRunsStop | two runs with one destination, cancelled, failing or killed at any stage: what appears is a whole document, and a run that stops leaves nothing |
| `workspace` | TextIsNotOlder, LogsOnlyGrow, BundleIsKept | three processes in any interleaving, killed at any step: one editor's logs only grow, a PDF's text is not older than its bookmarks, an export is not lost to a failed replacement |
| `algorithms` | PlansBind, PagesAreExact, ThresholdsAreRight, PackedPageIsClean, ScoresAgree, PackagesAreLinked, TextFollowsRevisions, OutlinesAreTrees | the pure algorithms against reference definitions over bounded inputs |
| `desktop_wrong_document` | ConvertsRequestedDocument | a violation: a conversion started while another document is being opened converts that one (`findings`) |

Operators named `...Faulty` are mistakes a programmer could make, put next to the
definition they belong to; every property is shown to fail when a mistake replaces
its definition.

### Bounds

- `job_store`: two pages, two owners, a retry limit of 2, leases of 2 ticks, the clock
  stopped at 4, at most 3 claims of a page. Four ticks are enough for a lease to be
  granted, run out, be taken over, and the late worker to come back; the claims pass the
  retry limit and do not merely reach it. The code's constants (3 attempts,
  3600 s) are scaled down: all comparisons are relative. `ClockLag` is 1, half a lease, enough
  for a claim with an old time to meet a lease that has ended or begun since; `Leases` is one
  length, as all callers use, which `JobLeaseCoversPages` needs.
- `ocr_two_runs`, `ocr_resume`: two pages, one with native text, because page order and
  routes are told apart by two; two processes are every pair of steps that can meet.
  Answers of a provider differ in whether they have a raw artifact. Leases expire in both.
- `desktop`: two calls at a time, because every interleaving is one command against
  another, the worker, or the relay task of an earlier job; three ids, so that a late
  event of the first job meets the second. `desktop_ends` has two ids (no symmetry),
  `desktop_wrong_document` two files and four ids. Ids are handed out only while `IdBound`
  leaves one for every call under way that needs one (`IdLeft`).
- `desktop_preview`: two pages, two settings; `MCBudgets` says how often the user may ask for
  each thing in one behaviour: previews with openings, estimates with openings and a
  conversion, all of them once, and estimates around two conversions.
- `remote_tasks`: two commands, one plan that keeps the content and one that deletes it,
  two pages, two attempts of a request, two polls, one trace, costs at and above the budget.
- `conversion`: three pages tell those structural validation renders (first and last) from the
  one it does not; two runs race for the destination; all builds and option combinations.
- `workspace`: one editor that replaces exports, a second process that does, and one
  that does not; five commands are a generation, a review, a revision, a build and another
  revision; one failed rename.
- `algorithms`: the inputs named in `MCAlgorithms` and `MCDocuments`: images of up to 9 pixels
  with values at the borders, widths around a byte for packing, selections over pages
  around the last one, outlines of up to 4 bookmarks and chains at the depth limits,
  directories with every single damage the validation names, logs of up to three revisions or reviews.

### Fairness

`desktop_ends` assumes that threads and tasks run and that answers and events arrive
(weak fairness of each command's steps, the worker, each relay task and each delivery),
which the operating system and the runtime provide; nothing is assumed of the user or of
the worker's survival. No run has a liveness property of the job store: that a cancellation
comes to an end would need someone who keeps calling `recover_expired`, and nothing
outside tests does (see "Disagreements").

## Proofs

The theorems hold for every value of the constants that satisfies the named assumptions
of the modules: positive numbers of pages, attempts and leases, special values
that are not ordinary ones (`Null` is no id, digest, plan or number; `"local"` no plan,
`"nobody"` and `"user"` no runs), finite sets of processes where they are counted.
Each safety property is proved from an inductive invariant that TLC had checked first.

- **JobStoreProofs**. `TypeOK` is inductive. `JobInv` (cancellation wins and
  completed means all pages) and `CounterMatchesPages` are each inductive with it, and
  that checkpoints and final verdicts stay follows. `RunsBelongToAttempts` needs `RunInv`:
  a running page has an attempt no run is recorded for. `OnlyLeaseholdersOverlap`
  compares the time a claim or heartbeat works with and the leases live then, which
  include all that are live now (`ClaimJoins`, `HeartbeatJoins`); no other operation makes a
  worker hold a lease. `JobLeaseCoversPages` needs `LeaseInv`: a page's lease ends at most one lease from
  now, and whoever sets the job's sets it one lease from a time at most `ClockLag` ago; this
  takes one lease length, as all callers use. Both are proved for every lag.
  `ImplementsLedgerCorrect` maps each step to the ledger's step or a stutter; it needs
  `JobInv`, because a completed or cancelled job must not be left.
- **JobIdentityProofs**. `AcceptedCallersAgree`, strengthened by what a caller knows
  at each place: a row waiting for its stamp has no fingerprint, so no caller can have
  compared with it, and has one creator (`OneStamp`).
- **DurableOcrProofs**. `IInv` is the types of files and processes, the write order
  (raw artifact, record, checkpoint), and what a process's registers say of the files
  (`Registers`). Files only go from absent to present, so what a process has seen
  stays true although others run and die: `CommittedPageOnDisk` and `EvidenceIsFinal` follow.
  `ImplementsStoreCorrect` is the refinement of the job store, step by step; by it
  the store's theorems hold of the runs (`RunsKeepThePromises`), including the ledger.
  `SummaryIsComplete` needs `SummaryInv`: the pages before the one a run is at have
  checkpoints, and `run.pages` is their records. `RecordedPagesAreNotRedone` assumes
  one process at a time and needs `ResumeInv`: a failed page means a failed job, at which
  nobody is at work, so that a run only claims and recognises pages without a record.
- **DesktopProofs**. `JobSlotIsTheJob` for every front end: the slot has one holder, the
  call that claimed it until it has sent the job, then the relay task (`Slot`); ids are
  new and an outcome precedes the release (`Order`); the job is in one message at
  most (`Single`). That the worker answers the call that asked, once, is `Reply`, without
  which its answer could overwrite a call that holds the slot. Every step of the window
  is a step of the back end or stutters (`AppIsFrontEnd`), so that carries over.
  `ShownEndIsTrue` needs `Ends`: an outcome is set once, agrees with what was written,
  and is the one its event carries.
- **DesktopPreviewProofs**. `EstimatesCanBeStopped` needs that ids are new, that a message
  and the estimate it is for match, and the same of the one the worker is at (`StopInv`).
  `NobodyWaitsInVain` needs `PreviewsCome` and `EstimateComes`: what the window waits for
  is what its hook asked for last. `PaneComesRight` is proved of the behaviours in which no
  two openings are under way at once (`[]OneOpening`), however many there are: the window allows
  two, and TLC refutes it of them. The session and the back end's
  document are then the window's, or gone (`OneDocument`); an answer the window will
  accept was rendered from them (`ImagesFit`); and the newest requests ask for what the
  effect last ran with, so that what a pane lacks is on its way or excused (`RequestsFit`).
- **RemoteTaskProofs**. `Shared` is what files, records and service have in
  common, `Knows` what a command at each place relies on (that the artifact it is about
  to record is there, that the result it installs was completed within budget), and
  `Grows` that what commands rely on is never taken back, which makes one command's
  knowledge survive the others' steps.
- **ConversionProofs**, the runs. `RunOK`: in the page loop the pages done and those left are the
  document's in order (`InOrder`), so that what is written has all of them; what was
  accepted by validation renders. `DestOK` says the same of the destination, with the one
  exception of a direct write.
- **ConversionProofs**, the algorithms: four of the invariants of Algorithms for every input
  its assumptions allow, of any size. `PlansBind`: a consent is valid for one plan,
  idempotency keys tell requests apart, a receipt gives its plan back, and a result that
  passes validation has every page once (its page numbers are bounded and distinct, and
  there are as many). `PagesAreExact`: a selection is the pages named, once and in order;
  samples are even; quartiles divide the values and both implementations of the median
  agree; the bounds of an estimate enclose it, and with all pages sampled the size of the
  document, which is the estimate itself for pages of one size, to the byte truncation may
  cost; few pages are outliers. `ThresholdsAreRight`: the contrast is monotone and keeps the ends, the
  single pass of Otsu, however its floats are rounded, finds a shade no threshold separates
  better than by more than the rounding, and the windows of the
  integral images are those of Sauvola's definition. `PackedPageIsClean`: packing loses
  nothing, despeckling removes exactly the components below the limit, and equal
  fingerprints give equal pages.
  A recursive function has to be shown to exist before its equations can be used
  (`Recursion`, `Iteration`), and induction is by the least number at which a set differs
  (`LeastNatural`, `Induction`), since sets can be cited where an induction theorem with an
  operator parameter cannot. On these rest sums over finite sets, the flood fill (what is left
  to visit decreases, and what has been reached is a component), the running weights of
  Otsu, the integral images, and the counts behind order statistics.
- **ConversionProofs**, the outline. `OutlineOfForestIsTree`: whatever is confirmed, the links
  written form its tree. Each step along first and next meets a new bookmark until all are
  met, since what is closed under the links misses none: of those missed the least deep has
  a parent that is met, and then so are the parent's first child and, one after the other, its
  siblings.
- **ConversionProofs**, the reviews. `ReviewsReplayCorrect`, for any snapshot that has a view
  without reviews and whatever is asked: after n reviews each candidate has its own part and the
  title and the verdict of the last of them (`Follows`, by induction on n); the comparison of page,
  height and level is a total order with the position for the ties, so the sort is a
  rearrangement in that order (`BeforeIsAnOrder`, `PositionsAre`); and as every child is deeper
  than its parent, the deepest of any candidates is above none of them (`NoCircle`).
  `ReviewedOutlineIsTree`: so those confirmed are a forest and their outline a tree.
  `GeneratedSnapshotsHaveViews`: a valid snapshot with the parents of `WithParents` has a view. The
  search for circles ends at a candidate without a parent, as fewer are less deep at each
  step (`ChildrenAreRooted`): after the comparison of levels it never refuses anything.
- **ConversionProofs**, the benchmark: two parts of `ScoresAgree` for masks of every size.
  `ScoresAgreeOnPerfection`: twice the right ink over all the ink of both masks, multiplied
  by what the means bring in, is 1 without a wrong pixel only; blank pages are cases of their own.
  `RegionsAddUpCorrect`: a shift is a bijection between the pixels of a region and those of the
  page there.
- **WorkspaceProofs**. No lock keeps two editors apart, and with two at once entries are lost.
  So `LogsOnlyGrow` and `TextIsNotOlder` are proved, for any editors, of the behaviours in which no two
  commands are between reading and replacing the same log (`[]AddsApart`, `[]ReviewsApart`):
  `LogInv` with what the editor relies on between
  reading the log and renaming the new one over it (`Editing`, over inodes), what a
  reviewer relies on (`Reviewing`) and a builder (`Building`: its snapshot is a prefix of the
  log it then reads). `BundleIsKept` assumes at most one failed rename: an exporter that could
  not put its directory in place, without a failure of its own, was kept from it by another's
  (`BundleInv`).

Only model-checked, and why:

- `JobsEnd`: liveness under fairness is out of the prover's reach.
- The part of `ScoresAgree` of `algorithms` about reports: products and means of fractions, sorted,
  grouped and folded, with operators of the community modules the provers cannot instantiate.
- `PackagesAreLinked`, `TextFollowsRevisions` and `OutlinesAreTrees`, but for the reviews
  and the outline: page tree inheritance and the walk of an outline are RECURSIVE operators,
  and the overlay of words and the joining of lines are folds over operators.

## Disagreements without a run

Met while modelling, visible in the models, and left without a run of their own: what the
code does, against what the repository says.

Job store and OCR run:

- After a crash the resumed run leases the next page instead of its own, as `claim_page`
  hands out the first that is free (`ocr.rs:967`, `jobs.rs:312`).
- An orphaned raw artifact stops a run whose provider answers differently
  (`ocr.rs:1248`; ADR 0005:33).
- A job cancelled after its run died never becomes cancelled, as nothing but tests calls
  `recover_expired` (`jobs.rs:677`, `ocr.rs:902`; `docs/document-jobs.md:23`).
- The time of a claim is read before the wait for the lock, so two workers can hold live leases
  of one job (`jobs.rs:302`), and the run that claims last with the older time can set the job's lease
  below a page's (`jobs.rs:396`): `recover_expired` would then call a job idle one of whose pages is leased.
- `fail_page` and `record_provider_failure` set the job's status from the one page, so a
  failed job goes back to queued when another page fails retryably (`jobs.rs:628`;
  `docs/document-jobs.md:26`).
- `claim_page` takes an expired page again whatever its attempts; only `recover_expired`
  compares them with the limit (`jobs.rs:380`; `docs/document-jobs.md:25`).
- `ensure_job` inserts and stamps in two transactions; after a crash in between, the job's own
  configuration is rejected for ever (`jobs.rs:243`).
- `progress` reads the job row and the page rows in two statements (`jobs.rs:282`).
- A temporary file left in `ocr/pages` by a crash makes `validate_ocr_page_files`
  refuse the package in every later run (`ocr.rs:1423`).
- Every run of the command passes the same owner (`commands/ocr.rs:166`): to the store two
  concurrent runs are one worker, and both may recognise the same page; the no-clobber
  links keep `CommittedPageOnDisk` true.
- The 1 MiB limit of a record refuses runs that finished (`ocr.rs:1444`; `docs/cli.md:82`, stated as
  `FinishedRunsAreRecorded` in MCDocuments), and one oversized native word fails a whole run.
- Boxes one pixel outside the page pass the OCR validation (`ocr.rs:354`) and are refused
  by the derived document.

Remote OCR:

- The receipt is written only after polling (`api.rs:167`), while its ADR has it follow the
  creation of the task; traces of failed runs are never persisted.
- A run repeated after a crash between its last event and the deletion fails on the duplicate
  event id, so the run never deletes the content.
- `delete-content` on a task that was never installed records `ResultInstalled` without an
  artifact; `import` does not compare the cost with the budget.
- `write_ocr_records` creates new files only, so a crash in the middle of an installation
  blocks the next one.
- The desktop's `api_cancellation` is one slot for all API tasks, and cancelling with the route
  `api_then_local` starts the local fallback.
- A cancellation that arrives between a client's test of the flag and its request still sends
  that one (`mpdf-api-client/src/lib.rs:333` and `:352`).
- `persist_task_action` bypasses `transition` (ADR 0008), which nothing but tests calls.

Desktop:

- A job that ends before its start is announced leaves the window in "processing"
  (`reducer.ts:294`; `docs/desktop.md:41`).
- The answer of an open is applied in every state of the window and its document compared with
  nothing (`reducer.ts:136`; `docs/desktop.md:265`). With two openings in flight the
  worker's session and the back end's document may be of different openings.
- Dismissing the error of a failed conversion closes the back end's document and shows it as
  ready (`App.tsx:207`); cancelling the password prompt does nothing (`App.tsx:162`).
- Choosing the page or settings that are there empties the pane, and the effect does not run
  again: "No preview yet" until something changes.
- During the debounce, and for good if the new request fails, the previous request's answer
  is accepted and shows the old page (`usePreview.ts:3`, `docs/desktop.md:137`). A success of
  one preview kind clears the other's error. The original is requested again on any change of
  settings, although only the processed preview is said to be invalidated.
- A change of settings leaves a running estimate alone, whose result is then shown as that of
  the new settings (`reducer.ts:164`). A failed or restarted estimate discards the
  previous number.
- An estimate that passed its test of the job slot before the conversion claimed it is queued
  before the conversion with its flag never set (`docs/desktop.md:168`).
- `estimate_cache` may be labelled with the document of the request although the worker
  estimated another; late thumbnails of the old document can be shown for the new one.

Conversion, images, benchmark:

- A conversion without overwrite replaces a file that appeared meanwhile (`pipeline.rs:1199`
  and `:1356`; its documentation at `:61`).
- The comment that Windows cannot rename onto an existing file does not hold of the library
  call it is about.
- Otsu's lowest threshold on ties (`otsu.rs:17`) is the lowest only if the floats tie: of the
  pixels 0, 1, 1, 2 the thresholds 0 and 1 separate alike, and the code returns 1 (`otsu.rs:63`).
- An estimate of all pages may be a byte short of the document (`pipeline.rs:1118`).
- `settings_fingerprint` promises equal fingerprints for equal output; settings that do not
  matter to a page are in it. `mask_io.rs` rejects what is not black or white, but rounds
  16-bit values near the ends. A DRD of 0 does not imply a perfect page. A bad region is
  found in the middle of a benchmark.

Package, revisions, bookmarks, searchable PDF:

- Two editors share the temporary name `revisions.json.tmp` (`revisions.rs:204`): the log can be
  torn or lose entries, although it is "append-only" (ADR 0006:16). TLC refutes `LogsOnlyGrow`
  with two editors. `save_revisions` does not sync; `load` refuses more than 2 MiB, `save` does
  not check.
- After two failed renames the only backup of an export is deleted with its temporary
  directory (`commands/derived.rs:241`; `docs/derived-document.md:16`). TLC refutes `BundleIsKept`
  with `MaxFaults = 2`.
- A build reads the revisions twice (`commands/pdf.rs:66`), so its text may be newer than its
  bookmarks, although the command is said to fail closed on stale state
  (`docs/bookmarks-searchable-pdf.md:28`).
- After a text revision the bookmark snapshot is stale, and after it is generated again its
  reviews are, with no command to recover (ADR 0007:9). `save_snapshot` tests for the file
  and then writes (`persistence.rs:84`).
- The effective view sorts by effective title, the ADR by normalized source title; the order of
  the source outline is not kept in the PDF. Outline items below the root carry no
  `Count`; a confirmed bookmark whose parent is not confirmed goes to the root; levels above 64
  give a snapshot that cannot be saved.
- A page whose `Contents` is a reference to an array gets an array within an array.
- `write_to` writes no asset files; two spellings of one asset path are accepted as different;
  `empty_region` issues of the review queue target the page, which `AddRevision` always refuses;
  `verify_bundle` and `is_stale` have no callers outside tests. The hOCR export closes sections
  per block, never for pages without blocks.

## Not modelled

Of the modelled components: progress events, the conversion of settings, the estimate cache,
thumbnails, the output path and zoom; `progress` and listing commands; TLS, redirects and byte
limits of responses; the comparison commands of the benchmark. Whole components: sidecar
transcripts (the framing of lines in a finished file, without state and without a caller in
the product), argument parsing, JSON shapes and wording of the command line, build and release
scripts.

Outside the repository's code: SQLite (transactions are atomic and durable; WAL with
`synchronous=NORMAL` may lose the last commits on power loss, which is not modelled), PDFium,
the Group 4 codes, resampling, SHA-256 (injective), the remote service (as the client relies
on it). Other jobs of the same database share nothing with the one modelled. `OpeningEnds` of
DesktopApp is stated and not run: openings end as jobs do, at the cost of a second liveness
run.

## Plan

What could be proved next, in this order: that reports agree with their pages; the
acceptance of OCR records; that the candidates of an outline or of lines have ids of their own.
