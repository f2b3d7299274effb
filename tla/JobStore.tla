------------------------------ MODULE JobStore ------------------------------
(***************************************************************************)
(* The durable page-job store of crates/mpdf-core/src/jobs.rs.             *)
(*                                                                         *)
(* One job with its page rows, as the SQLite tables `jobs`, `pages` and    *)
(* `provider_runs` hold them.  Every public method of JobStore runs in one *)
(* transaction: an immediate one in claim_page, and in the others a        *)
(* deferred one, which takes the write lock at its first write.  SQLite    *)
(* refuses that write if another writer has overtaken what the transaction *)
(* read, and the method rolls back.  So every method is one action, and    *)
(* the methods that fail change nothing: stuttering steps.                 *)
(* Rows of different jobs share nothing, so one job stands for all of them *)
(* (recover_expired, which scans every job, treats each one alike).        *)
(*                                                                         *)
(* A worker reads its clock before it enters the transaction and may wait  *)
(* there for the database lock (PRAGMA busy_timeout): the time `t` an      *)
(* operation works with lags the real clock `now` by up to ClockLag.       *)
(*                                                                         *)
(* Operators with "Faulty" in their name are not part of the model: each   *)
(* is the definition that follows it with a mistake in it, kept so that    *)
(* the properties can be shown to catch that mistake.                      *)
(***************************************************************************)
EXTENDS Integers, FiniteSets

CONSTANTS
  PageCount,     \* number of pages of the job
  Owners,        \* lease-owner identifiers of the workers
  Digests,       \* artifact digests a page can be checkpointed with
  Null,          \* SQL NULL in an owner or digest column
  MaxAttempts,   \* MAX_PAGE_ATTEMPTS
  Leases,        \* the lease lengths the workers ask for
  ClockLag,      \* how stale the time given to an operation may be
  MaxTime,       \* bound: the clock stops here and no lease ends later
  AttemptBound   \* bound: a page is claimed at most so often

ASSUME PageCountAssumption == PageCount \in Nat \ {0}
ASSUME NullAssumption == Null \notin Owners \cup Digests
ASSUME AttemptsAssumption == MaxAttempts \in Nat \ {0}
ASSUME LeasesAssumption == Leases \subseteq Nat \ {0}
ASSUME ClockAssumption == ClockLag \in Nat /\ MaxTime \in Nat
ASSUME AttemptBoundAssumption == AttemptBound \in Nat

Pages == 0 .. PageCount - 1

PageStatuses == {"queued", "running", "completed", "failed", "cancelled"}
JobStatuses == {"queued", "running", "cancelling", "completed", "failed",
                "cancelled"}
FinalJobStatuses == {"completed", "failed", "cancelled"}

NoLease == -1    \* SQL NULL in a lease_until column

VARIABLES
  now,               \* the machine's clock
  jobStatus, cancelRequested, completedPages, retries,
  jobOwner, jobLease,                                  \* the row of `jobs`
  pageStatus, attempts, pageOwner, pageLease,
  checkpoint,        \* the rows of `pages`; checkpoint is artifact_digest
  succeededRuns, failedRuns   \* rows of `provider_runs`, per page and outcome

jobVars == <<jobStatus, cancelRequested, completedPages, retries, jobOwner,
             jobLease>>
pageVars == <<pageStatus, attempts, pageOwner, pageLease, checkpoint>>
runVars == <<succeededRuns, failedRuns>>
vars == <<now, jobVars, pageVars, runVars>>

-----------------------------------------------------------------------------
(* Comparisons with a nullable deadline: with NULL both are false.         *)
Live(until, t) == until # NoLease /\ until > t
Expired(until, t) == until # NoLease /\ until <= t

\* The times a worker may be working with.
Times == {t \in 0 .. MaxTime : t <= now /\ now <= t + ClockLag}

RunningPages == {p \in Pages : pageStatus[p] = "running"}
LivePages(t) == {p \in RunningPages : Live(pageLease[p], t)}

\* The page rows an UPDATE ... WHERE status='running' AND lease_owner=o AND
\* lease_until>t can hit.
Owns(p, o, t) == p \in LivePages(t) /\ pageOwner[p] = o

\* The next owner may take p: it waits, or its last worker is overdue.
Open(p, t) == \/ pageStatus[p] = "queued"
              \/ p \in RunningPages /\ Expired(pageLease[p], t)

-----------------------------------------------------------------------------
\* create_job: one transaction inserts the job and all its pages.
Init ==
  /\ now = 0
  /\ jobStatus = "queued" /\ cancelRequested = FALSE
  /\ completedPages = 0 /\ retries = 0
  /\ jobOwner = Null /\ jobLease = NoLease
  /\ pageStatus = [p \in Pages |-> "queued"]
  /\ attempts = [p \in Pages |-> 0]
  /\ pageOwner = [p \in Pages |-> Null]
  /\ pageLease = [p \in Pages |-> NoLease]
  /\ checkpoint = [p \in Pages |-> Null]
  /\ succeededRuns = [p \in Pages |-> 0]
  /\ failedRuns = [p \in Pages |-> 0]

\* The head of claim_page_internal: the job takes work, and the one live
\* lease the query looks at (LIMIT 1 without an order) is the caller's own.
AcceptsAnyFaulty(o, t) ==
  /\ ~cancelRequested /\ jobStatus \notin FinalJobStatuses
Accepts(o, t) ==
  /\ ~cancelRequested /\ jobStatus \notin FinalJobStatuses
  /\ LivePages(t) # {} => \E p \in LivePages(t) : pageOwner[p] = o

\* The tail of claim_page_internal: page and job row get the new lease.
Take(p, o, t, lease) ==
  /\ t + lease <= MaxTime /\ attempts[p] < AttemptBound
  /\ pageStatus' = [pageStatus EXCEPT ![p] = "running"]
  /\ attempts' = [attempts EXCEPT ![p] = @ + 1]
  /\ pageOwner' = [pageOwner EXCEPT ![p] = o]
  /\ pageLease' = [pageLease EXCEPT ![p] = t + lease]
  /\ jobStatus' = "running"
  /\ jobOwner' = o
  /\ jobLease' = t + lease
  /\ UNCHANGED <<now, cancelRequested, completedPages, retries, checkpoint,
                 runVars>>

\* claim_page: the lowest open page.
ClaimPage(o, t, lease) ==
  /\ Accepts(o, t)
  /\ \E p \in Pages :
       /\ Open(p, t) /\ \A q \in Pages : Open(q, t) => p <= q
       /\ Take(p, o, t, lease)

\* claim_page_at: page p, also when the caller itself already runs it.
ClaimPageAt(p, o, t, lease) ==
  /\ Accepts(o, t)
  /\ Open(p, t) \/ Owns(p, o, t)
  /\ Take(p, o, t, lease)

\* heartbeat: the job's owner extends the job lease and its live pages.
Heartbeat(o, t, lease) ==
  /\ t + lease <= MaxTime
  /\ jobOwner = o /\ Live(jobLease, t)
  /\ jobStatus \in {"running", "cancelling"}
  /\ jobLease' = t + lease
  /\ pageLease' = [p \in Pages |-> IF Owns(p, o, t) THEN t + lease
                                                     ELSE pageLease[p]]
  /\ UNCHANGED <<now, jobStatus, cancelRequested, completedPages, retries,
                 jobOwner, pageStatus, attempts, pageOwner, checkpoint,
                 runVars>>

-----------------------------------------------------------------------------
Completed(status) == {p \in Pages : status[p] = "completed"}

\* finalize_page_transaction: the job's verdict once page rows are `status`.
VerdictEarlyFaulty(status) ==
  IF \A p \in Pages : status[p] \in {"completed", "cancelled", "failed"}
    THEN IF cancelRequested THEN "cancelled" ELSE "completed"
    ELSE jobStatus
Verdict(status) ==
  IF \A p \in Pages : status[p] \in {"completed", "cancelled"}
    THEN IF cancelRequested THEN "cancelled" ELSE "completed"
    ELSE jobStatus

\* The transaction checkpoint_page and record_provider_success_and_checkpoint
\* share.
CommitUncountedFaulty(p, o, digest, t) ==
  /\ Owns(p, o, t)
  /\ pageStatus' = [pageStatus EXCEPT ![p] = "completed"]
  /\ checkpoint' = [checkpoint EXCEPT ![p] = digest]
  /\ pageOwner' = [pageOwner EXCEPT ![p] = Null]
  /\ pageLease' = [pageLease EXCEPT ![p] = NoLease]
  /\ completedPages' = Cardinality(Completed(pageStatus))
  /\ jobStatus' = Verdict(pageStatus')
  /\ UNCHANGED <<now, cancelRequested, retries, jobOwner, jobLease, attempts>>
Commit(p, o, digest, t) ==
  /\ Owns(p, o, t)
  /\ pageStatus' = [pageStatus EXCEPT ![p] = "completed"]
  /\ checkpoint' = [checkpoint EXCEPT ![p] = digest]
  /\ pageOwner' = [pageOwner EXCEPT ![p] = Null]
  /\ pageLease' = [pageLease EXCEPT ![p] = NoLease]
  /\ completedPages' = Cardinality(Completed(pageStatus'))
  /\ jobStatus' = Verdict(pageStatus')
  /\ UNCHANGED <<now, cancelRequested, retries, jobOwner, jobLease, attempts>>

CheckpointPage(p, o, digest, t) == Commit(p, o, digest, t) /\ UNCHANGED runVars

RecordProviderSuccess(p, o, digest, t) ==
  /\ Commit(p, o, digest, t)
  /\ succeededRuns' = [succeededRuns EXCEPT ![p] = @ + 1]
  /\ UNCHANGED failedRuns

-----------------------------------------------------------------------------
\* What fail_page and record_provider_failure turn the running page into.
FailureOutcomeFaulty(p, retryable) ==
  IF retryable /\ attempts[p] < MaxAttempts THEN "queued"
  ELSE IF cancelRequested THEN "cancelled" ELSE "failed"
FailureOutcomeMistypedFaulty(p, retryable) ==
  IF cancelRequested THEN "cancelling"
  ELSE IF retryable /\ attempts[p] < MaxAttempts THEN "queued" ELSE "failed"
FailureOutcome(p, retryable) ==
  IF cancelRequested THEN "cancelled"
  ELSE IF retryable /\ attempts[p] < MaxAttempts THEN "queued" ELSE "failed"

\* Their common effect on the page row and on the retry counter.
GiveBack(p, outcome) ==
  /\ pageStatus' = [pageStatus EXCEPT ![p] = outcome]
  /\ pageOwner' = [pageOwner EXCEPT ![p] = Null]
  /\ pageLease' = [pageLease EXCEPT ![p] = NoLease]
  /\ retries' = IF outcome = "queued" THEN retries + 1 ELSE retries
  /\ UNCHANGED <<now, cancelRequested, completedPages, jobOwner, jobLease,
                 attempts, checkpoint>>

\* fail_page leaves the status of a job under cancellation alone ...
FailPage(p, o, t, retryable) ==
  LET outcome == FailureOutcome(p, retryable)
  IN  /\ Owns(p, o, t)
      /\ GiveBack(p, outcome)
      /\ jobStatus' = IF outcome = "cancelled" THEN jobStatus ELSE outcome
      /\ UNCHANGED runVars

\* ... and record_provider_failure makes it cancelled at once.
RecordProviderFailureFaulty(p, o, t, retryable) ==
  LET outcome == FailureOutcome(p, retryable)
  IN  /\ p \in RunningPages /\ Live(pageLease[p], t)
      /\ IF pageOwner[p] = o
           THEN GiveBack(p, outcome) /\ jobStatus' = outcome
           ELSE UNCHANGED <<now, jobVars, pageVars>>
      /\ failedRuns' = [failedRuns EXCEPT ![p] = @ + 1]
      /\ UNCHANGED succeededRuns
RecordProviderFailure(p, o, t, retryable) ==
  LET outcome == FailureOutcome(p, retryable)
  IN  /\ Owns(p, o, t)
      /\ GiveBack(p, outcome)
      /\ jobStatus' = outcome
      /\ failedRuns' = [failedRuns EXCEPT ![p] = @ + 1]
      /\ UNCHANGED succeededRuns

-----------------------------------------------------------------------------
\* request_cancel: nothing for a job in a final status; otherwise waiting
\* pages are cancelled and running ones keep their lease.
RequestCancel ==
  /\ jobStatus \notin FinalJobStatuses
  /\ cancelRequested' = TRUE
  /\ pageStatus' = [p \in Pages |->
       IF pageStatus[p] = "queued" THEN "cancelled" ELSE pageStatus[p]]
  /\ jobStatus' = IF RunningPages = {} THEN "cancelled" ELSE "cancelling"
  /\ UNCHANGED <<now, completedPages, retries, jobOwner, jobLease, attempts,
                 pageOwner, pageLease, checkpoint, runVars>>

\* recover_expired, the page half: what an overdue page becomes.
RecoveredPage(p) ==
  CASE cancelRequested -> "cancelled"
    [] ~cancelRequested /\ attempts[p] >= MaxAttempts -> "failed"
    [] OTHER -> "queued"

\* The job half: jobs whose lease is gone get the status of their pages.
RecoveredJob(status) ==
  CASE cancelRequested -> "cancelled"
    [] ~cancelRequested /\ (\E p \in Pages : status[p] = "failed") -> "failed"
    [] OTHER -> "queued"

OverdueJobFaulty(t) ==
  jobStatus \in {"running", "cancelling"}
OverdueJob(t) ==
  /\ jobStatus \in {"running", "cancelling"}
  /\ jobLease = NoLease \/ Expired(jobLease, t)

RecoverExpired(t) ==
  LET overdue == {p \in RunningPages : Expired(pageLease[p], t)}
      status == [p \in Pages |-> IF p \in overdue THEN RecoveredPage(p)
                                                  ELSE pageStatus[p]]
  IN  /\ overdue # {} \/ OverdueJob(t)
      /\ pageStatus' = status
      /\ pageOwner' = [p \in Pages |-> IF p \in overdue THEN Null
                                                        ELSE pageOwner[p]]
      /\ pageLease' = [p \in Pages |-> IF p \in overdue THEN NoLease
                                                        ELSE pageLease[p]]
      /\ jobStatus' = IF OverdueJob(t) THEN RecoveredJob(status) ELSE jobStatus
      /\ jobOwner' = IF OverdueJob(t) THEN Null ELSE jobOwner
      /\ jobLease' = IF OverdueJob(t) THEN NoLease ELSE jobLease
      /\ UNCHANGED <<now, cancelRequested, completedPages, retries, attempts,
                     checkpoint, runVars>>

Tick == now < MaxTime /\ now' = now + 1 /\ UNCHANGED <<jobVars, pageVars, runVars>>

-----------------------------------------------------------------------------
WorkerStep(o, t) ==
  \/ \E lease \in Leases :
       \/ ClaimPage(o, t, lease)
       \/ \E p \in Pages : ClaimPageAt(p, o, t, lease)
       \/ Heartbeat(o, t, lease)
  \/ \E p \in Pages, digest \in Digests :
       CheckpointPage(p, o, digest, t) \/ RecordProviderSuccess(p, o, digest, t)
  \/ \E p \in Pages, retryable \in BOOLEAN :
       FailPage(p, o, t, retryable) \/ RecordProviderFailure(p, o, t, retryable)

Recover == \E t \in Times : RecoverExpired(t)

Next ==
  \/ \E o \in Owners, t \in Times : WorkerStep(o, t)
  \/ RequestCancel
  \/ Recover
  \/ Tick

Spec == Init /\ [][Next]_vars

-----------------------------------------------------------------------------
\* Every column holds a value of its domain.
TypeOK ==
  /\ now \in 0 .. MaxTime
  /\ jobStatus \in JobStatuses /\ cancelRequested \in BOOLEAN
  /\ completedPages \in 0 .. PageCount /\ retries \in Nat
  /\ jobOwner \in Owners \cup {Null}
  /\ jobLease \in 0 .. MaxTime \cup {NoLease}
  /\ pageStatus \in [Pages -> PageStatuses]
  /\ attempts \in [Pages -> 0 .. AttemptBound]
  /\ pageOwner \in [Pages -> Owners \cup {Null}]
  /\ pageLease \in [Pages -> 0 .. MaxTime \cup {NoLease}]
  /\ checkpoint \in [Pages -> Digests \cup {Null}]
  /\ succeededRuns \in [Pages -> Nat]
  /\ failedRuns \in [Pages -> Nat]

\* The stored counter is the number of completed page rows, and exactly these
\* hold a checkpoint: no failure, retry, cancellation or recovery drops or
\* leaks one ("Completed pages are never deleted").
CounterMatchesPages ==
  /\ completedPages = Cardinality(Completed(pageStatus))
  /\ \A p \in Pages : pageStatus[p] = "completed" <=> checkpoint[p] # Null

\* A job is only reported completed when every page really is.
CompletedMeansAllPages ==
  jobStatus = "completed" => Completed(pageStatus) = Pages

\* A requested cancellation is never lost or overtaken and never made up: the
\* job is cancelling or cancelled exactly when someone asked for it, and then
\* no failure, retry or recovery puts a page back in the queue ("A cancellation
\* always wins over another attempt").
CancellationWins ==
  /\ cancelRequested <=> jobStatus \in {"cancelling", "cancelled"}
  /\ \A p \in Pages : /\ cancelRequested => pageStatus[p] # "queued"
                      /\ pageStatus[p] = "cancelled" => cancelRequested

\* Each recorded provider run belongs to a claim of its own: late or repeated
\* reports of an attempt that is over leave no row, and a page has a successful
\* run only if it was committed, and then exactly one.
RunsBelongToAttempts ==
  \A p \in Pages :
    /\ succeededRuns[p] + failedRuns[p] <= attempts[p]
    /\ succeededRuns[p] <= IF pageStatus[p] = "completed" THEN 1 ELSE 0

\* The workers whose lease on some page has not ended.
LiveWorkers == {pageOwner[p] : p \in LivePages(now)}

\* A claim or heartbeat of o may have waited for the lock while a lease of its
\* own ran out.
CaughtWaiting(o) ==
  \E p \in RunningPages : /\ pageOwner[p] = o
                          /\ pageLease[p] <= now /\ now < pageLease[p] + ClockLag

\* The worker lease excludes ("job is already leased by another worker"): a
\* worker that comes to hold a lease is the only one, however claims, expiry,
\* heartbeats and recovery interleave with clocks read too early.  The lag lets
\* one kind of worker in next to another: the one that held the lease itself
\* when it read its clock.
OnlyLeaseholdersOverlap ==
  [][\A o \in LiveWorkers' \ LiveWorkers :
       LiveWorkers' = {o} \/ CaughtWaiting(o)]_vars

\* When all workers ask for the same lease length, no page lease outlives the
\* job row's by more than the lag, whichever of two runs read its clock first;
\* so a job that recovery declares idle, or cancelled, has no page that is still
\* leased for longer than that.
JobLeaseCoversPages ==
  \A p \in RunningPages :
    pageLease[p] <= (IF jobLease = NoLease THEN now ELSE jobLease) + ClockLag

\* A checkpoint once committed is never replaced, whoever comes back late.
CheckpointsAreFinal ==
  [][\A p \in Pages : checkpoint[p] # Null => checkpoint'[p] = checkpoint[p]]_vars

\* A completed or cancelled job stays so: a late claim, failure report or
\* recovery never reopens it.
CompletedAndCancelledAreFinal ==
  [][(jobStatus \in {"completed", "cancelled"}) => UNCHANGED jobStatus]_vars

(***************************************************************************)
(* The store implements the ledger: a page is open until its row reaches a *)
(* final status, and a failed job is open as well: a retryable failure of  *)
(* another of its pages puts it back in the queue.                         *)
(***************************************************************************)
LedgerOutcome == [p \in Pages |->
  CASE pageStatus[p] = "completed" -> "delivered"
    [] pageStatus[p] = "failed" -> "failed"
    [] pageStatus[p] = "cancelled" -> "dropped"
    [] OTHER -> "open"]

Ledger == INSTANCE JobLedger WITH
  Artifacts <- Digests, NoArtifact <- Null,
  outcome <- LedgerOutcome, artifact <- checkpoint,
  cancelled <- cancelRequested,
  verdict <- IF jobStatus \in {"completed", "cancelled"} THEN jobStatus ELSE "open"

\* Every behaviour of the store is one of the ledger: what clients were told
\* about a page is never taken back, by any interleaving of claims, expiry,
\* late reports, cancellation and recovery.
ImplementsLedger == Ledger!Spec
=============================================================================
